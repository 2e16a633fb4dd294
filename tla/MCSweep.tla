------------------------------- MODULE MCSweep -------------------------------
(* Small instances of CheckerSweep for TLC. *)
EXTENDS CheckerSweep, TLC

CONSTANTS a, b, x, y, z

Two == {a, b}
OnlyB == {b}

\* Two pods in a, one in b.
Three == {x, y, z}
HomeOfThree == (x :> a) @@ (y :> a) @@ (z :> b)
OnlyY == {y}

Conf(own, labels) == [own |-> own, labels |-> labels]
Every == {Conf(None, TRUE), Conf(None, FALSE), Conf(a, FALSE)}
=============================================================================
