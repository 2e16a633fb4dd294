----------------------------- MODULE MCRollout -----------------------------
(* Small instances of CheckerRollout for TLC. *)
EXTENDS CheckerRollout, TLC

CONSTANTS a, b

Two == {a, b}
JustA == {a}
OnlyB == {b}
Alike == Permutations({a, b})

\* Every namespace follows cluster-defaults; or b has a policy of its own that
\* does not name the label.
NoOwnPolicy == [n \in Namespaces |-> "none"]
OwnPolicyForB == [n \in Namespaces |-> IF n = b THEN "plain" ELSE "none"]
=============================================================================
