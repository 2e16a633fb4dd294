---------------------------- MODULE PacedRollouts ----------------------------
(***************************************************************************)
(* What waiting for a checker promises, whatever the cluster's controllers *)
(* do: a Deployment starts to roll only when every other that still rolls  *)
(* has been given up, so that pods of several namespaces are not started   *)
(* at once.                                                                *)
(***************************************************************************)
CONSTANT Namespaces

VARIABLES
    rolling,    \* the namespaces whose Deployment is mid-rollout
    gaveUp      \* those of them nobody waits for

pvars == <<rolling, gaveUp>>

Init == rolling = {} /\ gaveUp = {}

Start(n) ==
    /\ rolling \ {n} \subseteq gaveUp
    /\ rolling' = rolling \union {n} /\ gaveUp' = gaveUp \ {n}

Finish(n) == rolling' = rolling \ {n} /\ gaveUp' = gaveUp \ {n}

GiveUp == rolling' = rolling /\ gaveUp' = rolling

Next == GiveUp \/ \E n \in Namespaces : Start(n) \/ Finish(n)

Spec == Init /\ [][Next]_pvars
=============================================================================
