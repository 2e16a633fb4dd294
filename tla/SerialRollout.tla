--------------------------- MODULE SerialRollout ---------------------------
(***************************************************************************)
(* What the rollout lock promises, with no threads and no calls: one       *)
(* namespace at a time owns the right to change checkers, only the owner's *)
(* objects change, and the right is not handed on while the owner's        *)
(* Deployment is mid-rollout, unless that rollout has been given up.       *)
(***************************************************************************)
EXTENDS Naturals

CONSTANTS Namespaces, None, Kinds

VARIABLES
    owner,      \* the namespace whose checker may change, or None
    objs,       \* objs[n]: the checker's objects in n
    rolling,    \* the namespaces whose Deployment is mid-rollout
    gaveUp      \* those of them nobody waits for

svars == <<owner, objs, rolling, gaveUp>>

Init ==
    /\ owner = None
    /\ objs = [n \in Namespaces |-> {}]
    /\ rolling = {} /\ gaveUp = {}

\* The right to change a checker goes to a namespace.
Begin(n) ==
    /\ owner = None /\ owner' = n
    /\ UNCHANGED <<objs, rolling, gaveUp>>

\* The owner's checker changes; no other does.
Change ==
    /\ owner # None
    /\ \A m \in Namespaces \ {owner} :
          /\ objs'[m] = objs[m]
          /\ m \in rolling' <=> m \in rolling
          /\ m \in gaveUp' <=> m \in gaveUp
    /\ objs' \in [Namespaces -> SUBSET Kinds]
    /\ rolling' \subseteq Namespaces /\ gaveUp' \subseteq rolling'
    /\ \/ owner' = owner
       \/ owner' = None /\ owner \notin rolling' \ gaveUp'

\* A namespace and its checker are deleted.
Vanish(n) ==
    /\ objs' = [objs EXCEPT ![n] = {}]
    /\ rolling' = rolling \ {n} /\ gaveUp' = gaveUp \ {n}
    /\ UNCHANGED owner

\* A rollout completes.
Finish(n) ==
    /\ rolling' = rolling \ {n} /\ gaveUp' = gaveUp \ {n}
    /\ UNCHANGED <<owner, objs>>

\* The operator restarts: nobody waits for what is rolling.
Crash ==
    /\ owner' = None /\ gaveUp' = rolling
    /\ UNCHANGED <<objs, rolling>>

Next ==
    \/ \E n \in Namespaces : Begin(n) \/ Vanish(n) \/ Finish(n)
    \/ Change
    \/ Crash

Spec == Init /\ [][Next]_svars
=============================================================================
