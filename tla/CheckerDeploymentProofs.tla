----------------------- MODULE CheckerDeploymentProofs -----------------------
(***************************************************************************)
(* Proofs about CheckerDeployment for every set of namespaces and          *)
(* templates and every bound: a Deployment's status that counts as         *)
(* complete is true, and waits on it pace the rollouts.                    *)
(***************************************************************************)
EXTENDS CheckerDeployment, FiniteSetTheorems, TLAPS

\* Why a status that says complete is true: what the controller wrote for the
\* present generation as complete it wrote of a Deployment whose only pod was of
\* its template and ready, and those are done.
DoneIsMarked ==
    \A n \in Namespaces : RolledOut(template[n], pods[n]) => n \in done

\* Who rolls is waited for or given up.
OneWaitedFor == Rolling \subseteq gaveUp \union {holder}

WaitInv == TypeOK /\ DoneIsMarked /\ CompleteIsTrue /\ OneWaitedFor

\* The steps of Next as a list, so that a proof by cases names each action once.
Step ==
    \/ PollComplete \/ PollTimesOut \/ PollFails \/ DeadlinePasses \/ Restart
    \/ \E n \in Namespaces :
          \/ Teardown(n) \/ Vanish(n) \/ Observe(n) \/ PodStarts(n)
          \/ \E t \in Templates : Deploy(n, t) \/ PodReady(n, t) \/ PodFails(n, t) \/ OldPodEnds(n, t)

\* Every step of the specification is in the list.
LEMMA NextIsStep == Next => Step
  BY DEF Next, Poll, Cluster, Step

\* The sets of pods counted are finite.
LEMMA PodsFinite ==
    ASSUME NEW n \in Namespaces
    PROVE  /\ IsFiniteSet(Active(n)) /\ IsFiniteSet(Ready(n))
           /\ Cardinality(Active(n)) \in Nat /\ Cardinality(Ready(n)) \in Nat
           /\ Cardinality(Ready(n)) <= Cardinality(Active(n))
           /\ \A t : IsFiniteSet(Active(n) \intersect {t})
           /\ \A t : Cardinality(Active(n) \intersect {t}) \in {0, 1}
  <1>1. IsFiniteSet(Active(n)) /\ IsFiniteSet(Ready(n))
    BY DeploymentAssumption, FS_Subset DEF Active, Ready
  <1>2. Ready(n) \subseteq Active(n)
    BY DEF Active, Ready
  <1>3. \A t : Active(n) \intersect {t} = {} \/ Active(n) \intersect {t} = {t}
    OBVIOUS
  <1> QED
    BY <1>1, <1>2, <1>3, FS_Subset, FS_CardinalityType, FS_EmptySet, FS_Singleton

\* What the controller counts stays within what a Deployment with one replica has.
LEMMA CountsSmall ==
    ASSUME NEW n \in Namespaces, Cardinality(Active(n)) <= 2
    PROVE  /\ Cardinality(Active(n)) \in 0 .. 2 /\ Cardinality(Ready(n)) \in 0 .. 2
           /\ \A t : Cardinality(Active(n) \intersect {t}) \in 0 .. 2
  <1>1. Cardinality(Active(n)) \in 0 .. 2 /\ Cardinality(Ready(n)) \in 0 .. 2
    BY PodsFinite
  <1>2. \A t : Cardinality(Active(n) \intersect {t}) \in {0, 1}
    BY PodsFinite
  <1> QED
    BY <1>1, <1>2

\* Pods that the controller counts as a complete rollout are one: the template's.
LEMMA CountsAreTrue ==
    ASSUME TypeOK, NEW n \in Namespaces, template[n] # None,
           Cardinality(Active(n) \intersect {template[n]}) >= 1,
           Cardinality(Active(n)) <= Cardinality(Active(n) \intersect {template[n]}),
           Cardinality(Ready(n)) >= 1
    PROVE  RolledOut(template[n], pods[n])
  <1> DEFINE t == template[n]
  <1>1. t \in Templates /\ pods[n] \in [Templates -> PodStates]
    BY DEF TypeOK
  <1>2. Active(n) \intersect {t} # {}
    BY FS_EmptySet
  <1>3. t \in Active(n)
    BY <1>2
  <1>4. Cardinality(Active(n)) <= 1
    BY PodsFinite
  <1>5. Active(n) = {t}
    <2>1. Cardinality({t}) = 1
      BY FS_Singleton
    <2> QED
      BY <1>3, <1>4, <2>1, PodsFinite, FS_Subset
  <1>6. Ready(n) # {}
    BY FS_EmptySet
  <1>7. Ready(n) = {t}
    BY <1>5, <1>6 DEF Ready, Active
  <1>8. \A u \in Templates : pods[n][u] = IF u = t THEN "ready" ELSE "none"
    BY <1>5, <1>7 DEF Ready, Active
  <1> QED
    BY <1>1, <1>8 DEF RolledOut, NoPods

\* The pods counted are those there are.
LEMMA PodsKept ==
    /\ UNCHANGED pods => \A m : Active(m)' = Active(m)
    /\ \A m : pods'[m] = pods[m] => Active(m)' = Active(m)
  BY DEF Active

\* No pods, and adding or removing one.
LEMMA PodCounts ==
    ASSUME NEW n \in Namespaces
    PROVE  /\ pods'[n] = NoPods => Cardinality(Active(n)') = 0
           /\ \A t : Active(n)' = Active(n) \union {t} /\ Cardinality(Active(n)) < 2
                      => Cardinality(Active(n)') <= 2
  <1>1. pods'[n] = NoPods => Active(n)' = {}
    BY DEF Active, NoPods
  <1>2. IsFiniteSet(Active(n)) /\ Cardinality(Active(n)) \in Nat
    BY PodsFinite
  <1> QED
    BY <1>1, <1>2, FS_EmptySet, FS_AddElement, FS_Subset

\* A type-correct state stays type-correct.
LEMMA TypeStep ==
    ASSUME TypeOK, DoneIsMarked, [Next]_vars
    PROVE  TypeOK'
  <1> USE DeploymentAssumption, BoundsAssumption
      DEF TypeOK, cluster, bounds, PodStates, Fault, Rolling, NoStatus
  <1>1. CASE PollComplete
    BY <1>1, PodsKept DEF PollComplete
  <1>2. CASE PollTimesOut
    BY <1>2, PodsKept DEF PollTimesOut, GivesUp
  <1>3. ASSUME GivesUp, faults' \in 0 .. MaxFaults, UNCHANGED patches PROVE TypeOK'
    BY <1>3, PodsKept DEF GivesUp
  <1>4. CASE DeadlinePasses
    BY <1>4, PodsKept DEF DeadlinePasses
  <1>5. CASE PollFails \/ Restart
    <2>1. faults' \in 0 .. MaxFaults
      BY <1>5 DEF PollFails, Restart
    <2> QED
      BY <1>3, <1>5, <2>1 DEF PollFails, Restart
  <1>6. ASSUME NEW n \in Namespaces, Gone(n), UNCHANGED <<holder, late, patches>>, Fault PROVE TypeOK'
    <2>1. NoPods \in [Templates -> PodStates] /\ pods'[n] = NoPods
      BY <1>6 DEF Gone, NoPods
    <2>2. \A m \in Namespaces : Cardinality(Active(m)') <= 2
      BY <1>6, <2>1, PodCounts, PodsKept DEF Gone
    <2> QED
      BY <1>6, <2>1, <2>2 DEF Gone
  <1>7. ASSUME NEW n \in Namespaces, Observe(n) PROVE TypeOK'
    <2> DEFINE seen == [observed |-> generation[n],
                        updated |-> Cardinality(Active(n) \intersect {template[n]}),
                        replicas |-> Cardinality(Active(n)),
                        available |-> Cardinality(Ready(n))]
    <2>1. seen \in [observed : 0 .. MaxPatches, updated : 0 .. 2, replicas : 0 .. 2, available : 0 .. 2]
      <3>1. generation[n] \in 0 .. MaxPatches /\ Cardinality(Active(n)) <= 2
        OBVIOUS
      <3>2. /\ Cardinality(Active(n)) \in 0 .. 2 /\ Cardinality(Ready(n)) \in 0 .. 2
            /\ Cardinality(Active(n) \intersect {template[n]}) \in 0 .. 2
        BY <3>1, CountsSmall
      <3> QED
        BY <3>1, <3>2
    <2>2. status' = [status EXCEPT ![n] = seen] /\ seen.observed <= generation[n] /\ template[n] # None
      BY <1>7 DEF Observe
    <2> HIDE DEF seen
    <2> QED
      BY <1>7, <2>1, <2>2, PodsKept DEF Observe
  <1>8. ASSUME NEW n \in Namespaces, NEW t \in Templates, Deploy(n, t) PROVE TypeOK'
    <2>1. generation' \in [Namespaces -> 0 .. patches'] /\ \A m \in Namespaces : generation[m] <= generation'[m]
      BY <1>8 DEF Deploy
    <2>2. \A m \in Namespaces : Cardinality(Active(m)') <= 2
      BY <1>8, PodsKept DEF Deploy
    <2>3. done' \subseteq Namespaces /\ gaveUp' \subseteq Rolling'
      BY <1>8 DEF Deploy, DoneWith
    <2>4. \A m \in Namespaces : template'[m] = None => template[m] = None /\ m # n
      BY <1>8 DEF Deploy
    <2>5. \A m \in Namespaces : m # n => generation'[m] = generation[m] /\ (m \in done' <=> m \in done)
      BY <1>8 DEF Deploy, DoneWith
    <2>6. /\ template' \in [Namespaces -> Templates \union {None}]
          /\ holder' = n /\ late' = FALSE /\ patches' \in 0 .. MaxPatches
          /\ UNCHANGED <<status, pods, faults>>
      BY <1>8 DEF Deploy
    <2>7. ASSUME NEW m \in Namespaces
          PROVE  /\ status'[m].observed <= generation'[m]
                 /\ template'[m] = None =>
                      generation'[m] = 0 /\ status'[m] = NoStatus /\ pods'[m] = NoPods /\ m \notin done'
      <3>1. status[m].observed \in Nat /\ generation[m] \in Nat /\ generation'[m] \in Nat
        BY <2>1
      <3> QED
        BY <2>1, <2>4, <2>5, <2>6, <3>1
    <2> QED
      BY <2>1, <2>2, <2>3, <2>6, <2>7
  <1>9. ASSUME NEW n \in Namespaces, NEW t \in Templates, NEW state \in PodStates,
               PodChanges(n, t, state), faults' \in 0 .. MaxFaults, template[n] # None,
               Cardinality(Active(n)') <= 2
        PROVE  TypeOK'
    BY <1>9 DEF PodChanges, DoneWith, Active
  <1>10. ASSUME NEW n \in Namespaces, PodStarts(n) PROVE TypeOK'
    <2>1. template[n] \in Templates /\ Active(n)' = Active(n) \union {template[n]}
      BY <1>10 DEF PodStarts, PodChanges, Active
    <2>2. Cardinality(Active(n)') <= 2
      BY <1>10, <2>1, PodCounts DEF PodStarts
    <2> QED
      BY <1>9, <1>10, <2>1, <2>2 DEF PodStarts
  <1>11. ASSUME NEW n \in Namespaces, NEW t \in Templates,
                PodReady(n, t) \/ PodFails(n, t) \/ OldPodEnds(n, t)
         PROVE  TypeOK'
    <2>1. template[n] # None
      BY <1>11 DEF PodReady, PodFails, OldPodEnds, NoPods
    <2>2. Active(n)' \subseteq Active(n)
      BY <1>11 DEF PodReady, PodFails, OldPodEnds, PodChanges, Active
    <2>3. Cardinality(Active(n)') <= 2
      <3>1. Cardinality(Active(n)') <= Cardinality(Active(n)) /\ Cardinality(Active(n)) \in Nat
        BY <2>2, FS_Subset, FS_CardinalityType, PodsFinite
      <3>2. Cardinality(Active(n)') \in Nat
        BY <2>2, FS_Subset, FS_CardinalityType, PodsFinite
      <3>3. Cardinality(Active(n)) <= 2
        OBVIOUS
      <3> QED
        BY <3>1, <3>2, <3>3
    <2> QED
      BY <1>9, <1>11, <2>1, <2>3 DEF PodReady, PodFails, OldPodEnds
  <1>12. CASE UNCHANGED vars
    BY <1>12 DEF vars, Active
  <1> QED
    BY NextIsStep, <1>1, <1>2, <1>4, <1>5, <1>6, <1>7, <1>8, <1>10, <1>11, <1>12
    DEF Step, Teardown, Vanish

\* Done is what was rolled out, and stays so until the template changes.
LEMMA DoneStep ==
    ASSUME TypeOK, DoneIsMarked, [Next]_vars
    PROVE  DoneIsMarked'
  <1> USE DeploymentAssumption
      DEF TypeOK, DoneIsMarked, RolledOut, cluster, bounds
  <1>1. CASE PollComplete \/ PollTimesOut \/ PollFails \/ DeadlinePasses \/ Restart
    BY <1>1 DEF PollComplete, PollTimesOut, PollFails, DeadlinePasses, Restart, GivesUp
  <1>2. ASSUME NEW n \in Namespaces, Gone(n) PROVE DoneIsMarked'
    BY <1>2 DEF Gone
  <1>3. ASSUME NEW n \in Namespaces, Observe(n) PROVE DoneIsMarked'
    BY <1>3 DEF Observe
  <1>4. ASSUME NEW n \in Namespaces, NEW t \in Templates, Deploy(n, t) PROVE DoneIsMarked'
    BY <1>4 DEF Deploy, DoneWith
  <1>5. ASSUME NEW n \in Namespaces, NEW t, NEW state, PodChanges(n, t, state) PROVE DoneIsMarked'
    BY <1>5 DEF PodChanges, DoneWith
  <1>6. CASE UNCHANGED vars
    BY <1>6 DEF vars
  <1> QED
    BY NextIsStep, <1>1, <1>2, <1>3, <1>4, <1>5, <1>6
    DEF Step, Teardown, Vanish, PodStarts, PodReady, PodFails, OldPodEnds

\* What counts as complete goes on being true: the controller writes the truth,
\* and a new template is a new generation, which no status written speaks of.
LEMMA CompleteStep ==
    ASSUME TypeOK, DoneIsMarked, CompleteIsTrue, [Next]_vars
    PROVE  CompleteIsTrue'
  <1> USE DeploymentAssumption
      DEF TypeOK, CompleteIsTrue, RolloutComplete, cluster, bounds
  <1>1. CASE PollComplete \/ PollTimesOut \/ PollFails \/ DeadlinePasses \/ Restart
    BY <1>1 DEF PollComplete, PollTimesOut, PollFails, DeadlinePasses, Restart, GivesUp
  <1>2. ASSUME NEW n \in Namespaces, Gone(n) PROVE CompleteIsTrue'
    BY <1>2 DEF Gone
  <1>3. ASSUME NEW n \in Namespaces, Observe(n) PROVE CompleteIsTrue'
    <2>1. status' = [status EXCEPT ![n] = status'[n]] /\ UNCHANGED <<template, generation, done>>
      BY <1>3 DEF Observe
    <2>2. RolloutComplete(n)' => n \in done
      BY <1>3, CountsAreTrue DEF Observe, DoneIsMarked
    <2> QED
      BY <2>1, <2>2
  <1>4. ASSUME NEW n \in Namespaces, NEW t \in Templates, Deploy(n, t) PROVE CompleteIsTrue'
    BY <1>4 DEF Deploy, DoneWith, NoStatus
  <1>5. ASSUME NEW n \in Namespaces, NEW t, NEW state, PodChanges(n, t, state) PROVE CompleteIsTrue'
    BY <1>5 DEF PodChanges, DoneWith
  <1>6. CASE UNCHANGED vars
    BY <1>6 DEF vars
  <1> QED
    BY NextIsStep, <1>1, <1>2, <1>3, <1>4, <1>5, <1>6
    DEF Step, Teardown, Vanish, PodStarts, PodReady, PodFails, OldPodEnds

\* The abstract variables after each kind of step, which is a step of
\* PacedRollouts or leaves them alone.
LEMMA PacedStep ==
    ASSUME WaitInv, [Next]_vars
    PROVE  OneWaitedFor' /\ [Paced!Next]_(Paced!pvars)
  <1> USE DeploymentAssumption
      DEF WaitInv, OneWaitedFor, TypeOK, Rolling, cluster, bounds,
          Paced!Next, Paced!pvars, Paced!Start, Paced!Finish, Paced!GiveUp
  <1>1. CASE PollComplete
    BY <1>1 DEF PollComplete, CompleteIsTrue
  <1>2. CASE PollTimesOut \/ PollFails \/ Restart
    BY <1>2 DEF PollTimesOut, PollFails, Restart, GivesUp
  <1>3. CASE DeadlinePasses
    BY <1>3 DEF DeadlinePasses
  <1>4. ASSUME NEW n \in Namespaces, Gone(n), UNCHANGED holder
        PROVE  OneWaitedFor' /\ Paced!Finish(n)
    BY <1>4 DEF Gone
  <1>5. ASSUME NEW n \in Namespaces, Observe(n)
        PROVE  OneWaitedFor' /\ UNCHANGED Paced!pvars
    BY <1>5 DEF Observe
  <1>6. ASSUME NEW n \in Namespaces, NEW t \in Templates, Deploy(n, t)
        PROVE  OneWaitedFor' /\ (Paced!Start(n) \/ Paced!Finish(n))
    BY <1>6 DEF Deploy, DoneWith
  <1>7. ASSUME NEW n \in Namespaces, NEW t, NEW state, PodChanges(n, t, state)
        PROVE  OneWaitedFor' /\ (Paced!Finish(n) \/ UNCHANGED Paced!pvars)
    BY <1>7 DEF PodChanges, DoneWith
  <1>8. CASE UNCHANGED vars
    BY <1>8 DEF vars
  <1> QED
    BY NextIsStep, <1>1, <1>2, <1>3, <1>4, <1>5, <1>6, <1>7, <1>8
    DEF Step, Teardown, Vanish, PodStarts, PodReady, PodFails, OldPodEnds

\* The invariant holds initially and every step keeps it.
LEMMA WaitInvariance == Spec => []WaitInv
  <1>1. Init => WaitInv
    <2> SUFFICES ASSUME Init PROVE WaitInv
      OBVIOUS
    <2> USE DeploymentAssumption, BoundsAssumption DEF Init
    <2>1. \A n \in Namespaces : Active(n) = {}
      <3>1. \A n \in Namespaces : pods[n] = NoPods
        OBVIOUS
      <3>2. \A t \in Templates : NoPods[t] = "none"
        BY DEF NoPods
      <3> QED
        BY <3>1, <3>2 DEF Active
    <2>2. NoPods \in [Templates -> PodStates]
      BY DEF NoPods, PodStates
    <2>3. \A n \in Namespaces : Cardinality(Active(n)) = 0
      BY <2>1, FS_EmptySet
    <2>4. NoStatus \in [observed : 0 .. MaxPatches, updated : 0 .. 2, replicas : 0 .. 2, available : 0 .. 2]
      BY DEF NoStatus
    <2>5. \A n \in Namespaces :
            /\ status[n].observed <= generation[n]
            /\ Cardinality(Active(n)) <= 2
            /\ generation[n] = 0 /\ status[n] = NoStatus /\ pods[n] = NoPods /\ n \notin done
      BY <2>3 DEF NoStatus
    <2>6. generation \in [Namespaces -> 0 .. patches]
      OBVIOUS
    <2>7. patches \in 0 .. MaxPatches /\ faults \in 0 .. MaxFaults
      OBVIOUS
    <2>8. /\ template \in [Namespaces -> Templates \union {None}]
          /\ pods \in [Namespaces -> [Templates -> PodStates]]
          /\ done \subseteq Namespaces /\ gaveUp \subseteq Rolling
          /\ holder \in Namespaces \union {None} /\ late \in BOOLEAN
      BY <2>2
    <2>9. status \in [Namespaces -> [observed : 0 .. MaxPatches, updated : 0 .. 2,
                                     replicas : 0 .. 2, available : 0 .. 2]]
      BY <2>4
    <2>10. TypeOK
      BY <2>5, <2>8, <2>9, <2>6, <2>7 DEF TypeOK
    <2> QED
      BY <2>10 DEF WaitInv, DoneIsMarked, RolledOut, CompleteIsTrue, OneWaitedFor, Rolling
  <1>2. WaitInv /\ [Next]_vars => WaitInv'
    BY TypeStep, DoneStep, CompleteStep, PacedStep DEF WaitInv
  <1> QED
    BY <1>1, <1>2, PTL DEF Spec

\* Every variable keeps its type.
THEOREM DeploymentTypeCorrect == Spec => []TypeOK
  BY WaitInvariance, PTL DEF WaitInv

\* A status that _rollout_complete accepts is of a rollout that did complete,
\* however late the controller writes.
THEOREM CompletionIsTrue == Spec => []CompleteIsTrue
  BY WaitInvariance, PTL DEF WaitInv

\* The waits pace the rollouts: one starts only when all others that still roll
\* have been given up.
THEOREM ImplementsPacedRollouts == Spec => RolloutsArePaced
  <1>1. Init => Paced!Init
    BY DEF Init, Paced!Init, Rolling
  <1>2. WaitInv /\ [Next]_vars => [Paced!Next]_(Paced!pvars)
    BY PacedStep
  <1> QED
    BY <1>1, <1>2, WaitInvariance, PTL DEF Spec, RolloutsArePaced, Paced!Spec
=============================================================================
