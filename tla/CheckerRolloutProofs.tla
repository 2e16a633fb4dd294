------------------------ MODULE CheckerRolloutProofs ------------------------
(***************************************************************************)
(* Proofs about CheckerRollout for every set of namespaces and every       *)
(* bound: the inductive invariant, and from it that rollouts are one at a  *)
(* time and that a checker is whole or absent.                             *)
(***************************************************************************)
EXTENDS CheckerRollout, TLAPS

\* The steps of Next as a list, so that a proof by cases names each action once.
Step ==
    \/ BootList \/ ReconcileList \/ EndPass \/ AuditAcquire
    \/ TeardownStep \/ TeardownFails \/ Restart
    \/ \E n \in Namespaces :
          \/ BootVisit(n) \/ ReconcileVisit(n) \/ HandlerStart(n) \/ HandlerTry(n)
          \/ CreateNamespace(n) \/ DeleteNamespace(n) \/ ToggleLabel(n) \/ RolloutDone(n)
    \/ \E t \in Threads :
          DeployStep(t) \/ DeployFails(t) \/ WaitReady(t) \/ WaitGivesUp(t)

\* Every step of the specification is in the list.
LEMMA NextIsStep == Next => Step
  BY DEF Next, AuditThread, HandlerThread, Rollout, World, Step, Threads

\* Names are distinct: the facts about constants every proof below needs.
LEMMA Names ==
    /\ Audit \in Threads /\ Audit \notin Namespaces
    /\ None \notin Threads /\ None \notin Namespaces
    /\ Namespaces \subseteq Threads
    /\ Threads \ {Audit} \subseteq Namespaces
    /\ Excluded \subseteq Namespaces
  BY NamesAssumption, PolicyAssumption DEF Threads

\* A type-correct state stays type-correct.
LEMMA TypeStep ==
    ASSUME TypeOK, HolderInv, Next
    PROVE  TypeOK'
  <1> USE Names, ModesAssumption, BoundsAssumption
      DEF TypeOK, cluster, process, ghosts, bounds
  <1>1. CASE BootList
    BY <1>1 DEF BootList, AuditGoes, ApiFault, AuditPoints, HandlerPoints
  <1>2. CASE ReconcileList
    BY <1>2 DEF ReconcileList, AuditGoes, ApiFault, AuditPoints, HandlerPoints
  <1>3. CASE EndPass
    BY <1>3 DEF EndPass, AuditGoes, ApiFault, AuditPoints, HandlerPoints
  <1>4. CASE AuditAcquire
    BY <1>4 DEF AuditAcquire, AuditGoes, AuditPoints, HandlerPoints
  <1>5. ASSUME NEW n \in Namespaces, BootVisit(n) PROVE TypeOK'
    BY <1>5 DEF BootVisit, AuditGoes, ReadPolicy, ApiFault, AuditPoints, HandlerPoints
  <1>6. ASSUME NEW n \in Namespaces, ReconcileVisit(n) PROVE TypeOK'
    BY <1>6 DEF ReconcileVisit, AuditGoes, ReadPolicy, ApiFault, AuditPoints, HandlerPoints
  <1>7. ASSUME NEW n \in Namespaces, HandlerStart(n) PROVE TypeOK'
    BY <1>7 DEF HandlerStart, HandlerGoes, ReadPolicy, ApiFault, AuditPoints, HandlerPoints
  <1>8. ASSUME NEW n \in Namespaces, HandlerTry(n) PROVE TypeOK'
    BY <1>8 DEF HandlerTry, HandlerGoes, AuditPoints, HandlerPoints
  <1>9. ASSUME NEW t \in Threads, DeployStep(t) PROVE TypeOK'
    BY <1>9 DEF DeployStep, WriteDeployment, AuditPoints, HandlerPoints, Target, HolderInv, DeployOrder, Kinds
  <1>10. ASSUME NEW t \in Threads, DeployFails(t) PROVE TypeOK'
    BY <1>10 DEF DeployFails, Fail, Release, ApiFault, WriteDeployment, AuditPoints, HandlerPoints, Target, HolderInv, DeployOrder, Kinds
  <1>11. ASSUME NEW t \in Threads, WaitReady(t) PROVE TypeOK'
    BY <1>11 DEF WaitReady, Release, AuditPoints, HandlerPoints
  <1>12. ASSUME NEW t \in Threads, WaitGivesUp(t) PROVE TypeOK'
    BY <1>12 DEF WaitGivesUp, Release, ApiFault, AuditPoints, HandlerPoints, Target, HolderInv
  <1>13. CASE TeardownStep
    BY <1>13 DEF TeardownStep, RemoveObject, Release, AuditPoints, HandlerPoints, HolderInv, TeardownOrder, Kinds
  <1>14. CASE TeardownFails
    BY <1>14 DEF TeardownFails, RemoveObject, Release, ApiFault, AuditPoints, HandlerPoints, HolderInv
  <1>15. ASSUME NEW n \in Namespaces, CreateNamespace(n) PROVE TypeOK'
    BY <1>15 DEF CreateNamespace, Edit
  <1>16. ASSUME NEW n \in Namespaces, DeleteNamespace(n) PROVE TypeOK'
    BY <1>16 DEF DeleteNamespace, Edit
  <1>17. ASSUME NEW n \in Namespaces, ToggleLabel(n) PROVE TypeOK'
    BY <1>17 DEF ToggleLabel, Edit
  <1>18. ASSUME NEW n \in Namespaces, RolloutDone(n) PROVE TypeOK'
    BY <1>18 DEF RolloutDone
  <1>19. CASE Restart
    BY <1>19 DEF Restart, AuditPoints, HandlerPoints
  <1> QED
    BY NextIsStep, <1>1, <1>2, <1>3, <1>4, <1>5, <1>6, <1>7, <1>8, <1>9, <1>10,
       <1>11, <1>12, <1>13, <1>14, <1>15, <1>16, <1>17, <1>18, <1>19 DEF Step

\* The lock and the threads' positions stay in step.
LEMMA HolderStep ==
    ASSUME TypeOK, HolderInv, Next
    PROVE  HolderInv'
  <1> USE Names
      DEF TypeOK, HolderInv, Critical, AuditPoints, HandlerPoints, cluster, process, ghosts, bounds
  <1>1. CASE BootList
    BY <1>1 DEF BootList, AuditGoes
  <1>2. CASE ReconcileList
    BY <1>2 DEF ReconcileList, AuditGoes
  <1>3. CASE EndPass
    BY <1>3 DEF EndPass, AuditGoes
  <1>4. CASE AuditAcquire
    BY <1>4 DEF AuditAcquire, AuditGoes
  <1>5. ASSUME NEW n \in Namespaces, BootVisit(n) PROVE HolderInv'
    BY <1>5 DEF BootVisit, AuditGoes
  <1>6. ASSUME NEW n \in Namespaces, ReconcileVisit(n) PROVE HolderInv'
    BY <1>6 DEF ReconcileVisit, AuditGoes
  <1>7. ASSUME NEW n \in Namespaces, HandlerStart(n) PROVE HolderInv'
    BY <1>7 DEF HandlerStart, HandlerGoes
  <1>8. ASSUME NEW n \in Namespaces, HandlerTry(n) PROVE HolderInv'
    BY <1>8 DEF HandlerTry, HandlerGoes
  <1>9. ASSUME NEW t \in Threads, DeployStep(t) PROVE HolderInv'
    BY <1>9 DEF DeployStep
  <1>10. ASSUME NEW t \in Threads, DeployFails(t) PROVE HolderInv'
    BY <1>10 DEF DeployFails, Fail, Release
  <1>11. ASSUME NEW t \in Threads, WaitReady(t) PROVE HolderInv'
    BY <1>11 DEF WaitReady, Release
  <1>12. ASSUME NEW t \in Threads, WaitGivesUp(t) PROVE HolderInv'
    BY <1>12 DEF WaitGivesUp, Release
  <1>13. CASE TeardownStep
    BY <1>13 DEF TeardownStep, Release
  <1>14. CASE TeardownFails
    BY <1>14 DEF TeardownFails, Release
  <1>15. ASSUME NEW n \in Namespaces, CreateNamespace(n) PROVE HolderInv'
    BY <1>15 DEF CreateNamespace
  <1>16. ASSUME NEW n \in Namespaces, DeleteNamespace(n) PROVE HolderInv'
    BY <1>16 DEF DeleteNamespace
  <1>17. ASSUME NEW n \in Namespaces, ToggleLabel(n) PROVE HolderInv'
    BY <1>17 DEF ToggleLabel
  <1>18. ASSUME NEW n \in Namespaces, RolloutDone(n) PROVE HolderInv'
    BY <1>18 DEF RolloutDone
  <1>19. CASE Restart
    BY <1>19 DEF Restart
  <1> QED
    BY NextIsStep, <1>1, <1>2, <1>3, <1>4, <1>5, <1>6, <1>7, <1>8, <1>9, <1>10,
       <1>11, <1>12, <1>13, <1>14, <1>15, <1>16, <1>17, <1>18, <1>19 DEF Step

\* A rollout nobody gave up goes on being waited for.
LEMMA WaitStep ==
    ASSUME TypeOK, HolderInv, WaitInv, Next
    PROVE  WaitInv'
  <1> USE Names
      DEF TypeOK, HolderInv, WaitInv, Target, Critical, AuditPoints, HandlerPoints, cluster, process, ghosts, bounds
  <1>1. CASE BootList
    BY <1>1 DEF BootList, AuditGoes
  <1>2. CASE ReconcileList
    BY <1>2 DEF ReconcileList, AuditGoes
  <1>3. CASE EndPass
    BY <1>3 DEF EndPass, AuditGoes
  <1>4. CASE AuditAcquire
    BY <1>4 DEF AuditAcquire, AuditGoes
  <1>5. ASSUME NEW n \in Namespaces, BootVisit(n) PROVE WaitInv'
    BY <1>5 DEF BootVisit, AuditGoes
  <1>6. ASSUME NEW n \in Namespaces, ReconcileVisit(n) PROVE WaitInv'
    BY <1>6 DEF ReconcileVisit, AuditGoes
  <1>7. ASSUME NEW n \in Namespaces, HandlerStart(n) PROVE WaitInv'
    BY <1>7 DEF HandlerStart, HandlerGoes
  <1>8. ASSUME NEW n \in Namespaces, HandlerTry(n) PROVE WaitInv'
    BY <1>8 DEF HandlerTry, HandlerGoes
  <1>9. ASSUME NEW t \in Threads, DeployStep(t) PROVE WaitInv'
    BY <1>9 DEF DeployStep, WriteDeployment
  <1>10. ASSUME NEW t \in Threads, DeployFails(t) PROVE WaitInv'
    BY <1>10 DEF DeployFails, Fail, Release, WriteDeployment
  <1>11. ASSUME NEW t \in Threads, WaitReady(t) PROVE WaitInv'
    BY <1>11 DEF WaitReady, Release
  <1>12. ASSUME NEW t \in Threads, WaitGivesUp(t) PROVE WaitInv'
    BY <1>12 DEF WaitGivesUp, Release
  <1>13. CASE TeardownStep
    BY <1>13 DEF TeardownStep, Release, RemoveObject
  <1>14. CASE TeardownFails
    BY <1>14 DEF TeardownFails, Release, RemoveObject
  <1>15. ASSUME NEW n \in Namespaces, CreateNamespace(n) PROVE WaitInv'
    BY <1>15 DEF CreateNamespace
  <1>16. ASSUME NEW n \in Namespaces, DeleteNamespace(n) PROVE WaitInv'
    BY <1>16 DEF DeleteNamespace
  <1>17. ASSUME NEW n \in Namespaces, ToggleLabel(n) PROVE WaitInv'
    BY <1>17 DEF ToggleLabel
  <1>18. ASSUME NEW n \in Namespaces, RolloutDone(n) PROVE WaitInv'
    BY <1>18 DEF RolloutDone
  <1>19. CASE Restart
    BY <1>19 DEF Restart
  <1> QED
    BY NextIsStep, <1>1, <1>2, <1>3, <1>4, <1>5, <1>6, <1>7, <1>8, <1>9, <1>10,
       <1>11, <1>12, <1>13, <1>14, <1>15, <1>16, <1>17, <1>18, <1>19 DEF Step

\* Nothing is written under a name that is not a namespace.
LEMMA GoneStep ==
    ASSUME TypeOK, HolderInv, GoneInv, Next
    PROVE  GoneInv'
  <1> USE Names
      DEF TypeOK, GoneInv, cluster, process, ghosts, bounds
  <1>1. CASE BootList
    BY <1>1 DEF BootList, AuditGoes
  <1>2. CASE ReconcileList
    BY <1>2 DEF ReconcileList, AuditGoes
  <1>3. CASE EndPass
    BY <1>3 DEF EndPass, AuditGoes
  <1>4. CASE AuditAcquire
    BY <1>4 DEF AuditAcquire, AuditGoes
  <1>5. ASSUME NEW n \in Namespaces, BootVisit(n) PROVE GoneInv'
    BY <1>5 DEF BootVisit, AuditGoes
  <1>6. ASSUME NEW n \in Namespaces, ReconcileVisit(n) PROVE GoneInv'
    BY <1>6 DEF ReconcileVisit, AuditGoes
  <1>7. ASSUME NEW n \in Namespaces, HandlerStart(n) PROVE GoneInv'
    BY <1>7 DEF HandlerStart, HandlerGoes
  <1>8. ASSUME NEW n \in Namespaces, HandlerTry(n) PROVE GoneInv'
    BY <1>8 DEF HandlerTry, HandlerGoes
  <1>9. ASSUME NEW t \in Threads, DeployStep(t) PROVE GoneInv'
    BY <1>9 DEF DeployStep, WriteDeployment
  <1>10. ASSUME NEW t \in Threads, DeployFails(t) PROVE GoneInv'
    BY <1>10 DEF DeployFails, Fail, Release, WriteDeployment
  <1>11. ASSUME NEW t \in Threads, WaitReady(t) PROVE GoneInv'
    BY <1>11 DEF WaitReady, Release
  <1>12. ASSUME NEW t \in Threads, WaitGivesUp(t) PROVE GoneInv'
    BY <1>12 DEF WaitGivesUp, Release
  <1>13. CASE TeardownStep
    BY <1>13 DEF TeardownStep, Release, RemoveObject
  <1>14. CASE TeardownFails
    BY <1>14 DEF TeardownFails, Release, RemoveObject
  <1>15. ASSUME NEW n \in Namespaces, CreateNamespace(n) PROVE GoneInv'
    BY <1>15 DEF CreateNamespace
  <1>16. ASSUME NEW n \in Namespaces, DeleteNamespace(n) PROVE GoneInv'
    BY <1>16 DEF DeleteNamespace
  <1>17. ASSUME NEW n \in Namespaces, ToggleLabel(n) PROVE GoneInv'
    BY <1>17 DEF ToggleLabel
  <1>18. ASSUME NEW n \in Namespaces, RolloutDone(n) PROVE GoneInv'
    BY <1>18 DEF RolloutDone
  <1>19. CASE Restart
    BY <1>19 DEF Restart
  <1> QED
    BY NextIsStep, <1>1, <1>2, <1>3, <1>4, <1>5, <1>6, <1>7, <1>8, <1>9, <1>10,
       <1>11, <1>12, <1>13, <1>14, <1>15, <1>16, <1>17, <1>18, <1>19 DEF Step

\* The holder's own steps extend what it has done; nobody else undoes them.
LEMMA ProgressStep ==
    ASSUME TypeOK, HolderInv, ProgressInv, Next
    PROVE  ProgressInv'
  <1> USE Names
      DEF TypeOK, HolderInv, ProgressInv, Target, Critical, AuditPoints, HandlerPoints, Kinds, cluster, process, ghosts, bounds
  <1>1. CASE BootList
    BY <1>1 DEF BootList, AuditGoes
  <1>2. CASE ReconcileList
    BY <1>2 DEF ReconcileList, AuditGoes
  <1>3. CASE EndPass
    BY <1>3 DEF EndPass, AuditGoes
  <1>4. CASE AuditAcquire
    BY <1>4 DEF AuditAcquire, AuditGoes
  <1>5. ASSUME NEW n \in Namespaces, BootVisit(n) PROVE ProgressInv'
    BY <1>5 DEF BootVisit, AuditGoes
  <1>6. ASSUME NEW n \in Namespaces, ReconcileVisit(n) PROVE ProgressInv'
    BY <1>6 DEF ReconcileVisit, AuditGoes
  <1>7. ASSUME NEW n \in Namespaces, HandlerStart(n) PROVE ProgressInv'
    BY <1>7 DEF HandlerStart, HandlerGoes
  <1>8. ASSUME NEW n \in Namespaces, HandlerTry(n) PROVE ProgressInv'
    BY <1>8 DEF HandlerTry, HandlerGoes
  <1>9. ASSUME NEW t \in Threads, DeployStep(t) PROVE ProgressInv'
    BY <1>9 DEF DeployStep, WriteDeployment, DeployOrder
  <1>10. ASSUME NEW t \in Threads, DeployFails(t) PROVE ProgressInv'
    BY <1>10 DEF DeployFails, Fail, Release, WriteDeployment, DeployOrder
  <1>11. ASSUME NEW t \in Threads, WaitReady(t) PROVE ProgressInv'
    BY <1>11 DEF WaitReady, Release
  <1>12. ASSUME NEW t \in Threads, WaitGivesUp(t) PROVE ProgressInv'
    BY <1>12 DEF WaitGivesUp, Release
  <1>13. CASE TeardownStep
    BY <1>13 DEF TeardownStep, Release, RemoveObject, TeardownOrder
  <1>14. CASE TeardownFails
    BY <1>14 DEF TeardownFails, Release, RemoveObject, TeardownOrder
  <1>15. ASSUME NEW n \in Namespaces, CreateNamespace(n) PROVE ProgressInv'
    BY <1>15 DEF CreateNamespace
  <1>16. ASSUME NEW n \in Namespaces, DeleteNamespace(n) PROVE ProgressInv'
    BY <1>16 DEF DeleteNamespace, InOperation
  <1>17. ASSUME NEW n \in Namespaces, ToggleLabel(n) PROVE ProgressInv'
    BY <1>17 DEF ToggleLabel
  <1>18. ASSUME NEW n \in Namespaces, RolloutDone(n) PROVE ProgressInv'
    BY <1>18 DEF RolloutDone
  <1>19. CASE Restart
    BY <1>19 DEF Restart
  <1> QED
    BY NextIsStep, <1>1, <1>2, <1>3, <1>4, <1>5, <1>6, <1>7, <1>8, <1>9, <1>10,
       <1>11, <1>12, <1>13, <1>14, <1>15, <1>16, <1>17, <1>18, <1>19 DEF Step

\* An operation that is not cut short leaves a whole checker or none.
LEMMA WholeStep ==
    ASSUME TypeOK, HolderInv, GoneInv, ProgressInv, WholeOrNothing, Next
    PROVE  WholeOrNothing'
  <1> USE Names
      DEF TypeOK, HolderInv, GoneInv, ProgressInv, WholeOrNothing, InOperation, Target, Critical, AuditPoints, HandlerPoints, Kinds, cluster, process, ghosts, bounds
  <1>1. CASE BootList
    BY <1>1 DEF BootList, AuditGoes
  <1>2. CASE ReconcileList
    BY <1>2 DEF ReconcileList, AuditGoes
  <1>3. CASE EndPass
    BY <1>3 DEF EndPass, AuditGoes
  <1>4. CASE AuditAcquire
    BY <1>4 DEF AuditAcquire, AuditGoes
  <1>5. ASSUME NEW n \in Namespaces, BootVisit(n) PROVE WholeOrNothing'
    BY <1>5 DEF BootVisit, AuditGoes
  <1>6. ASSUME NEW n \in Namespaces, ReconcileVisit(n) PROVE WholeOrNothing'
    BY <1>6 DEF ReconcileVisit, AuditGoes
  <1>7. ASSUME NEW n \in Namespaces, HandlerStart(n) PROVE WholeOrNothing'
    BY <1>7 DEF HandlerStart, HandlerGoes
  <1>8. ASSUME NEW n \in Namespaces, HandlerTry(n) PROVE WholeOrNothing'
    BY <1>8 DEF HandlerTry, HandlerGoes
  <1>9. ASSUME NEW t \in Threads, DeployStep(t) PROVE WholeOrNothing'
    BY <1>9 DEF DeployStep, WriteDeployment, DeployOrder
  <1>10. ASSUME NEW t \in Threads, DeployFails(t) PROVE WholeOrNothing'
    BY <1>10 DEF DeployFails, Fail, Release, WriteDeployment, DeployOrder
  <1>11. ASSUME NEW t \in Threads, WaitReady(t) PROVE WholeOrNothing'
    BY <1>11 DEF WaitReady, Release
  <1>12. ASSUME NEW t \in Threads, WaitGivesUp(t) PROVE WholeOrNothing'
    BY <1>12 DEF WaitGivesUp, Release
  <1>13. CASE TeardownStep
    BY <1>13 DEF TeardownStep, Release, RemoveObject, TeardownOrder
  <1>14. CASE TeardownFails
    BY <1>14 DEF TeardownFails, Release, RemoveObject, TeardownOrder
  <1>15. ASSUME NEW n \in Namespaces, CreateNamespace(n) PROVE WholeOrNothing'
    BY <1>15 DEF CreateNamespace
  <1>16. ASSUME NEW n \in Namespaces, DeleteNamespace(n) PROVE WholeOrNothing'
    BY <1>16 DEF DeleteNamespace
  <1>17. ASSUME NEW n \in Namespaces, ToggleLabel(n) PROVE WholeOrNothing'
    BY <1>17 DEF ToggleLabel
  <1>18. ASSUME NEW n \in Namespaces, RolloutDone(n) PROVE WholeOrNothing'
    BY <1>18 DEF RolloutDone
  <1>19. CASE Restart
    BY <1>19 DEF Restart
  <1> QED
    BY NextIsStep, <1>1, <1>2, <1>3, <1>4, <1>5, <1>6, <1>7, <1>8, <1>9, <1>10,
       <1>11, <1>12, <1>13, <1>14, <1>15, <1>16, <1>17, <1>18, <1>19 DEF Step
---------------------------------------------------------------------------
(* The inductive invariant                                                 *)

\* A first installation satisfies the invariant.
LEMMA InitIInv == Init => IInv
  BY Names, ModesAssumption, BoundsAssumption
  DEF Init, IInv, TypeOK, HolderInv, WaitInv, GoneInv, ProgressInv, WholeOrNothing,
      InOperation, Target, Critical, AuditPoints, HandlerPoints, Kinds

\* The invariant is inductive: the lemmas above cover its conjuncts one by one.
LEMMA StepIInv == IInv /\ [Next]_vars => IInv'
  <1> SUFFICES ASSUME IInv, [Next]_vars PROVE IInv'
    OBVIOUS
  <1>1. CASE Next
    BY <1>1, TypeStep, HolderStep, WaitStep, GoneStep, ProgressStep, WholeStep DEF IInv
  <1>2. CASE UNCHANGED vars
    BY <1>2 DEF vars, cluster, process, ghosts, bounds, IInv, TypeOK, HolderInv,
                WaitInv, GoneInv, ProgressInv, WholeOrNothing, InOperation, Target
  <1> QED
    BY <1>1, <1>2

\* The lock, the threads' positions and the cluster agree in every reachable
\* state of every instance: what the theorems below rest on.
THEOREM Invariance == Spec => []IInv
  BY InitIInv, StepIInv, PTL DEF Spec

\* Every variable has its type in every reachable state of every instance.
THEOREM TypeCorrect == Spec => []TypeOK
  <1>1. IInv => TypeOK
    BY DEF IInv
  <1> QED
    BY <1>1, Invariance, PTL

\* Checker rollouts are one at a time, apart from those given up: whoever waits
\* for a rollout holds the lock, and there is one lock.
THEOREM RolloutsOneAtATime == Spec => []OneRolloutAtATime
  <1>1. IInv => OneRolloutAtATime
    BY Names DEF IInv, TypeOK, HolderInv, WaitInv, OneRolloutAtATime, Target, Critical
  <1> QED
    BY <1>1, Invariance, PTL

\* No checker is half there unless its last operation was cut short.
THEOREM CheckersWholeOrAbsent == Spec => []WholeOrNothing
  <1>1. IInv => WholeOrNothing
    BY DEF IInv
  <1> QED
    BY <1>1, Invariance, PTL

---------------------------------------------------------------------------
(* Refinement: the operator implements SerialRollout                       *)

\* A first installation is an initial state of SerialRollout.
LEMMA SerialInit == Init => Serial!Init
  BY DEF Init, Serial!Init

\* Nobody holds the lock while a rollout that was not given up goes on.
LEMMA FreeMeansQuiet ==
    ASSUME TypeOK, HolderInv, WaitInv, lock = None
    PROVE  rolling \ gaveUp = {}
  BY Names DEF TypeOK, HolderInv, WaitInv, Critical

\* Each action is one of SerialRollout's, or leaves its variables alone.
LEMMA SerialStep ==
    ASSUME IInv, IInv', Next
    PROVE  Serial!Next \/ UNCHANGED Serial!svars
  <1> USE Names
      DEF IInv, TypeOK, HolderInv, WaitInv, Target, Critical, Serial!svars,
          cluster, process, ghosts, bounds
  <1>1. CASE BootList
    BY <1>1
    DEF BootList, AuditGoes
  <1>2. CASE ReconcileList
    BY <1>2
    DEF ReconcileList, AuditGoes
  <1>3. CASE EndPass
    BY <1>3
    DEF EndPass, AuditGoes
  <1>4. CASE AuditAcquire
    BY <1>4
    DEF AuditAcquire, AuditGoes, Serial!Next, Serial!Begin
  <1>5. ASSUME NEW n \in Namespaces, BootVisit(n) PROVE Serial!Next \/ UNCHANGED Serial!svars
    BY <1>5
    DEF BootVisit, AuditGoes
  <1>6. ASSUME NEW n \in Namespaces, ReconcileVisit(n) PROVE Serial!Next \/ UNCHANGED Serial!svars
    BY <1>6
    DEF ReconcileVisit, AuditGoes
  <1>7. ASSUME NEW n \in Namespaces, HandlerStart(n) PROVE Serial!Next \/ UNCHANGED Serial!svars
    BY <1>7
    DEF HandlerStart, HandlerGoes
  <1>8. ASSUME NEW n \in Namespaces, HandlerTry(n) PROVE Serial!Next \/ UNCHANGED Serial!svars
    BY <1>8
    DEF HandlerTry, HandlerGoes, Serial!Next, Serial!Begin
  <1>9. ASSUME NEW t \in Threads, DeployStep(t) PROVE Serial!Next \/ UNCHANGED Serial!svars
    BY <1>9, FreeMeansQuiet
    DEF DeployStep, WriteDeployment, Serial!Next, Serial!Change
  <1>10. ASSUME NEW t \in Threads, DeployFails(t) PROVE Serial!Next \/ UNCHANGED Serial!svars
    BY <1>10, FreeMeansQuiet
    DEF DeployFails, Fail, Release, WriteDeployment, Serial!Next, Serial!Change
  <1>11. ASSUME NEW t \in Threads, WaitReady(t) PROVE Serial!Next \/ UNCHANGED Serial!svars
    BY <1>11, FreeMeansQuiet
    DEF WaitReady, Release, Serial!Next, Serial!Change
  <1>12. ASSUME NEW t \in Threads, WaitGivesUp(t) PROVE Serial!Next \/ UNCHANGED Serial!svars
    BY <1>12, FreeMeansQuiet
    DEF WaitGivesUp, Release, Serial!Next, Serial!Change
  <1>13. CASE TeardownStep
    BY <1>13, FreeMeansQuiet
    DEF TeardownStep, Release, RemoveObject, Serial!Next, Serial!Change
  <1>14. CASE TeardownFails
    BY <1>14, FreeMeansQuiet
    DEF TeardownFails, Release, RemoveObject, Serial!Next, Serial!Change
  <1>15. ASSUME NEW n \in Namespaces, CreateNamespace(n) PROVE Serial!Next \/ UNCHANGED Serial!svars
    BY <1>15
    DEF CreateNamespace
  <1>16. ASSUME NEW n \in Namespaces, DeleteNamespace(n) PROVE Serial!Next \/ UNCHANGED Serial!svars
    BY <1>16
    DEF DeleteNamespace, Serial!Next, Serial!Vanish
  <1>17. ASSUME NEW n \in Namespaces, ToggleLabel(n) PROVE Serial!Next \/ UNCHANGED Serial!svars
    BY <1>17
    DEF ToggleLabel
  <1>18. ASSUME NEW n \in Namespaces, RolloutDone(n) PROVE Serial!Next \/ UNCHANGED Serial!svars
    BY <1>18
    DEF RolloutDone, Serial!Next, Serial!Finish
  <1>19. CASE Restart
    BY <1>19
    DEF Restart, Serial!Next, Serial!Crash
  <1> QED
    BY NextIsStep, <1>1, <1>2, <1>3, <1>4, <1>5, <1>6, <1>7, <1>8, <1>9, <1>10,
       <1>11, <1>12, <1>13, <1>14, <1>15, <1>16, <1>17, <1>18, <1>19 DEF Step

\* However the threads interleave, one namespace at a time owns the right to
\* change a checker, and hands it on only when its rollout is over or given up.
THEOREM ImplementsSerialRollout == Spec => RolloutsAreSerial
  <1>1. IInv /\ IInv' /\ [Next]_vars => [Serial!Next]_(Serial!svars)
    <2> SUFFICES ASSUME IInv, IInv', [Next]_vars
                 PROVE  Serial!Next \/ UNCHANGED Serial!svars
      OBVIOUS
    <2>1. CASE Next
      BY <2>1, SerialStep
    <2>2. CASE UNCHANGED vars
      BY <2>2 DEF vars, cluster, process, ghosts, Serial!svars, Target
    <2> QED
      BY <2>1, <2>2
  <1> QED
    BY SerialInit, Invariance, <1>1, PTL DEF Spec, RolloutsAreSerial, Serial!Spec

---------------------------------------------------------------------------
(* Excluded namespaces                                                     *)

\* No thread means to deploy in an excluded namespace, and nothing is there.
ExcludedInv ==
    \A n \in Excluded :
        /\ objs[n] = {}
        /\ \A t \in Threads :
              Target(t) = n => pc[t] \notin {"awaitDeploy", "try", "deploy", "wait"}

\* Every path to a deploy goes through ShouldDeploy.
LEMMA ExcludedStep ==
    ASSUME TypeOK, HolderInv, ExcludedInv, Next
    PROVE  ExcludedInv'
  <1> USE Names
      DEF TypeOK, HolderInv, ExcludedInv, Target, Critical, AuditPoints, HandlerPoints, cluster, process, ghosts, bounds
  <1>1. CASE BootList
    BY <1>1 DEF BootList, AuditGoes
  <1>2. CASE ReconcileList
    BY <1>2 DEF ReconcileList, AuditGoes
  <1>3. CASE EndPass
    BY <1>3 DEF EndPass, AuditGoes
  <1>4. CASE AuditAcquire
    BY <1>4 DEF AuditAcquire, AuditGoes
  <1>5. ASSUME NEW n \in Namespaces, BootVisit(n) PROVE ExcludedInv'
    BY <1>5 DEF BootVisit, AuditGoes, ShouldDeploy, ShouldAudit
  <1>6. ASSUME NEW n \in Namespaces, ReconcileVisit(n) PROVE ExcludedInv'
    BY <1>6 DEF ReconcileVisit, AuditGoes, ShouldDeploy, ShouldAudit
  <1>7. ASSUME NEW n \in Namespaces, HandlerStart(n) PROVE ExcludedInv'
    BY <1>7 DEF HandlerStart, HandlerGoes, ShouldDeploy, ShouldAudit
  <1>8. ASSUME NEW n \in Namespaces, HandlerTry(n) PROVE ExcludedInv'
    BY <1>8 DEF HandlerTry, HandlerGoes
  <1>9. ASSUME NEW t \in Threads, DeployStep(t) PROVE ExcludedInv'
    BY <1>9 DEF DeployStep, WriteDeployment
  <1>10. ASSUME NEW t \in Threads, DeployFails(t) PROVE ExcludedInv'
    BY <1>10 DEF DeployFails, Fail, Release, WriteDeployment
  <1>11. ASSUME NEW t \in Threads, WaitReady(t) PROVE ExcludedInv'
    BY <1>11 DEF WaitReady, Release
  <1>12. ASSUME NEW t \in Threads, WaitGivesUp(t) PROVE ExcludedInv'
    BY <1>12 DEF WaitGivesUp, Release
  <1>13. CASE TeardownStep
    BY <1>13 DEF TeardownStep, Release, RemoveObject
  <1>14. CASE TeardownFails
    BY <1>14 DEF TeardownFails, Release, RemoveObject
  <1>15. ASSUME NEW n \in Namespaces, CreateNamespace(n) PROVE ExcludedInv'
    BY <1>15 DEF CreateNamespace
  <1>16. ASSUME NEW n \in Namespaces, DeleteNamespace(n) PROVE ExcludedInv'
    BY <1>16 DEF DeleteNamespace
  <1>17. ASSUME NEW n \in Namespaces, ToggleLabel(n) PROVE ExcludedInv'
    BY <1>17 DEF ToggleLabel
  <1>18. ASSUME NEW n \in Namespaces, RolloutDone(n) PROVE ExcludedInv'
    BY <1>18 DEF RolloutDone
  <1>19. CASE Restart
    BY <1>19 DEF Restart
  <1> QED
    BY NextIsStep, <1>1, <1>2, <1>3, <1>4, <1>5, <1>6, <1>7, <1>8, <1>9, <1>10,
       <1>11, <1>12, <1>13, <1>14, <1>15, <1>16, <1>17, <1>18, <1>19 DEF Step

\* EXCLUDED_NAMESPACES is honoured whatever fails: unlike the opt-out label it
\* does not depend on reading a policy.
THEOREM ExcludedNamespacesStayEmpty == Spec => []ExcludedStayEmpty
  <1>1. Init => ExcludedInv
    BY Names DEF Init, ExcludedInv, Target
  <1>2. IInv /\ ExcludedInv /\ [Next]_vars => ExcludedInv'
    <2>1. ASSUME IInv, ExcludedInv, Next PROVE ExcludedInv'
      BY <2>1, ExcludedStep DEF IInv
    <2>2. ASSUME ExcludedInv, UNCHANGED vars PROVE ExcludedInv'
      BY <2>2 DEF vars, cluster, process, ExcludedInv, Target
    <2> QED
      BY <2>1, <2>2
  <1>3. ExcludedInv => ExcludedStayEmpty
    BY DEF ExcludedInv, ExcludedStayEmpty
  <1> QED
    BY <1>1, <1>2, <1>3, Invariance, PTL DEF Spec

---------------------------------------------------------------------------
(* Bootstrap reaches every checker                                         *)

\* While nothing has failed and no namespace was edited, bootstrap decides on labels
\* that are still true, and a checker of an earlier template is still ahead of it: in
\* its list, in its hands, or the list is not read yet.
Ahead(n) ==
    /\ phase = "boot"
    /\ \/ pc[Audit] = "list" \/ n \in todo
       \/ cur = n /\ pc[Audit] \in {"awaitDeploy", "deploy"}

UpgradeInv ==
    faults = 0 /\ edits = 0 =>
        /\ phase = "boot" /\ pc[Audit] # "list" =>
              Enabled(mode) /\ ~Central(mode) /\ snap = optOut
        /\ \A n \in live : Wanted(n) => tmpl[n] \in {0, rev} \/ Ahead(n)

\* A step of the operator either keeps a checker's template, writes its own or removes
\* the checker, and the audit thread moves past a namespace only by deciding on it.
LEMMA UpgradeStep ==
    ASSUME TypeOK, HolderInv, UpgradeInv, Next
    PROVE  UpgradeInv'
  <1> USE Names
      DEF TypeOK, HolderInv, UpgradeInv, Ahead, Wanted, Target, Critical, AuditPoints, HandlerPoints, cluster, process, ghosts, bounds
  <1>1. CASE BootList
    BY <1>1 DEF BootList, AuditGoes, ApiFault, ShouldDeploy, ShouldAudit
  <1>2. CASE ReconcileList
    BY <1>2 DEF ReconcileList, AuditGoes, ApiFault
  <1>3. CASE EndPass
    BY <1>3 DEF EndPass, AuditGoes, ApiFault
  <1>4. CASE AuditAcquire
    BY <1>4 DEF AuditAcquire, AuditGoes
  <1>5. ASSUME NEW n \in Namespaces, BootVisit(n) PROVE UpgradeInv'
    BY <1>5 DEF BootVisit, AuditGoes, ReadPolicy, ApiFault
  <1>6. ASSUME NEW n \in Namespaces, ReconcileVisit(n) PROVE UpgradeInv'
    BY <1>6 DEF ReconcileVisit, AuditGoes, ReadPolicy, ApiFault
  <1>7. ASSUME NEW n \in Namespaces, HandlerStart(n) PROVE UpgradeInv'
    BY <1>7 DEF HandlerStart, HandlerGoes, ReadPolicy, ApiFault
  <1>8. ASSUME NEW n \in Namespaces, HandlerTry(n) PROVE UpgradeInv'
    BY <1>8 DEF HandlerTry, HandlerGoes
  <1>9. ASSUME NEW t \in Threads, DeployStep(t) PROVE UpgradeInv'
    BY <1>9 DEF DeployStep, WriteDeployment
  <1>10. ASSUME NEW t \in Threads, DeployFails(t) PROVE UpgradeInv'
    BY <1>10 DEF DeployFails, Fail, Release, WriteDeployment, ApiFault
  <1>11. ASSUME NEW t \in Threads, WaitReady(t) PROVE UpgradeInv'
    BY <1>11 DEF WaitReady, Release
  <1>12. ASSUME NEW t \in Threads, WaitGivesUp(t) PROVE UpgradeInv'
    BY <1>12 DEF WaitGivesUp, Release, ApiFault
  <1>13. CASE TeardownStep
    BY <1>13 DEF TeardownStep, Release, RemoveObject
  <1>14. CASE TeardownFails
    BY <1>14 DEF TeardownFails, Release, RemoveObject, ApiFault
  <1>15. ASSUME NEW n \in Namespaces, CreateNamespace(n) PROVE UpgradeInv'
    BY <1>15 DEF CreateNamespace, Edit
  <1>16. ASSUME NEW n \in Namespaces, DeleteNamespace(n) PROVE UpgradeInv'
    BY <1>16 DEF DeleteNamespace, Edit
  <1>17. ASSUME NEW n \in Namespaces, ToggleLabel(n) PROVE UpgradeInv'
    BY <1>17 DEF ToggleLabel, Edit
  <1>18. ASSUME NEW n \in Namespaces, RolloutDone(n) PROVE UpgradeInv'
    BY <1>18 DEF RolloutDone
  <1>19. CASE Restart
    BY <1>19 DEF Restart
  <1> QED
    BY NextIsStep, <1>1, <1>2, <1>3, <1>4, <1>5, <1>6, <1>7, <1>8, <1>9, <1>10,
       <1>11, <1>12, <1>13, <1>14, <1>15, <1>16, <1>17, <1>18, <1>19 DEF Step

\* As long as no call has failed and no namespace was edited, bootstrap ends with no
\* wanted checker on an earlier template, whichever namespaces its handlers took before
\* it: what reconcile, which only asks whether a Deployment is there, relies on.
THEOREM BootstrapReachesEveryChecker == Spec => []BootstrapReachesAll
  <1>1. Init => UpgradeInv
    BY Names DEF Init, UpgradeInv
  <1>2. IInv /\ UpgradeInv /\ [Next]_vars => UpgradeInv'
    <2>1. ASSUME IInv, UpgradeInv, Next PROVE UpgradeInv'
      BY <2>1, UpgradeStep DEF IInv
    <2>2. ASSUME UpgradeInv, UNCHANGED vars PROVE UpgradeInv'
      BY <2>2 DEF vars, cluster, process, bounds, UpgradeInv, Ahead, Wanted
    <2> QED
      BY <2>1, <2>2
  <1>3. UpgradeInv => BootstrapReachesAll
    BY DEF UpgradeInv, Ahead, BootstrapReachesAll
  <1> QED
    BY <1>1, <1>2, <1>3, Invariance, PTL DEF Spec

---------------------------------------------------------------------------
(* What is settled stays settled                                           *)

\* What StaysSettled says of a step.
Kept == Settled' /\ (AtTemplate => AtTemplate' /\ rolling' \subseteq rolling)

\* A thread that decides in a settled state decides what is there already, and one that
\* is past its decision writes or deletes what is there or absent already.
LEMMA SettledStep ==
    ASSUME TypeOK, HolderInv, Settled, UNCHANGED bounds, Next
    PROVE  Kept
  <1> USE Names
      DEF TypeOK, HolderInv, Settled, InPlace, AtTemplate, Kept, Wanted, Target, Critical, AuditPoints, HandlerPoints, cluster, process, ghosts, bounds
  <1>1. CASE BootList
    BY <1>1 DEF BootList, AuditGoes, ApiFault
  <1>2. CASE ReconcileList
    BY <1>2 DEF ReconcileList, AuditGoes, ApiFault
  <1>3. CASE EndPass
    BY <1>3 DEF EndPass, AuditGoes, ApiFault
  <1>4. CASE AuditAcquire
    BY <1>4 DEF AuditAcquire, AuditGoes
  <1>5. ASSUME NEW n \in Namespaces, BootVisit(n) PROVE Kept
    BY <1>5 DEF BootVisit, AuditGoes, ReadPolicy, ApiFault
  <1>6. ASSUME NEW n \in Namespaces, ReconcileVisit(n) PROVE Kept
    BY <1>6 DEF ReconcileVisit, AuditGoes, ReadPolicy, ApiFault
  <1>7. ASSUME NEW n \in Namespaces, HandlerStart(n) PROVE Kept
    BY <1>7 DEF HandlerStart, HandlerGoes, ReadPolicy, ApiFault
  <1>8. ASSUME NEW n \in Namespaces, HandlerTry(n) PROVE Kept
    BY <1>8 DEF HandlerTry, HandlerGoes
  <1>9. ASSUME NEW t \in Threads, DeployStep(t) PROVE Kept
    BY <1>9 DEF DeployStep, WriteDeployment
  <1>10. ASSUME NEW t \in Threads, DeployFails(t) PROVE Kept
    BY <1>10 DEF DeployFails, Fail, Release, WriteDeployment, ApiFault
  <1>11. ASSUME NEW t \in Threads, WaitReady(t) PROVE Kept
    BY <1>11 DEF WaitReady, Release
  <1>12. ASSUME NEW t \in Threads, WaitGivesUp(t) PROVE Kept
    BY <1>12 DEF WaitGivesUp, Release, ApiFault
  <1>13. CASE TeardownStep
    BY <1>13 DEF TeardownStep, Release, RemoveObject
  <1>14. CASE TeardownFails
    BY <1>14 DEF TeardownFails, Release, RemoveObject, ApiFault
  <1>15. ASSUME NEW n \in Namespaces, CreateNamespace(n) PROVE Kept
    BY <1>15 DEF CreateNamespace, Edit
  <1>16. ASSUME NEW n \in Namespaces, DeleteNamespace(n) PROVE Kept
    BY <1>16 DEF DeleteNamespace, Edit
  <1>17. ASSUME NEW n \in Namespaces, ToggleLabel(n) PROVE Kept
    BY <1>17 DEF ToggleLabel, Edit
  <1>18. ASSUME NEW n \in Namespaces, RolloutDone(n) PROVE Kept
    BY <1>18 DEF RolloutDone
  <1>19. CASE Restart
    BY <1>19 DEF Restart
  <1> QED
    BY NextIsStep, <1>1, <1>2, <1>3, <1>4, <1>5, <1>6, <1>7, <1>8, <1>9, <1>10,
       <1>11, <1>12, <1>13, <1>14, <1>15, <1>16, <1>17, <1>18, <1>19 DEF Step

\* Convergence is kept: the second half of Converges and UpgradeReaches, for every set of
\* namespaces; that a settled state is reached is their first half.
THEOREM SettledStaysSettled == Spec => StaysSettled
  <1>1. ASSUME IInv, [Next]_vars
        PROVE  [Settled /\ UNCHANGED bounds => Kept]_vars
    BY <1>1, SettledStep DEF IInv
  <1> QED
    BY <1>1, Invariance, PTL DEF Spec, StaysSettled, Kept

\* From a settled state on, as long as no call fails, nobody edits a namespace and the
\* process runs, every namespace has a checker exactly if it should have one, and those at
\* the present template stay at it: Converges holds as soon as a settled state is reached.
THEOREM SettledForEver ==
    Spec => [](Settled /\ [][UNCHANGED bounds]_vars =>
                  []InPlace /\ (AtTemplate => []AtTemplate))
  <1>1. Settled => InPlace
    BY DEF Settled
  <1>2. /\ Settled /\ UNCHANGED vars => Settled'
        /\ AtTemplate /\ UNCHANGED vars => AtTemplate'
    BY DEF vars, cluster, process, Settled, AtTemplate, InPlace, Wanted, Target
  <1>3. Settled /\ [Settled /\ UNCHANGED bounds => Kept]_vars /\ [UNCHANGED bounds]_vars =>
           Settled' /\ (AtTemplate => AtTemplate')
    BY <1>2 DEF Kept
  <1>4. Spec => [][Settled /\ UNCHANGED bounds => Kept]_vars
    BY SettledStaysSettled, PTL DEF StaysSettled, Kept
  <1> QED
    BY <1>1, <1>3, <1>4, PTL
=============================================================================
