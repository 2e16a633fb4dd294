------------------------- MODULE CentralGrantsProofs -------------------------
(***************************************************************************)
(* Proofs about CentralGrants for every set of namespaces, every           *)
(* configuration and every bound: two callers in one namespace do each     *)
(* other no harm, and a binding points at nothing only where they crossed. *)
(***************************************************************************)
EXTENDS CentralGrants, TLAPS

BindingPoints == {"readBinding", "patchBinding", "createBinding"}

\* Who meets an opposite thread is marked.  A thread that is not finds the Role there when
\* it comes to the binding, and the binding gone when it comes to delete the Role.
MetInv ==
    \A t \in Threads :
        /\ Meets(t) => t \in met
        /\ pc[t] \in BindingPoints => role[Target(t)].there \/ t \in met
        /\ pc[t] = "deleteRole" => ~binding[Target(t)].there \/ t \in met

\* A name that is not a namespace holds nothing.
GoneInv == \A n \in Namespaces \ live : role[n] = Absent /\ binding[n] = Absent

GrantsInv == TypeOK /\ MetInv /\ GoneInv

\* The steps of Next as a list.
Step ==
    \/ List \/ EndPass \/ Restart
    \/ \E n \in Namespaces :
          \/ Visit(n) \/ HandlerStart(n)
          \/ CreateNamespace(n) \/ DeleteNamespace(n) \/ ToggleLabel(n)
    \/ \E t \in Threads : Ensure(t) \/ Revoke(t) \/ CallFails(t)

\* Every step of the specification is in the list.
LEMMA NextIsStep == Next => Step
  BY DEF Next, AuditThread, World, Calls, Step, Threads

\* Every step is observed.
LEMMA StepIsObserved == Step => Observe
  BY DEF Step, List, EndPass, Restart, Visit, HandlerStart, CreateNamespace, DeleteNamespace,
         ToggleLabel, Ensure, ReadRole, PatchRole, CreateRole, ReadBinding, PatchBinding,
         CreateBinding, CreateInGoneNamespace, Revoke, DeleteBinding, DeleteRole, CallFails

\* The facts about names every proof below needs.
LEMMA Names ==
    /\ Audit \in Threads /\ Audit \notin Namespaces /\ None \notin Namespaces
    /\ Namespaces \subseteq Threads /\ Threads \ {Audit} \subseteq Namespaces
  BY NamesAssumption DEF Threads

\* Who is in the middle of a grant or a revocation is so in a namespace.
LEMMA TargetIsNamespace ==
    ASSUME TypeOK, NEW t \in Threads, pc[t] \in EnsurePoints \union RevokePoints
    PROVE  Target(t) \in Namespaces
  BY Names DEF TypeOK, Target, EnsurePoints, RevokePoints

\* What is written is of its type, and there.
LEMMA Written ==
    ASSUME TypeOK, NEW n \in Namespaces
    PROVE  /\ Role(n) \in Grants /\ Binding \in Bindings
           /\ Role(n).there /\ Binding.there /\ ~Absent.there
  BY ConfigsAssumption DEF TypeOK, Config, Role, Binding, Grants, Bindings, Absent

\* A fault counted stays within its bound.
LEMMA FaultBounded ==
    ASSUME TypeOK, ApiFault \/ NoFault
    PROVE  faults' \in 0 .. MaxFaults
  BY BoundsAssumption DEF TypeOK, ApiFault, NoFault

Points == EnsurePoints \union RevokePoints \union {"list", "visit", "idle"}

\* A thread that is done, or whose call raised, is out of the namespace.
LEMMA DoneTypes ==
    ASSUME TypeOK, NEW t \in Threads, Done(t)
    PROVE  /\ pc' \in [Threads -> Points]
           /\ cur' \in Namespaces \union {None}
           /\ pc'[Audit] \in {"list", "visit"} <=> cur' = None
           /\ \A u \in Threads : pc'[u] = pc[u] \/ pc'[u] \in {"visit", "idle"}
           /\ \A u \in Threads : pc'[u] \in Points \ {"visit", "idle"} =>
                 pc'[u] = pc[u] /\ (u = Audit => cur' = cur)
  BY Names DEF TypeOK, Done, Goes, Points

\* Types hold when the system starts.
LEMMA InitType == Init => TypeOK
  <1> SUFFICES ASSUME Init PROVE TypeOK
    OBVIOUS
  <1>1. faults \in 0 .. MaxFaults /\ edits \in 0 .. MaxEdits /\ restarts \in 0 .. MaxRestarts
    BY BoundsAssumption DEF Init
  <1>2. wrote \in 0 .. 1 /\ failed \in 0 .. 1 /\ met \subseteq Threads
    BY DEF Init
  <1>3. /\ pc \in [Threads -> EnsurePoints \union RevokePoints \union {"list", "visit", "idle"}]
        /\ pc[Audit] = "list"
    BY Names DEF Init
  <1> QED
    BY <1>1, <1>2, <1>3 DEF Init, TypeOK

\* Every step keeps the types.
LEMMA TypeStep ==
    ASSUME TypeOK, Step
    PROVE  TypeOK'
  <1> USE Names, FaultBounded DEF objects
  <1>0. met' \subseteq Threads
    BY StepIsObserved DEF Observe
  <1> USE <1>0
  <1>1. CASE List
    BY <1>1 DEF List, At, Goes, TypeOK, ApiFault, NoFault
  <1>2. CASE EndPass
    BY <1>2 DEF EndPass, At, Goes, TypeOK, ApiFault, NoFault
  <1>3. CASE Restart
    <2>1. restarts' \in 0 .. MaxRestarts
      BY <1>3, BoundsAssumption DEF Restart, TypeOK
    <2>2. pc' \in [Threads -> Points] /\ pc'[Audit] = "list"
      BY <1>3 DEF Restart, Points
    <2> QED
      BY <1>3, <2>1, <2>2 DEF Restart, TypeOK, Points
  <1>4. ASSUME NEW n \in Namespaces, Visit(n) PROVE TypeOK'
    <2>1. ApiFault \/ NoFault
      BY <1>4 DEF Visit, ReadPolicy
    <2> QED
      BY <1>4, <2>1, FaultBounded
      DEF Visit, At, Goes, TypeOK, EnsureStart, RevokeOrder, EnsurePoints, RevokePoints
  <1>5. ASSUME NEW n \in Namespaces, HandlerStart(n) PROVE TypeOK'
    <2>1. ApiFault \/ NoFault
      BY <1>5 DEF HandlerStart, ReadPolicy
    <2> QED
      BY <1>5, <2>1, FaultBounded
      DEF HandlerStart, At, Goes, TypeOK, EnsureStart, RevokeOrder, EnsurePoints, RevokePoints
  <1>6. ASSUME NEW n \in Namespaces, CreateNamespace(n) \/ ToggleLabel(n) PROVE TypeOK'
    <2>1. edits' \in 0 .. MaxEdits
      BY <1>6, BoundsAssumption DEF CreateNamespace, ToggleLabel, TypeOK
    <2> QED
      BY <1>6, <2>1 DEF CreateNamespace, ToggleLabel, TypeOK
  <1>7. ASSUME NEW n \in Namespaces, DeleteNamespace(n) PROVE TypeOK'
    <2>1. edits' \in 0 .. MaxEdits
      BY <1>7, BoundsAssumption DEF DeleteNamespace, TypeOK
    <2> QED
      BY <1>7, <2>1 DEF DeleteNamespace, TypeOK
  <1>8. ASSUME NEW t \in Threads, ReadRole(t) \/ PatchRole(t) \/ CreateRole(t) PROVE TypeOK'
    <2>1. Role(Target(t)) \in Grants
      BY <1>8, TargetIsNamespace, Written
      DEF ReadRole, PatchRole, CreateRole, At, EnsurePoints
    <2>2. pc[t] \in EnsurePoints /\ \E point \in EnsurePoints : Goes(t, point)
      BY <1>8 DEF ReadRole, PatchRole, CreateRole, At, EnsurePoints
    <2>3. /\ pc' \in [Threads -> Points]
          /\ pc'[Audit] \in {"list", "visit"} <=> pc[Audit] \in {"list", "visit"}
      BY <2>2 DEF TypeOK, Goes, EnsurePoints, Points
    <2> QED
      BY <1>8, <2>1, <2>3
      DEF ReadRole, PatchRole, CreateRole, TypeOK, NoFault, bounds, Points
  <1>9. ASSUME NEW t \in Threads, ReadBinding(t) \/ PatchBinding(t) \/ CreateBinding(t)
        PROVE  TypeOK'
    <2>1. Binding \in Bindings
      BY <1>9, TargetIsNamespace, Written
      DEF ReadBinding, PatchBinding, CreateBinding, At, EnsurePoints
    <2>2. CASE Done(t)
      BY <1>9, <2>1, <2>2, DoneTypes
      DEF ReadBinding, PatchBinding, CreateBinding, TypeOK, bounds, Points
    <2>3. CASE ~Done(t)
      <3>1. UNCHANGED cur /\ pc[t] \in EnsurePoints /\ \E point \in EnsurePoints : Goes(t, point)
        BY <1>9, <2>3 DEF ReadBinding, PatchBinding, CreateBinding, At, EnsurePoints
      <3>2. /\ pc' \in [Threads -> Points]
            /\ pc'[Audit] \in {"list", "visit"} <=> pc[Audit] \in {"list", "visit"}
        BY <3>1 DEF TypeOK, Goes, EnsurePoints, Points
      <3> QED
        BY <1>9, <2>1, <3>1, <3>2
        DEF ReadBinding, PatchBinding, CreateBinding, TypeOK, bounds, Points
    <2> QED
      BY <2>2, <2>3
  <1>10. ASSUME NEW t \in Threads, CreateInGoneNamespace(t) \/ CallFails(t) PROVE TypeOK'
    <2>1. Done(t) /\ faults' \in 0 .. MaxFaults
      BY <1>10, FaultBounded
      DEF CreateInGoneNamespace, CallFails, Raise, bounds, NoFault
    <2>2. failed' \in 0 .. 1 /\ pending' \subseteq live
      BY <1>10 DEF CreateInGoneNamespace, CallFails, Raise, TypeOK
    <2> QED
      BY <1>10, <2>1, <2>2, DoneTypes
      DEF CreateInGoneNamespace, CallFails, TypeOK, bounds, Points
  <1>11. ASSUME NEW t \in Threads, DeleteBinding(t) \/ DeleteRole(t) PROVE TypeOK'
    <2>1. /\ wrote' \in 0 .. 1
          /\ role' \in [Namespaces -> Grants \union {Absent}]
          /\ binding' \in [Namespaces -> Bindings \union {Absent}]
      BY <1>11 DEF DeleteBinding, DeleteRole, TypeOK
    <2>2. CASE DeleteBinding(t)
      <3>1. pc[t] = "deleteBinding" /\ Goes(t, "deleteRole") /\ UNCHANGED cur
        BY <2>2 DEF DeleteBinding, NextDelete, RevokeOrder, At
      <3>2. /\ pc' \in [Threads -> Points]
            /\ pc'[Audit] \in {"list", "visit"} <=> pc[Audit] \in {"list", "visit"}
        BY <3>1 DEF TypeOK, Goes, RevokePoints, Points
      <3> QED
        BY <2>1, <2>2, <3>1, <3>2 DEF DeleteBinding, TypeOK, bounds, Points
    <2>3. CASE DeleteRole(t)
      <3>1. Done(t)
        BY <2>3 DEF DeleteRole, NextDelete, RevokeOrder, At
      <3> QED
        BY <2>1, <2>3, <3>1, DoneTypes DEF DeleteRole, TypeOK, bounds, Points
    <2> QED
      BY <1>11, <2>2, <2>3
  <1> QED
    BY <1>1, <1>2, <1>3, <1>4, <1>5, <1>6, <1>7, <1>8, <1>9, <1>10, <1>11
    DEF Step, Ensure, Revoke

\* A thread that moves on within its namespace leaves the targets of all as they are.
LEMMA MoveTargets ==
    ASSUME TypeOK, NEW t \in Threads, NEW point, Goes(t, point), UNCHANGED cur
    PROVE  /\ \A u \in Threads : Target(u)' = Target(u)
           /\ pc'[t] = point
           /\ \A u \in Threads : u # t => pc'[u] = pc[u]
  BY DEF TypeOK, Goes, Target

\* One that is done is at no point any more, and the others are where they were.
LEMMA DoneTargets ==
    ASSUME TypeOK, NEW t \in Threads, Done(t)
    PROVE  \A u \in Threads :
              pc'[u] \in EnsurePoints \union RevokePoints =>
                  pc'[u] = pc[u] /\ Target(u)' = Target(u)
  BY Names DEF TypeOK, Done, Goes, Target, EnsurePoints, RevokePoints

\* What a call of ensure_central_secret_access does: it takes no Role away, comes to the
\* binding with the Role there, and makes a binding dangle only if it was gone by then.
LEMMA EnsureEffects ==
    ASSUME TypeOK, NEW t \in Threads, Ensure(t)
    PROVE  LET n == Target(t)
           IN  /\ pc[t] \in EnsurePoints /\ n \in Namespaces
               /\ \A m \in Namespaces : m # n => role'[m] = role[m] /\ binding'[m] = binding[m]
               /\ role[n].there => role'[n].there
               /\ pc'[t] \in BindingPoints => role'[n].there \/ pc[t] \in BindingPoints
               /\ pc'[t] # "deleteRole"
               /\ \A m \in Namespaces : Dangling(m)' /\ ~Dangling(m) =>
                     m = n /\ pc[t] \in BindingPoints /\ ~role[n].there /\ pc'[t] # pc[t]
               /\ \A u \in Threads : AtWork(u)' =>
                     Target(u)' = Target(u) /\ (u # t => pc'[u] = pc[u])
  <1> DEFINE n == Target(t)
  <1> USE DEF EnsurePoints, BindingPoints, RevokePoints
  <1>1. pc[t] \in EnsurePoints
    BY DEF Ensure, ReadRole, PatchRole, CreateRole, ReadBinding, PatchBinding, CreateBinding,
           CreateInGoneNamespace, At
  <1>2. /\ n \in Namespaces /\ Role(n).there /\ Binding.there
        /\ pc \in [Threads -> EnsurePoints \union RevokePoints \union {"list", "visit", "idle"}]
        /\ role \in [Namespaces -> Grants \union {Absent}]
        /\ binding \in [Namespaces -> Bindings \union {Absent}]
    BY <1>1, TargetIsNamespace, Written DEF TypeOK
  <1>3. \/ Done(t)
        \/ UNCHANGED cur /\ \E point \in EnsurePoints : Goes(t, point)
    BY DEF Ensure, ReadRole, PatchRole, CreateRole, ReadBinding, PatchBinding, CreateBinding,
           CreateInGoneNamespace, Raise
  <1>4. /\ pc'[t] \in EnsurePoints \union {"visit", "idle"}
        /\ Done(t) => pc'[t] \in {"visit", "idle"}
    BY <1>2, <1>3 DEF Done, Goes
  <1>5. \A u \in Threads : AtWork(u)' => Target(u)' = Target(u) /\ (u # t => pc'[u] = pc[u])
    <2>1. CASE Done(t)
      BY <2>1, DoneTargets DEF AtWork
    <2>2. CASE ~Done(t)
      BY <1>3, <2>2, MoveTargets
    <2> QED
      BY <2>1, <2>2
  <1>6. /\ UNCHANGED role \/ role' = [role EXCEPT ![n] = Role(n)]
        /\ \/ UNCHANGED binding
           \/ /\ binding' = [binding EXCEPT ![n] = Binding] /\ UNCHANGED role
              /\ pc[t] \in BindingPoints /\ Done(t)
    BY DEF Ensure, ReadRole, PatchRole, CreateRole, ReadBinding, PatchBinding, CreateBinding,
           CreateInGoneNamespace, At, objects
  <1>7. /\ \A m \in Namespaces : m # n => role'[m] = role[m] /\ binding'[m] = binding[m]
        /\ role[n].there => role'[n].there
        /\ \A m \in Namespaces : Dangling(m)' /\ ~Dangling(m) =>
              m = n /\ pc[t] \in BindingPoints /\ ~role[n].there /\ Done(t)
    BY <1>2, <1>6 DEF Dangling
  <1>8. pc'[t] \in BindingPoints => role'[n].there \/ pc[t] \in BindingPoints
    <2>1. CASE ReadRole(t)
      BY <1>2, <2>1 DEF ReadRole, RoleMatches, Goes, objects
    <2>2. CASE PatchRole(t) \/ CreateRole(t)
      BY <1>2, <2>2 DEF PatchRole, CreateRole, Goes
    <2>3. CASE ReadBinding(t) \/ PatchBinding(t) \/ CreateBinding(t)
      BY <2>3 DEF ReadBinding, PatchBinding, CreateBinding, At
    <2>4. CASE CreateInGoneNamespace(t)
      BY <1>4, <2>4 DEF CreateInGoneNamespace, Raise
    <2> QED
      BY <2>1, <2>2, <2>3, <2>4 DEF Ensure
  <1> QED
    BY <1>1, <1>2, <1>4, <1>5, <1>7, <1>8

\* What a call of teardown_central_secret_access does: it makes no binding, comes to the
\* Role with the binding gone, and makes a binding dangle only if it was back by then.
LEMMA RevokeEffects ==
    ASSUME TypeOK, NEW t \in Threads, Revoke(t)
    PROVE  LET n == Target(t)
           IN  /\ pc[t] \in RevokePoints /\ n \in Namespaces
               /\ \A m \in Namespaces : m # n => role'[m] = role[m] /\ binding'[m] = binding[m]
               /\ binding'[n].there => binding[n].there
               /\ pc'[t] = "deleteRole" => ~binding'[n].there
               /\ pc'[t] \notin BindingPoints
               /\ \A m \in Namespaces : Dangling(m)' /\ ~Dangling(m) =>
                     m = n /\ pc[t] = "deleteRole" /\ binding[n].there /\ pc'[t] # pc[t]
               /\ \A u \in Threads : AtWork(u)' =>
                     Target(u)' = Target(u) /\ (u # t => pc'[u] = pc[u])
  <1> DEFINE n == Target(t)
  <1> USE DEF BindingPoints, RevokePoints
  <1>1. pc[t] \in RevokePoints
    BY DEF Revoke, DeleteBinding, DeleteRole, At
  <1>2. /\ n \in Namespaces /\ ~Absent.there
        /\ pc \in [Threads -> EnsurePoints \union RevokePoints \union {"list", "visit", "idle"}]
        /\ role \in [Namespaces -> Grants \union {Absent}]
        /\ binding \in [Namespaces -> Bindings \union {Absent}]
    BY <1>1, TargetIsNamespace DEF TypeOK, Absent
  <1>3. CASE DeleteBinding(t)
    <2>1. /\ UNCHANGED <<role, cur>> /\ binding' = [binding EXCEPT ![n] = Absent]
          /\ Goes(t, "deleteRole")
      BY <1>3 DEF DeleteBinding, NextDelete, RevokeOrder, At
    <2>2. \A u \in Threads : Target(u)' = Target(u) /\ (u # t => pc'[u] = pc[u])
      BY <2>1, MoveTargets
    <2>3. pc'[t] = "deleteRole"
      BY <1>2, <2>1 DEF Goes
    <2> QED
      BY <1>1, <1>2, <2>1, <2>2, <2>3 DEF Dangling
  <1>4. CASE DeleteRole(t)
    <2>1. /\ UNCHANGED binding /\ role' = [role EXCEPT ![n] = Absent]
          /\ pc[t] = "deleteRole" /\ Done(t)
      BY <1>4 DEF DeleteRole, NextDelete, RevokeOrder, At
    <2>2. \A u \in Threads : AtWork(u)' => Target(u)' = Target(u) /\ (u # t => pc'[u] = pc[u])
      BY <2>1, DoneTargets DEF AtWork
    <2>3. pc'[t] \in {"visit", "idle"}
      BY <1>2, <2>1 DEF Done, Goes
    <2> QED
      BY <1>1, <1>2, <2>1, <2>2, <2>3 DEF Dangling
  <1> QED
    BY <1>3, <1>4 DEF Revoke

\* What MetInv says of a thread that met nobody.
Safe(t) ==
    /\ pc[t] \in BindingPoints => role[Target(t)].there
    /\ pc[t] = "deleteRole" => ~binding[Target(t)].there

\* Threads that met nobody find what they count on; the others are marked.
LEMMA MetStep ==
    ASSUME TypeOK, MetInv, GoneInv, Step
    PROVE  MetInv'
  <1> USE DEF BindingPoints, EnsurePoints, RevokePoints, AtWork
  <1>1. Observe
    BY StepIsObserved
  <1>2. \A t \in Threads : Meets(t)' => t \in met'
    BY <1>1 DEF Observe
  <1>3. SUFFICES ASSUME NEW t \in Threads, t \notin met', AtWork(t)'
                 PROVE  Safe(t)'
    BY <1>2 DEF MetInv, Safe
  <1>4. t \notin met /\ (pc'[t] \in EnsurePoints => Target(t) \notin live \ live')
    BY <1>1, <1>3 DEF Observe
  <1>5. ~Meets(t) /\ Safe(t)
    BY <1>4 DEF MetInv, Safe
  <1>6. CASE List \/ EndPass \/ Restart
    <2>1. UNCHANGED objects
      BY <1>6 DEF List, EndPass, Restart, objects
    <2>2. pc'[t] = pc[t] /\ Target(t)' = Target(t)
      BY <1>3, <1>6, Names DEF List, EndPass, Restart, Goes, TypeOK, Target
    <2> QED
      BY <1>5, <2>1, <2>2 DEF Safe, objects
  <1>7. ASSUME NEW n \in Namespaces, Visit(n) \/ HandlerStart(n) PROVE Safe(t)'
    <2>1. UNCHANGED objects
      BY <1>7 DEF Visit, HandlerStart, objects
    <2>2. \/ UNCHANGED <<pc, cur>>
          \/ cur' = n /\ \E point \in {"readRole", "deleteBinding"} : Goes(Audit, point)
          \/ UNCHANGED cur /\ \E point \in {"readRole", "deleteBinding"} : Goes(n, point)
      BY <1>7 DEF Visit, HandlerStart, EnsureStart, RevokeOrder
    <2>3. \/ pc'[t] = pc[t] /\ Target(t)' = Target(t)
          \/ pc'[t] \in {"readRole", "deleteBinding"}
      BY <2>2, Names DEF Goes, TypeOK, Target
    <2> QED
      BY <1>5, <2>1, <2>3 DEF Safe, objects
  <1>8. ASSUME NEW n \in Namespaces, CreateNamespace(n) \/ ToggleLabel(n) PROVE Safe(t)'
    BY <1>5, <1>8 DEF CreateNamespace, ToggleLabel, Safe, Target, objects
  <1>9. ASSUME NEW n \in Namespaces, DeleteNamespace(n) PROVE Safe(t)'
    <2>1. /\ UNCHANGED <<pc, cur>> /\ live' = live \ {n} /\ n \in live
          /\ role' = [role EXCEPT ![n] = Absent] /\ binding' = [binding EXCEPT ![n] = Absent]
      BY <1>9 DEF DeleteNamespace
    <2>2. Target(t)' = Target(t) /\ Target(t) \in Namespaces
      BY <1>3, <2>1, TargetIsNamespace DEF Target
    <2>3. pc[t] \in BindingPoints => Target(t) # n
      BY <1>4, <2>1
    <2>4. ~Absent.there
      BY DEF Absent
    <2> QED
      BY <1>5, <2>1, <2>2, <2>3, <2>4 DEF Safe, TypeOK
  <1>10. ASSUME NEW u \in Threads, Ensure(u) PROVE Safe(t)'
    <2>1. /\ pc[u] \in EnsurePoints /\ Target(u) \in Namespaces
          /\ \A m \in Namespaces : m # Target(u) => role'[m] = role[m] /\ binding'[m] = binding[m]
          /\ role[Target(u)].there => role'[Target(u)].there
          /\ pc'[u] \in BindingPoints => role'[Target(u)].there \/ pc[u] \in BindingPoints
          /\ pc'[u] # "deleteRole"
          /\ Target(t)' = Target(t) /\ (t # u => pc'[t] = pc[t])
      BY <1>3, <1>10, EnsureEffects
    <2>2. CASE t = u
      BY <1>5, <2>1, <2>2 DEF Safe
    <2>3. CASE t # u
      <3>1. pc'[t] = pc[t] /\ Target(t) \in Namespaces
        BY <1>3, <2>1, <2>3, TargetIsNamespace
      <3>2. Target(t) = Target(u) => pc[t] # "deleteRole"
        BY <1>5, <2>1 DEF Meets
      <3> QED
        BY <1>5, <2>1, <3>1, <3>2 DEF Safe
    <2> QED
      BY <2>2, <2>3
  <1>11. ASSUME NEW u \in Threads, Revoke(u) PROVE Safe(t)'
    <2>1. /\ pc[u] \in RevokePoints /\ Target(u) \in Namespaces
          /\ \A m \in Namespaces : m # Target(u) => role'[m] = role[m] /\ binding'[m] = binding[m]
          /\ binding'[Target(u)].there => binding[Target(u)].there
          /\ pc'[u] = "deleteRole" => ~binding'[Target(u)].there
          /\ pc'[u] \notin BindingPoints
          /\ Target(t)' = Target(t) /\ (t # u => pc'[t] = pc[t])
      BY <1>3, <1>11, RevokeEffects
    <2>2. CASE t = u
      BY <2>1, <2>2 DEF Safe
    <2>3. CASE t # u
      <3>1. pc'[t] = pc[t] /\ Target(t) \in Namespaces
        BY <1>3, <2>1, <2>3, TargetIsNamespace
      <3>2. Target(t) = Target(u) => pc[t] \notin BindingPoints
        BY <1>5, <2>1 DEF Meets
      <3> QED
        BY <1>5, <2>1, <3>1, <3>2 DEF Safe
    <2> QED
      BY <2>2, <2>3
  <1>12. ASSUME NEW u \in Threads, CallFails(u) PROVE Safe(t)'
    <2>1. Done(u) /\ UNCHANGED objects
      BY <1>12 DEF CallFails, Raise
    <2>2. pc'[t] = pc[t] /\ Target(t)' = Target(t)
      BY <1>3, <2>1, DoneTargets
    <2> QED
      BY <1>5, <2>1, <2>2 DEF Safe, objects
  <1> QED
    BY <1>6, <1>7, <1>8, <1>9, <1>10, <1>11, <1>12 DEF Step

\* Nothing is written where there is no namespace.
LEMMA GoneStep ==
    ASSUME TypeOK, GoneInv, Step
    PROVE  GoneInv'
  <1> USE DEF GoneInv, TypeOK, objects
  <1>1. CASE List \/ EndPass \/ Restart
    BY <1>1 DEF List, EndPass, Restart
  <1>2. ASSUME NEW n \in Namespaces, Visit(n) \/ HandlerStart(n) \/ CreateNamespace(n) \/ ToggleLabel(n)
        PROVE  GoneInv'
    BY <1>2 DEF Visit, HandlerStart, CreateNamespace, ToggleLabel
  <1>3. ASSUME NEW n \in Namespaces, DeleteNamespace(n) PROVE GoneInv'
    BY <1>3 DEF DeleteNamespace
  <1>4. ASSUME NEW t \in Threads, ReadRole(t) \/ ReadBinding(t) \/ CreateInGoneNamespace(t) \/ CallFails(t)
        PROVE  GoneInv'
    BY <1>4 DEF ReadRole, ReadBinding, CreateInGoneNamespace, CallFails
  <1>5. ~Absent.there
    BY DEF Absent
  <1>6. ASSUME NEW t \in Threads, PatchRole(t) \/ CreateRole(t) PROVE GoneInv'
    <2>1. Target(t) \in Namespaces
      BY <1>6, TargetIsNamespace DEF PatchRole, CreateRole, At, EnsurePoints
    <2>2. UNCHANGED role \/ (Target(t) \in live /\ role' = [role EXCEPT ![Target(t)] = Role(Target(t))])
      BY <1>5, <1>6, <2>1 DEF PatchRole, CreateRole
    <2> QED
      BY <1>6, <2>2 DEF PatchRole, CreateRole
  <1>7. ASSUME NEW t \in Threads, PatchBinding(t) \/ CreateBinding(t) PROVE GoneInv'
    <2>1. Target(t) \in Namespaces
      BY <1>7, TargetIsNamespace DEF PatchBinding, CreateBinding, At, EnsurePoints
    <2>2. UNCHANGED binding \/ (Target(t) \in live /\ binding' = [binding EXCEPT ![Target(t)] = Binding])
      BY <1>5, <1>7, <2>1 DEF PatchBinding, CreateBinding
    <2> QED
      BY <1>7, <2>2 DEF PatchBinding, CreateBinding
  <1>8. ASSUME NEW t \in Threads, DeleteBinding(t) \/ DeleteRole(t) PROVE GoneInv'
    BY <1>8 DEF DeleteBinding, DeleteRole
  <1> QED
    BY <1>1, <1>2, <1>3, <1>4, <1>6, <1>7, <1>8 DEF Step, Ensure, Revoke

\* The three parts hold throughout.
THEOREM GrantsInvariance == Spec => []GrantsInv
  <1>1. Init => GrantsInv
    <2> SUFFICES ASSUME Init PROVE GrantsInv
      OBVIOUS
    <2>1. \A t \in Threads : pc[t] \in {"list", "idle"}
      BY DEF Init
    <2>2. \A n \in Namespaces : role[n] = Absent /\ binding[n] = Absent
      BY DEF Init
    <2> QED
      BY <2>1, <2>2, InitType
      DEF Init, GrantsInv, MetInv, Meets, GoneInv, EnsurePoints, RevokePoints, BindingPoints
  <1>2. GrantsInv /\ [Next]_vars => GrantsInv'
    <2> SUFFICES ASSUME GrantsInv, Next \/ UNCHANGED vars PROVE GrantsInv'
      OBVIOUS
    <2>1. CASE Next
      BY <2>1, NextIsStep, TypeStep, MetStep, GoneStep DEF GrantsInv
    <2>2. CASE UNCHANGED vars
      BY <2>2
      DEF vars, objects, bounds, GrantsInv, TypeOK, MetInv, Meets, GoneInv, Target
    <2> QED
      BY <2>1, <2>2
  <1> QED
    BY <1>1, <1>2, PTL DEF Spec

\* Every variable keeps its type, and the audit thread is in a namespace exactly
\* while it grants or revokes.
THEOREM GrantsTypeCorrect == Spec => []TypeOK
  <1>1. GrantsInv => TypeOK
    BY DEF GrantsInv
  <1> QED
    BY <1>1, GrantsInvariance, PTL

\* The orders of ensure_central_secret_access and teardown_central_secret_access, through
\* failing calls, edits, opt-outs and restarts: a step that leaves a binding pointing at
\* nothing is one of a thread that met an opposite one or lost its namespace.
THEOREM BindingsPointAtRoles == Spec => NoDanglingBinding
  <1> DEFINE Excused(n) == \E t \in met : Target(t) = n /\ pc'[t] # pc[t]
             Kept == \A n \in Namespaces : Dangling(n)' /\ ~Dangling(n) => Excused(n)
  <1>1. ASSUME GrantsInv, Next PROVE Kept
    <2>1. Step /\ TypeOK /\ MetInv
      BY <1>1, NextIsStep DEF GrantsInv
    <2>2. CASE UNCHANGED objects
      BY <2>2 DEF Dangling, objects
    <2>3. ASSUME NEW m \in Namespaces, DeleteNamespace(m) PROVE Kept
      BY <2>1, <2>3 DEF DeleteNamespace, Dangling, Absent, TypeOK
    <2>4. ASSUME NEW t \in Threads, Ensure(t) \/ Revoke(t) PROVE Kept
      <3> SUFFICES ASSUME NEW n \in Namespaces, Dangling(n)', ~Dangling(n) PROVE Excused(n)
        OBVIOUS
      <3>1. /\ n = Target(t) /\ pc'[t] # pc[t]
            /\ \/ pc[t] \in BindingPoints /\ ~role[n].there
               \/ pc[t] = "deleteRole" /\ binding[n].there
        BY <2>1, <2>4, EnsureEffects, RevokeEffects
      <3> QED
        BY <2>1, <3>1 DEF MetInv
    <2>5. \/ UNCHANGED objects
          \/ \E m \in Namespaces : DeleteNamespace(m)
          \/ \E t \in Threads : Ensure(t) \/ Revoke(t)
      BY <2>1
      DEF Step, List, EndPass, Restart, Visit, HandlerStart, CreateNamespace, ToggleLabel,
          CallFails, objects
    <2> QED
      BY <2>2, <2>3, <2>4, <2>5
  <1>2. ASSUME GrantsInv, [Next]_vars PROVE [Kept]_vars
    BY <1>1, <1>2
  <1> QED
    BY <1>2, GrantsInvariance, PTL DEF Spec, NoDanglingBinding

\* 404 for a patch and 409 for a create are no failures: one is recorded only where
\* a call failed or the namespace is gone.
THEOREM FailuresHaveACause == Spec => FailuresAreReal
  <1> DEFINE Cause == failed' # failed =>
                \/ faults' # faults
                \/ \E t \in Threads : pc'[t] # pc[t] /\ Target(t) \in Namespaces \ live
  <1>1. ASSUME GrantsInv, Next PROVE Cause
    <2>1. Step /\ TypeOK
      BY <1>1, NextIsStep DEF GrantsInv
    <2>2. CASE List \/ EndPass \/ Restart
      BY <2>2 DEF List, EndPass, Restart
    <2>3. ASSUME NEW n \in Namespaces,
                 Visit(n) \/ HandlerStart(n) \/ CreateNamespace(n) \/ DeleteNamespace(n) \/ ToggleLabel(n)
          PROVE  Cause
      BY <2>3 DEF Visit, HandlerStart, CreateNamespace, DeleteNamespace, ToggleLabel
    <2>4. ASSUME NEW t \in Threads, CallFails(t) PROVE Cause
      BY <2>1, <2>4, BoundsAssumption DEF CallFails, ApiFault, TypeOK
    <2>5. ASSUME NEW t \in Threads, CreateInGoneNamespace(t) PROVE Cause
      <3>1. Done(t) /\ pc[t] \in EnsurePoints /\ Target(t) \notin live
        BY <2>5 DEF CreateInGoneNamespace, Raise, EnsurePoints
      <3>2. Target(t) \in Namespaces
        BY <2>1, <3>1, TargetIsNamespace
      <3>3. pc'[t] \in {"visit", "idle"}
        BY <2>1, <3>1 DEF Done, Goes, TypeOK
      <3> QED
        BY <3>1, <3>2, <3>3 DEF EnsurePoints
    <2>6. ASSUME NEW t \in Threads,
                 \/ ReadRole(t) \/ PatchRole(t) \/ CreateRole(t)
                 \/ ReadBinding(t) \/ PatchBinding(t) \/ CreateBinding(t)
                 \/ DeleteBinding(t) \/ DeleteRole(t)
          PROVE  Cause
      BY <2>6
      DEF ReadRole, PatchRole, CreateRole, ReadBinding, PatchBinding, CreateBinding,
          DeleteBinding, DeleteRole
    <2> QED
      BY <2>1, <2>2, <2>3, <2>4, <2>5, <2>6 DEF Step, Ensure, Revoke
  <1>2. ASSUME GrantsInv, [Next]_vars PROVE [Cause]_vars
    BY <1>1, <1>2
  <1> QED
    BY <1>2, GrantsInvariance, PTL DEF Spec, FailuresAreReal

---------------------------------------------------------------------------
(* What is settled stays settled                                           *)

\* What Settled says of a thread.
Agrees(t) ==
    Target(t) \in live =>
        /\ pc[t] \in EnsurePoints \ {"patchRole", "patchBinding"} => Desired(Target(t)) # "nothing"
        /\ pc[t] \in RevokePoints => Desired(Target(t)) = "nothing"
        /\ pc[t] \notin {"patchRole", "patchBinding"}

\* Only the world edits, restarts and fails.
LEMMA QuietIsQuiet ==
    ASSUME TypeOK, Step, UNCHANGED bounds
    PROVE  /\ UNCHANGED <<live, optOut, conf>>
           /\ \/ List \/ EndPass
              \/ \E n \in Namespaces : Visit(n) \/ HandlerStart(n)
              \/ \E t \in Threads : Ensure(t) \/ Revoke(t)
  <1>1. ~Restart /\ \A t \in Threads : ~CallFails(t)
    BY BoundsAssumption DEF Restart, CallFails, ApiFault, TypeOK, bounds
  <1>2. \A n \in Namespaces : ~CreateNamespace(n) /\ ~DeleteNamespace(n) /\ ~ToggleLabel(n)
    BY BoundsAssumption DEF CreateNamespace, DeleteNamespace, ToggleLabel, TypeOK, bounds
  <1>3. CASE List \/ EndPass
    BY <1>3 DEF List, EndPass
  <1>4. ASSUME NEW n \in Namespaces, Visit(n) \/ HandlerStart(n)
        PROVE  UNCHANGED <<live, optOut, conf>>
    BY <1>4 DEF Visit, HandlerStart
  <1>5. ASSUME NEW t \in Threads, Ensure(t) \/ Revoke(t)
        PROVE  UNCHANGED <<live, optOut, conf>>
    BY <1>5
    DEF Ensure, Revoke, ReadRole, PatchRole, CreateRole, ReadBinding, PatchBinding,
        CreateBinding, CreateInGoneNamespace, DeleteBinding, DeleteRole
  <1> QED
    BY <1>1, <1>2, <1>3, <1>4, <1>5 DEF Step

\* In a settled state a thread finds what it would write, and finds nothing to delete.
LEMMA NothingToDo ==
    ASSUME TypeOK, GoneInv, Settled, NEW t \in Threads, pc[t] \in EnsurePoints \union RevokePoints
    PROVE  /\ Target(t) \in Namespaces
           /\ Target(t) \notin live =>
                 ~role[Target(t)].there /\ ~binding[Target(t)].there
           /\ Target(t) \in live /\ pc[t] \in EnsurePoints =>
                 /\ role[Target(t)] = Role(Target(t)) /\ role[Target(t)].there
                 /\ binding[Target(t)] = Binding /\ binding[Target(t)].there
           /\ pc[t] \in RevokePoints =>
                 role[Target(t)] = Absent /\ binding[Target(t)] = Absent
  <1>1. Target(t) \in Namespaces
    BY TargetIsNamespace
  <1>2. Agrees(t)
    BY DEF Settled, Agrees
  <1>3. Target(t) \notin live => role[Target(t)] = Absent /\ binding[Target(t)] = Absent
    BY <1>1 DEF GoneInv
  <1>4. Target(t) \in live => AsDesired(Target(t))
    BY DEF Settled, InPlace
  <1>5. ~Absent.there /\ Role(Target(t)).there /\ Binding.there
    BY DEF Absent, Role, Binding
  <1> QED
    BY <1>1, <1>2, <1>3, <1>4, <1>5 DEF Agrees, AsDesired

\* A decision taken on present labels agrees with what is desired.
LEMMA DecisionAgrees ==
    ASSUME NEW n, NEW labelled, labelled <=> n \in optOut
    PROVE  /\ ShouldAudit(conf.mode, n, labelled, EffectivePolicy(n)) /\ EnsureStart(n) = "readRole" =>
                 Desired(n) # "nothing"
           /\ ~ShouldAudit(conf.mode, n, labelled, EffectivePolicy(n)) \/ EnsureStart(n) # "readRole" =>
                 Desired(n) = "nothing"
           /\ EnsureStart(n) \in {"readRole", "deleteBinding"}
  BY DEF ShouldAudit, EnsureStart, RevokeOrder, Desired, Audited

\* Nothing that goes on writes or unsettles anything.
LEMMA SettledStep ==
    ASSUME TypeOK, GoneInv, Settled, Central(conf.mode), UNCHANGED bounds, Step
    PROVE  Settled' /\ wrote' = wrote
  <1>1. /\ UNCHANGED <<live, optOut, conf>>
        /\ \/ List \/ EndPass
           \/ \E n \in Namespaces : Visit(n) \/ HandlerStart(n)
           \/ \E t \in Threads : Ensure(t) \/ Revoke(t)
    BY QuietIsQuiet
  <1>2. /\ \A n \in live : AsDesired(n)
        /\ \A n \in todo \intersect live : n \in snap <=> n \in optOut
        /\ \A t \in Threads : Agrees(t)
    BY DEF Settled, InPlace, Agrees
  <1>3. \A n : Desired(n)' = Desired(n)
    BY <1>1 DEF Desired, Audited
  <1>4. SUFFICES /\ UNCHANGED <<objects, wrote>>
                 /\ \A n \in todo' \intersect live : n \in snap' <=> n \in optOut
                 /\ \A t \in Threads : Agrees(t)'
    BY <1>1, <1>2, <1>3 DEF Settled, Agrees, InPlace, AsDesired, Role, Binding, objects
  <1>5. CASE List \/ EndPass
    <2>1. UNCHANGED <<objects, wrote, cur>> /\ (todo' = {} \/ (todo' = live /\ snap' = optOut))
      <3>1. ~ApiFault
        BY BoundsAssumption DEF ApiFault, TypeOK, bounds
      <3> QED
        BY <1>5, <3>1 DEF List, EndPass
    <2>2. \A t \in Threads : pc'[t] \in EnsurePoints \union RevokePoints =>
             pc'[t] = pc[t] /\ Target(t)' = Target(t)
      BY <1>5, Names DEF List, EndPass, Goes, TypeOK, Target, EnsurePoints, RevokePoints
    <2> QED
      BY <1>1, <1>2, <1>3, <2>1, <2>2 DEF Agrees, EnsurePoints
  <1>6. ASSUME NEW n \in Namespaces, Visit(n)
        PROVE  /\ UNCHANGED <<objects, wrote>>
               /\ \A m \in todo' \intersect live : m \in snap' <=> m \in optOut
               /\ \A t \in Threads : Agrees(t)'
    <2>1. UNCHANGED <<objects, wrote, snap>> /\ todo' = todo \ {n} /\ n \in todo
      BY <1>6 DEF Visit
    <2>2. cur' = n /\ Goes(Audit, IF ShouldAudit(conf.mode, n, n \in snap, EffectivePolicy(n))
                                     THEN EnsureStart(n) ELSE RevokeOrder[1])
      <3>1. ~ApiFault
        BY BoundsAssumption DEF ApiFault, TypeOK, bounds
      <3>2. PICK policy \in Policies :
               /\ ReadPolicy(n, policy)
               /\ cur' = n
               /\ Goes(Audit, IF ShouldAudit(conf.mode, n, n \in snap, policy)
                                 THEN EnsureStart(n) ELSE RevokeOrder[1])
        BY <1>6 DEF Visit
      <3>3. policy = EffectivePolicy(n)
        BY <3>1, <3>2 DEF ReadPolicy
      <3> QED
        BY <3>2, <3>3
    <2>3. \A t \in Threads :
             \/ t # Audit /\ pc'[t] = pc[t] /\ Target(t)' = Target(t)
             \/ /\ t = Audit /\ Target(t)' = n
                /\ pc'[t] = IF ShouldAudit(conf.mode, n, n \in snap, EffectivePolicy(n))
                               THEN EnsureStart(n) ELSE RevokeOrder[1]
      BY <2>2, Names DEF Goes, TypeOK, Target
    <2>4. n \in live => (n \in snap <=> n \in optOut)
      BY <1>2, <2>1
    <2>5. ASSUME NEW t \in Threads PROVE Agrees(t)'
      <3>1. CASE pc'[t] = pc[t] /\ Target(t)' = Target(t)
        BY <1>1, <1>2, <1>3, <3>1 DEF Agrees
      <3>2. CASE t = Audit
        BY <1>1, <1>3, <2>3, <2>4, <3>2, DecisionAgrees
        DEF Agrees, EnsurePoints, RevokePoints, RevokeOrder
      <3> QED
        BY <2>3, <3>1, <3>2
    <2> QED
      BY <1>2, <2>1, <2>5
  <1>7. ASSUME NEW n \in Namespaces, HandlerStart(n)
        PROVE  /\ UNCHANGED <<objects, wrote>>
               /\ \A m \in todo' \intersect live : m \in snap' <=> m \in optOut
               /\ \A t \in Threads : Agrees(t)'
    <2>1. UNCHANGED <<objects, wrote, snap, todo, cur>>
      BY <1>7 DEF HandlerStart
    <2>2. \/ UNCHANGED pc
          \/ /\ ShouldAudit(conf.mode, n, n \in optOut, EffectivePolicy(n))
             /\ Goes(n, EnsureStart(n))
      BY <1>7, BoundsAssumption DEF HandlerStart, ReadPolicy, ApiFault, TypeOK, bounds
    <2>3. \A t \in Threads :
             /\ Target(t)' = Target(t)
             /\ \/ pc'[t] = pc[t]
                \/ /\ pc'[t] = EnsureStart(n) /\ Target(t) = n
                   /\ ShouldAudit(conf.mode, n, n \in optOut, EffectivePolicy(n))
      BY <2>1, <2>2, Names DEF Goes, TypeOK, Target
    <2>4. ASSUME NEW t \in Threads PROVE Agrees(t)'
      <3>1. CASE pc'[t] = pc[t]
        BY <1>1, <1>2, <1>3, <2>3, <3>1 DEF Agrees
      <3>2. CASE pc'[t] # pc[t]
        <4>1. \/ EnsureStart(n) = "readRole" /\ Desired(n) # "nothing"
              \/ EnsureStart(n) = "deleteBinding" /\ Desired(n) = "nothing"
          <5>1. ShouldAudit(conf.mode, n, n \in optOut, EffectivePolicy(n))
            BY <2>3, <3>2
          <5> QED
            BY <5>1, DecisionAgrees
        <4>2. pc'[t] = EnsureStart(n) /\ Target(t)' = n
          BY <2>3, <3>2
        <4> QED
          BY <1>1, <1>3, <4>1, <4>2 DEF Agrees, EnsurePoints, RevokePoints
      <3> QED
        BY <3>1, <3>2
    <2> QED
      BY <1>2, <2>1, <2>4
  <1>8. ASSUME NEW t \in Threads, Ensure(t) \/ Revoke(t)
        PROVE  /\ UNCHANGED <<objects, wrote>>
               /\ \A m \in todo' \intersect live : m \in snap' <=> m \in optOut
               /\ \A u \in Threads : Agrees(u)'
    <2> DEFINE n == Target(t)
    <2>1. pc[t] \in EnsurePoints \union RevokePoints
      BY <1>8
      DEF Ensure, Revoke, ReadRole, PatchRole, CreateRole, ReadBinding, PatchBinding,
          CreateBinding, CreateInGoneNamespace, DeleteBinding, DeleteRole, At,
          EnsurePoints, RevokePoints
    <2>2. /\ n \in Namespaces /\ Agrees(t)
          /\ n \notin live => ~role[n].there /\ ~binding[n].there
          /\ n \in live /\ pc[t] \in EnsurePoints =>
                /\ role[n] = Role(n) /\ role[n].there
                /\ binding[n] = Binding /\ binding[n].there
          /\ pc[t] \in RevokePoints => role[n] = Absent /\ binding[n] = Absent
      BY <1>2, <2>1, NothingToDo
    <2>3. ~Absent.there
      BY DEF Absent
    <2>4. UNCHANGED <<todo, snap>>
      BY <1>8
      DEF Ensure, Revoke, ReadRole, PatchRole, CreateRole, ReadBinding, PatchBinding,
          CreateBinding, CreateInGoneNamespace, DeleteBinding, DeleteRole
    <2>5. UNCHANGED <<objects, wrote>>
      <3>1. ASSUME ReadRole(t) \/ ReadBinding(t) \/ CreateInGoneNamespace(t) PROVE UNCHANGED <<objects, wrote>>
        BY <3>1 DEF ReadRole, ReadBinding, CreateInGoneNamespace
      <3>2. ASSUME PatchRole(t) \/ PatchBinding(t) PROVE UNCHANGED <<objects, wrote>>
        BY <2>2, <3>2 DEF PatchRole, PatchBinding, At, Agrees, objects
      <3>3. ASSUME CreateRole(t) \/ CreateBinding(t) PROVE UNCHANGED <<objects, wrote>>
        BY <2>2, <3>3 DEF CreateRole, CreateBinding, At, EnsurePoints, objects
      <3>4. ASSUME DeleteBinding(t) \/ DeleteRole(t) PROVE UNCHANGED <<objects, wrote>>
        BY <2>2, <2>3, <3>4 DEF DeleteBinding, DeleteRole, At, RevokePoints, TypeOK, objects
      <3> QED
        BY <1>8, <3>1, <3>2, <3>3, <3>4 DEF Ensure, Revoke
    <2>6. \/ Done(t)
          \/ /\ UNCHANGED cur
             /\ \/ Goes(t, "readBinding") /\ pc[t] \in EnsurePoints
                \/ Goes(t, "deleteRole") /\ pc[t] \in RevokePoints
                \/ n \notin live /\ \E point \in EnsurePoints : Goes(t, point)
      <3>1. CASE ReadRole(t)
        BY <2>2, <3>1 DEF ReadRole, At, RoleMatches, EnsurePoints
      <3>2. CASE PatchRole(t)
        BY <2>2, <3>2 DEF PatchRole, At, EnsurePoints
      <3>3. CASE CreateRole(t)
        BY <3>3 DEF CreateRole, At, EnsurePoints
      <3>4. CASE ReadBinding(t)
        BY <2>2, <3>4 DEF ReadBinding, At, BindingMatches, Binding, EnsurePoints
      <3>5. CASE PatchBinding(t)
        BY <2>2, <3>5 DEF PatchBinding, At, EnsurePoints
      <3>6. CASE CreateBinding(t) \/ CreateInGoneNamespace(t) \/ DeleteRole(t)
        BY <3>6
        DEF CreateBinding, CreateInGoneNamespace, DeleteRole, Raise, NextDelete, RevokeOrder, At
      <3>7. CASE DeleteBinding(t)
        BY <3>7 DEF DeleteBinding, NextDelete, RevokeOrder, At, RevokePoints
      <3> QED
        BY <1>8, <3>1, <3>2, <3>3, <3>4, <3>5, <3>6, <3>7 DEF Ensure, Revoke
    <2>7. ASSUME NEW u \in Threads PROVE Agrees(u)'
      <3>1. CASE Done(t)
        BY <1>1, <1>2, <1>3, <3>1, DoneTargets DEF Agrees, EnsurePoints
      <3>2. CASE ~Done(t)
        <4>1. UNCHANGED cur /\ \E point \in EnsurePoints \union RevokePoints : Goes(t, point)
          BY <2>6, <3>2 DEF EnsurePoints, RevokePoints
        <4>2. Target(u)' = Target(u) /\ (u # t => pc'[u] = pc[u])
          BY <4>1, MoveTargets
        <4>3. \/ pc'[t] = "readBinding" /\ pc[t] \in EnsurePoints
              \/ pc'[t] = "deleteRole" /\ pc[t] \in RevokePoints
              \/ n \notin live
          BY <2>6, <3>2, MoveTargets
        <4>4. CASE u # t
          BY <1>1, <1>2, <1>3, <4>2, <4>4 DEF Agrees
        <4>5. CASE u = t
          BY <1>1, <1>3, <2>2, <4>2, <4>3, <4>5 DEF Agrees, EnsurePoints, RevokePoints
        <4> QED
          BY <4>4, <4>5
      <3> QED
        BY <3>1, <3>2
    <2> QED
      BY <1>2, <2>4, <2>5, <2>7
  <1> QED
    BY <1>1, <1>5, <1>6, <1>7, <1>8

\* Convergence without a lock is kept: the second half of GrantsConverge, for every set of
\* namespaces and every configuration; that a settled state is reached is its first half.
THEOREM SettledStaysSettled == Spec => StaysSettled
  <1>1. ASSUME GrantsInv, [Next]_vars
        PROVE  [Settled /\ Central(conf.mode) /\ UNCHANGED bounds => Settled' /\ wrote' = wrote]_vars
    BY <1>1, NextIsStep, SettledStep DEF GrantsInv
  <1> QED
    BY <1>1, GrantsInvariance, PTL DEF Spec, StaysSettled

\* From a settled state of central mode on, as long as no call fails, nobody edits a
\* namespace and the process runs, grants are as desired and nothing is written.
THEOREM SettledForEver ==
    Spec => [](Settled /\ Central(conf.mode) /\ [][UNCHANGED bounds]_vars =>
                  []InPlace /\ [][wrote' = wrote]_vars)
  <1> DEFINE Now == Settled /\ Central(conf.mode)
             Kept == Now /\ UNCHANGED bounds => Now' /\ wrote' = wrote
  <1>1. Now => InPlace
    BY DEF Settled
  <1>2. ASSUME GrantsInv, [Next]_vars PROVE [Kept]_vars
    <2>1. ASSUME Next, Now, UNCHANGED bounds PROVE Now' /\ wrote' = wrote
      <3>1. TypeOK /\ GoneInv /\ Step
        BY <1>2, <2>1, NextIsStep DEF GrantsInv
      <3>2. conf' = conf
        BY <2>1, <3>1, QuietIsQuiet
      <3> QED
        BY <2>1, <3>1, <3>2, SettledStep
    <2> QED
      BY <1>2, <2>1
  <1>3. UNCHANGED vars /\ Now => Now' /\ wrote' = wrote
    BY DEF vars, objects, Settled, InPlace, AsDesired, Desired, Audited, Role, Binding, Target
  <1>4. Now /\ [Kept]_vars /\ [UNCHANGED bounds]_vars => Now' /\ [wrote' = wrote]_vars
    BY <1>3
  <1>5. Spec => [][Kept]_vars
    BY <1>2, GrantsInvariance, PTL DEF Spec
  <1> QED
    BY <1>1, <1>4, <1>5, PTL
=============================================================================
