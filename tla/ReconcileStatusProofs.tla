------------------------ MODULE ReconcileStatusProofs ------------------------
(***************************************************************************)
(* Proofs about ReconcileStatus for every set of namespaces, every policy  *)
(* and every bound: what the merges of many passes, modes and processes    *)
(* leave in the status is sound for each namespace.                        *)
(***************************************************************************)
EXTENDS ReconcileStatus, FiniteSetTheorems, TLAPS

\* The reasons no uncovered namespace has.
CoveredReasons == {"", "teardown failed", "audited by central checker"}

\* What an entry of n may say, in a report or in the status.
Sound(n, entry) ==
    /\ entry \in Entries
    /\ entry # NoEntry =>
          /\ n \in Excluded => ~entry.deployed
          /\ ~entry.deployed => entry.reason \notin CoveredReasons

\* Nobody excluded by name has a checker, and all entries are sound.
SoundInv ==
    /\ dep \intersect Excluded = {}
    /\ \A n \in Namespaces : Sound(n, status[n]) /\ Sound(n, report[n])

StatusInv == TypeOK /\ SoundInv

---------------------------------------------------------------------------
(* Entries                                                                 *)

\* An entry is none other than its fields.
LEMMA EntryIs ==
    ASSUME NEW deployed \in BOOLEAN, NEW reason \in Reasons
    PROVE  /\ Entry(deployed, reason) \in Entries /\ Entry(deployed, reason) # NoEntry
           /\ Entry(deployed, reason).deployed = deployed /\ Entry(deployed, reason).reason = reason
  <1>1. Entry(deployed, reason) # NoEntry
    <2>1. DOMAIN Entry(deployed, reason) = {"deployed", "reason"} /\ DOMAIN NoEntry = {"none"}
      BY DEF Entry, NoEntry
    <2>2. "none" \notin {"deployed", "reason"}
      OBVIOUS
    <2> QED
      BY <2>1, <2>2
  <1> QED
    BY <1>1 DEF Entry, Entries

\* Nothing is a sound thing to say.
LEMMA NothingIsSound == \A n : Sound(n, NoEntry)
  BY DEF Sound, Entries

\* An uncovered entry is sound if its reason is for one.
LEMMA UncoveredIsSound ==
    ASSUME NEW n, NEW reason \in Reasons \ CoveredReasons
    PROVE  Sound(n, Entry(FALSE, reason))
  BY EntryIs DEF Sound

\* A covered entry is sound for a namespace that is not excluded.
LEMMA CoveredIsSound ==
    ASSUME NEW n, n \notin Excluded, NEW reason \in Reasons
    PROVE  Sound(n, Entry(TRUE, reason))
  BY EntryIs DEF Sound

\* The reason for no audit is one for an uncovered namespace.
LEMMA NotAuditedReasonIs ==
    ASSUME NEW labelled, NEW policy
    PROVE  NotAuditedReason(labelled, policy) \in Reasons \ CoveredReasons
  BY DEF NotAuditedReason, Reasons, CoveredReasons

\* _central_namespace_status: only an audited namespace is covered.
LEMMA CentralEntryIsSound ==
    ASSUME NEW n, NEW policy, NEW grantFailed
    PROVE  Sound(n, CentralEntry(n, policy, grantFailed))
  <1>1. {"secret grant failed", "central not found", "central unavailable"}
           \subseteq Reasons \ CoveredReasons
    BY DEF Reasons, CoveredReasons
  <1>2. CASE ~ShouldAudit(mode, n, n \in snap, policy)
    BY <1>2, NotAuditedReasonIs, UncoveredIsSound DEF CentralEntry
  <1>3. CASE ShouldAudit(mode, n, n \in snap, policy)
    <2>1. n \notin Excluded /\ "audited by central checker" \in Reasons
      BY <1>3 DEF ShouldAudit, Reasons
    <2> QED
      BY <1>1, <1>3, <2>1, UncoveredIsSound, CoveredIsSound DEF CentralEntry
  <1> QED
    BY <1>2, <1>3

\* _write_iap_status: the merge of a sound entry into a sound one is sound.  An entry
\* without a reason is a covered one, so the old reason does not matter.
LEMMA MergeIsSound ==
    ASSUME NEW n, NEW old, NEW new, Sound(n, old), Sound(n, new)
    PROVE  Sound(n, Merged(old, new))
  <1>1. CASE new = NoEntry
    BY <1>1 DEF Merged
  <1>2. CASE new # NoEntry /\ new.reason = "" /\ old # NoEntry
    <2>1. new.deployed = TRUE /\ n \notin Excluded
      BY <1>2 DEF Sound, CoveredReasons, Entries
    <2>2. old.reason \in Reasons
      BY <1>2 DEF Sound, Entries
    <2> QED
      BY <1>2, <2>1, <2>2, CoveredIsSound DEF Merged
  <1>3. CASE new # NoEntry /\ ~(new.reason = "" /\ old # NoEntry)
    BY <1>3 DEF Merged
  <1> QED
    BY <1>1, <1>2, <1>3

---------------------------------------------------------------------------
(* Steps                                                                   *)

Calls == {"policy", "grant", "probe", "operation", "central", "list", "connection", "write"}

\* Failing calls are counted within the bound.
LEMMA FailingBounded ==
    ASSUME TypeOK, NEW C \in SUBSET Calls, Failing(C)
    PROVE  faults' \in 0 .. MaxFaults
  <1>1. IsFiniteSet(Calls)
    <2> DEFINE first == {"policy"} \union {"grant"} \union {"probe"} \union {"operation"}
               second == {"central"} \union {"list"} \union {"connection"} \union {"write"}
    <2>1. \A x : IsFiniteSet({x})
      BY FS_Singleton
    <2>2. \A S, x : IsFiniteSet(S) => IsFiniteSet(S \union {x})
      BY FS_AddElement
    <2>3. IsFiniteSet(first) /\ IsFiniteSet(second)
      BY <2>1, <2>2
    <2>4. Calls = first \union second
      BY DEF Calls
    <2> HIDE DEF first, second
    <2> QED
      BY <2>3, <2>4, FS_Union
  <1>2. Cardinality(C) \in Nat
    BY <1>1, FS_Subset, FS_CardinalityType
  <1> QED
    BY <1>2, BoundsAssumption DEF TypeOK, Failing

\* What is reported of a visited namespace is sound if its own entry is.
LEMMA ReportedIsSound ==
    ASSUME StatusInv, NEW n \in Namespaces, NEW policy, NEW grantFailed, NEW entry,
           Central(mode) \/ Sound(n, entry), Reported(n, policy, grantFailed, entry)
    PROVE  report' \in [Namespaces -> Entries] /\ \A m \in Namespaces : Sound(m, report'[m])
  <1> DEFINE e == IF Central(mode) THEN CentralEntry(n, policy, grantFailed) ELSE entry
  <1>1. Sound(n, e)
    BY CentralEntryIsSound
  <1>2. report' = [report EXCEPT ![n] = e]
    BY DEF Reported
  <1> HIDE DEF e
  <1>3. \A m \in Namespaces : Sound(m, report'[m])
    BY <1>1, <1>2 DEF StatusInv, SoundInv, TypeOK
  <1> QED
    BY <1>1, <1>2, <1>3 DEF StatusInv, TypeOK, Sound

\* The operation of a visit: a checker comes to be only where it should, and each
\* branch reports what fits it.
LEMMA OperateIsSound ==
    ASSUME StatusInv, NEW n \in Namespaces, NEW policy, NEW C, Operate(n, policy, C)
    PROVE  /\ dep' \subseteq live /\ dep' \intersect Excluded = {}
           /\ report' \in [Namespaces -> Entries]
           /\ \A m \in Namespaces : Sound(m, report'[m])
  <1> DEFINE should == ShouldDeploy(mode, n, n \in snap, policy)
             fails == "operation" \in C
             own(entry) == Reported(n, policy, "grant" \in C, entry)
  <1>1. should => n \notin Excluded
    BY DEF ShouldDeploy, ShouldAudit
  <1>2. dep \subseteq live /\ dep \intersect Excluded = {}
    BY DEF StatusInv, TypeOK, SoundInv
  <1>3. "deploy failed" \in Reasons \ CoveredReasons /\ "" \in Reasons /\ "teardown failed" \in Reasons
    BY DEF Reasons, CoveredReasons
  <1>4. CASE should /\ n \notin dep /\ ~fails /\ n \in live
             /\ dep' = dep \union {n} /\ own(Entry(TRUE, ""))
    <2>1. Sound(n, Entry(TRUE, ""))
      BY <1>1, <1>3, <1>4, CoveredIsSound
    <2> QED
      BY <1>1, <1>2, <1>4, <2>1, ReportedIsSound
  <1>5. CASE should /\ dep' \in {dep, dep \union ({n} \intersect live)} /\ own(Entry(FALSE, "deploy failed"))
    <2>1. Sound(n, Entry(FALSE, "deploy failed"))
      BY <1>3, UncoveredIsSound
    <2> QED
      BY <1>1, <1>2, <1>5, <2>1, ReportedIsSound
  <1>6. CASE dep' = dep \ {n} /\ own(Entry(FALSE, NotAuditedReason(n \in snap, policy)))
    <2>1. Sound(n, Entry(FALSE, NotAuditedReason(n \in snap, policy)))
      BY NotAuditedReasonIs, UncoveredIsSound
    <2> QED
      BY <1>2, <1>6, <2>1, ReportedIsSound
  <1>7. CASE n \in dep /\ dep' \in {dep, dep \ {n}}
             /\ report' = [report EXCEPT ![n] = Entry(TRUE, "teardown failed")]
    <2>1. Sound(n, Entry(TRUE, "teardown failed"))
      BY <1>2, <1>3, <1>7, CoveredIsSound
    <2>2. Entry(TRUE, "teardown failed") \in Entries
      BY <1>3, EntryIs
    <2>3. report \in [Namespaces -> Entries] /\ \A m \in Namespaces : Sound(m, report[m])
      BY DEF StatusInv, TypeOK, SoundInv
    <2> QED
      BY <1>2, <1>7, <2>1, <2>2, <2>3
  <1>8. CASE UNCHANGED dep /\ own(IF should THEN Entry(TRUE, "") ELSE NoEntry)
    <2>1. Sound(n, IF should THEN Entry(TRUE, "") ELSE NoEntry)
      BY <1>1, <1>3, CoveredIsSound, NothingIsSound
    <2> QED
      BY <1>2, <1>8, <2>1, ReportedIsSound
  <1> QED
    BY <1>4, <1>5, <1>6, <1>7, <1>8 DEF Operate

\* One namespace visited.
LEMMA VisitKeeps ==
    ASSUME StatusInv, NEW n \in Namespaces, Visit(n)
    PROVE  StatusInv'
  <1>1. PICK C, policy :
          /\ C \in SUBSET {"policy", "grant", "probe", "operation"}
          /\ Failing(C)
          /\ \/ Reported(n, policy, "grant" \in C, Entry(FALSE, "state unknown")) /\ UNCHANGED dep
             \/ Operate(n, policy, C)
    BY DEF Visit
  <1>2. faults' \in 0 .. MaxFaults
    <2>1. C \in SUBSET Calls
      BY <1>1 DEF Calls
    <2> QED
      BY <1>1, <2>1, FailingBounded DEF StatusInv
  <1>3. /\ dep' \subseteq live /\ dep' \intersect Excluded = {}
        /\ report' \in [Namespaces -> Entries] /\ \A m \in Namespaces : Sound(m, report'[m])
    <2>1. CASE Reported(n, policy, "grant" \in C, Entry(FALSE, "state unknown")) /\ UNCHANGED dep
      <3>1. "state unknown" \in Reasons \ CoveredReasons
        BY DEF Reasons, CoveredReasons
      <3>2. Sound(n, Entry(FALSE, "state unknown"))
        BY <3>1, UncoveredIsSound
      <3> QED
        BY <2>1, <3>2, ReportedIsSound DEF StatusInv, TypeOK, SoundInv
    <2>2. CASE Operate(n, policy, C)
      BY <2>2, OperateIsSound
    <2> QED
      BY <1>1, <2>1, <2>2
  <1>4. TypeOK'
    BY <1>2, <1>3 DEF Visit, StatusInv, TypeOK, world
  <1>5. SoundInv'
    BY <1>3 DEF Visit, StatusInv, SoundInv, Sound
  <1> QED
    BY <1>4, <1>5 DEF StatusInv

\* The other steps of the audit thread.
LEMMA AuditKeeps ==
    ASSUME StatusInv, List \/ Abort \/ Write
    PROVE  StatusInv'
  <1>1. Empty \in [Namespaces -> Entries] /\ \A n \in Namespaces : Sound(n, Empty[n])
    BY NothingIsSound DEF Empty, Entries
  <1>2. faults' \in 0 .. MaxFaults
    <2>1. \A C \in {{}, {"central"}, {"list"}, {"connection"}, {"write"}} : C \in SUBSET Calls
      BY DEF Calls
    <2>2. (\E C \in SUBSET Calls : Failing(C)) \/ UNCHANGED faults
      BY <2>1 DEF List, ReadCentral, Abort, Write
    <2> QED
      BY <2>2, FailingBounded DEF StatusInv, TypeOK
  <1>3. seen' \in CentralStates
    BY DEF List, ReadCentral, Abort, Write, StatusInv, TypeOK, CentralStates
  <1>4. report' \in {report, Empty}
    BY DEF List, Abort, Write
  <1>5. /\ status' \in [Namespaces -> Entries]
        /\ \A n \in Namespaces : Sound(n, status'[n])
    <2>1. CASE status' = [n \in Namespaces |-> Merged(status[n], report[n])]
      <3>1. \A n \in Namespaces : Sound(n, Merged(status[n], report[n]))
        BY MergeIsSound DEF StatusInv, SoundInv
      <3>2. \A n \in Namespaces : Merged(status[n], report[n]) \in Entries
        BY <3>1 DEF Sound
      <3> QED
        BY <2>1, <3>1, <3>2
    <2>2. CASE status' = status
      BY <2>2 DEF StatusInv, TypeOK, SoundInv
    <2> QED
      BY <2>1, <2>2 DEF List, Abort, Write
  <1>6. report' \in [Namespaces -> Entries] /\ \A n \in Namespaces : Sound(n, report'[n])
    BY <1>1, <1>4 DEF StatusInv, TypeOK, SoundInv
  <1>7. UNCHANGED <<live, optOut, central, dep, mode, edits, restarts>>
    BY DEF List, Abort, Write, world
  <1>8. pc' \in {"list", "visit"} /\ todo' \subseteq Namespaces /\ snap' \subseteq Namespaces
    BY DEF List, Abort, Write, StatusInv, TypeOK
  <1>9. TypeOK'
    BY <1>2, <1>3, <1>5, <1>6, <1>7, <1>8 DEF StatusInv, TypeOK
  <1>10. SoundInv'
    BY <1>5, <1>6, <1>7 DEF StatusInv, SoundInv, Sound
  <1> QED
    BY <1>9, <1>10 DEF StatusInv

\* A handler deploys where its own decision lets it, and so never for an excluded name.
LEMMA HandlerKeeps ==
    ASSUME StatusInv, NEW n \in Namespaces, HandlerDeploys(n)
    PROVE  StatusInv'
  <1>1. n \notin Excluded /\ n \in live /\ dep' = dep \union {n}
    BY DEF HandlerDeploys, ShouldDeploy, ShouldAudit
  <1>2. faults' \in 0 .. MaxFaults
    <2>1. {"policy"} \in SUBSET Calls
      BY DEF Calls
    <2>2. Failing({"policy"}) \/ UNCHANGED faults
      BY DEF HandlerDeploys
    <2> QED
      BY <2>1, <2>2, FailingBounded DEF StatusInv, TypeOK
  <1>3. TypeOK'
    BY <1>1, <1>2 DEF HandlerDeploys, StatusInv, TypeOK, world
  <1>4. SoundInv'
    BY <1>1 DEF HandlerDeploys, StatusInv, SoundInv, Sound
  <1> QED
    BY <1>3, <1>4 DEF StatusInv

\* Edits of the world and restarts leave the status as it is.
LEMMA WorldKeeps ==
    ASSUME StatusInv, World
    PROVE  StatusInv'
  <1>1. Empty \in [Namespaces -> Entries] /\ \A n \in Namespaces : Sound(n, Empty[n])
    BY NothingIsSound DEF Empty, Entries
  <1>2. edits' \in 0 .. MaxEdits /\ restarts' \in 0 .. MaxRestarts
    BY BoundsAssumption DEF World, CreateNamespace, DeleteNamespace, ToggleLabel, CentralChanges,
          Restart, Edit, StatusInv, TypeOK
  <1>3. live' \subseteq Namespaces /\ optOut' \subseteq live' /\ dep' \subseteq live' /\ dep' \subseteq dep
    BY DEF World, CreateNamespace, DeleteNamespace, ToggleLabel, CentralChanges, Restart,
          world, StatusInv, TypeOK
  <1>4. report' \in {report, Empty} /\ status' = status /\ faults' = faults
    BY DEF World, CreateNamespace, DeleteNamespace, ToggleLabel, CentralChanges, Restart
  <1>5. report' \in [Namespaces -> Entries] /\ \A n \in Namespaces : Sound(n, report'[n])
    BY <1>1, <1>4 DEF StatusInv, TypeOK, SoundInv
  <1>6. /\ central' \in CentralStates /\ seen' \in CentralStates /\ mode' \in Modes
        /\ pc' \in {"list", "visit"} /\ todo' \subseteq Namespaces /\ snap' \subseteq Namespaces
    BY DEF World, CreateNamespace, DeleteNamespace, ToggleLabel, CentralChanges, Restart,
          world, StatusInv, TypeOK, CentralStates
  <1>7. TypeOK'
    BY <1>2, <1>3, <1>4, <1>5, <1>6 DEF StatusInv, TypeOK
  <1>8. SoundInv'
    BY <1>3, <1>4, <1>5 DEF StatusInv, SoundInv, Sound
  <1> QED
    BY <1>7, <1>8 DEF StatusInv

---------------------------------------------------------------------------
(* Theorems                                                                *)

\* The invariant holds throughout.
THEOREM StatusInvariance == Spec => []StatusInv
  <1>1. Init => StatusInv
    <2> SUFFICES ASSUME Init PROVE StatusInv
      OBVIOUS
    <2>1. Empty \in [Namespaces -> Entries] /\ \A n \in Namespaces : Sound(n, Empty[n])
      BY NothingIsSound DEF Empty, Entries
    <2>2. TypeOK
      BY <2>1, BoundsAssumption DEF Init, TypeOK, CentralStates
    <2> QED
      BY <2>1, <2>2 DEF Init, StatusInv, SoundInv
  <1>2. StatusInv /\ [Next]_vars => StatusInv'
    <2> SUFFICES ASSUME StatusInv, [Next]_vars PROVE StatusInv'
      OBVIOUS
    <2>1. CASE UNCHANGED vars
      BY <2>1 DEF vars, world, bounds, StatusInv, TypeOK, SoundInv, Sound
    <2>2. CASE AuditThread
      BY <2>2, AuditKeeps, VisitKeeps DEF AuditThread
    <2>3. CASE \E n \in Namespaces : HandlerDeploys(n)
      BY <2>3, HandlerKeeps
    <2>4. CASE World
      BY <2>4, WorldKeeps
    <2> QED
      BY <2>1, <2>2, <2>3, <2>4 DEF Next
  <1> QED
    BY <1>1, <1>2, PTL DEF Spec

\* Every variable keeps its type, and a checker is only where its namespace is.
THEOREM StatusTypeCorrect == Spec => []TypeOK
  <1>1. StatusInv => TypeOK
    BY DEF StatusInv
  <1> QED
    BY <1>1, StatusInvariance, PTL

\* A namespace under EXCLUDED_NAMESPACES is never reported covered, whatever its
\* policy reads answered in this or an earlier pass, and the merge patches of any
\* number of passes never leave a namespace uncovered without a reason of its own.
THEOREM MergesStaySound == Spec => []StatusIsSound
  <1>1. StatusInv => ExcludedNeverCovered
    BY PolicyAssumption DEF StatusInv, SoundInv, Sound, ExcludedNeverCovered, Covered
  <1>2. StatusInv => UncoveredHasReason
    BY DEF StatusInv, SoundInv, Sound, UncoveredHasReason, Covered, CoveredReasons
  <1> QED
    BY <1>1, <1>2, StatusInvariance, PTL DEF StatusIsSound
=============================================================================
