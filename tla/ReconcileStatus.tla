-------------------------- MODULE ReconcileStatus --------------------------
(***************************************************************************)
(* What a reconcile pass reports: the entry it makes for each namespace    *)
(* from what the calls of the visit answered, and the status of the        *)
(* cluster-defaults policy that the entries are merged into.  A whole      *)
(* deploy or teardown is one step here, taken or failed; CheckerRollout    *)
(* has its steps.                                                          *)
(***************************************************************************)
EXTENDS NamespacePolicy, FiniteSets

CONSTANTS
    Modes,          \* the configurations the operator may be started with
    MaxFaults, MaxEdits, MaxRestarts    \* bounds, as in CheckerRollout

ASSUME ModesAssumption == Modes \subseteq AllModes /\ Modes # {}

ASSUME BoundsAssumption ==
    MaxFaults \in Nat /\ MaxEdits \in Nat /\ MaxRestarts \in Nat

CentralStates == {"ready", "unavailable", "missing"}

\* An entry says whether the namespace is covered and why; "" is no reason at
\* all, the key is left out.
Reasons == {"", "state unknown", "deploy failed", "teardown failed",
            "checkers disabled", "excluded by label", "excluded", "secret grant failed",
            "central not found", "central unavailable", "audited by central checker"}
Entry(deployed, reason) == [deployed |-> deployed, reason |-> reason]
NoEntry == [none |-> TRUE]

VARIABLES
    live, optOut,   \* the namespaces, and those with the opt-out label
    dep,            \* namespaces that have a checker Deployment
    central,        \* the central checker's Deployment
    status,         \* status[n]: n's entry in the status of cluster-defaults
    mode,           \* checker.mode and checker.enabled of this process
    pc, todo, snap, \* the audit thread, as in CheckerRollout
    seen,           \* central_state of this pass
    report,         \* namespace_status of this pass
    faults, edits, restarts

world == <<live, optOut, central>>
bounds == <<faults, edits, restarts>>
vars == <<world, dep, status, mode, pc, todo, snap, seen, report, bounds>>

Empty == [n \in Namespaces |-> NoEntry]

\* The calls in C fail.
Failing(C) ==
    /\ faults + Cardinality(C) <= MaxFaults
    /\ faults' = faults + Cardinality(C)

---------------------------------------------------------------------------
(* The entry of a namespace                                                *)

\* _not_audited_reason
NotAuditedReason(labelled, policy) ==
    IF ~Enabled(mode) THEN "checkers disabled"
    ELSE IF labelled /\ policy = "selects" THEN "excluded by label"
    ELSE "excluded"

\* _central_namespace_status
CentralEntry(n, policy, grantFailed) ==
    LET labelled == n \in snap
    IN  IF ~ShouldAudit(mode, n, labelled, policy)
          THEN Entry(FALSE, NotAuditedReason(labelled, policy))
        ELSE IF grantFailed THEN Entry(FALSE, "secret grant failed")
        ELSE IF seen = "missing" THEN Entry(FALSE, "central not found")
        ELSE IF seen # "ready" THEN Entry(FALSE, "central unavailable")
        ELSE Entry(TRUE, "audited by central checker")

\* In central mode what becomes of a checker left over from perNamespace mode
\* is overridden by the central checker's state, unless its teardown failed.
Reported(n, policy, grantFailed, entry) ==
    report' = [report EXCEPT ![n] =
        IF Central(mode) THEN CentralEntry(n, policy, grantFailed) ELSE entry]

\* The branches on what should be there and what the probe found.  A deploy or
\* teardown may fail before or after it changed the Deployment; a deploy also
\* fails when the namespace has gone since it was listed.
Operate(n, policy, C) ==
    LET should == ShouldDeploy(mode, n, n \in snap, policy)
        exists == n \in dep
        fails == "operation" \in C
        own(entry) == Reported(n, policy, "grant" \in C, entry)
    IN  \/ /\ should /\ ~exists /\ ~fails /\ n \in live
           /\ dep' = dep \union {n}
           /\ own(Entry(TRUE, ""))
        \/ /\ should /\ ~exists /\ (fails \/ n \notin live)
           /\ dep' \in {dep, dep \union ({n} \intersect live)}
           /\ own(Entry(FALSE, "deploy failed"))
        \/ /\ ~should /\ exists /\ ~fails
           /\ dep' = dep \ {n}
           /\ own(Entry(FALSE, NotAuditedReason(n \in snap, policy)))
        \/ /\ ~should /\ exists /\ fails
           /\ dep' \in {dep, dep \ {n}}
           /\ report' = [report EXCEPT ![n] = Entry(TRUE, "teardown failed")]
        \/ /\ (should <=> exists) /\ ~fails
           /\ UNCHANGED dep
           /\ own(IF should THEN Entry(TRUE, "") ELSE NoEntry)

---------------------------------------------------------------------------
(* The audit thread                                                        *)

\* A variant: what an earlier pass saw is believed.
CentralCached ==
    seen' = (IF seen = "missing" THEN central ELSE seen) /\ UNCHANGED faults

\* _central_checker_state: a read that fails counts as unavailable.
ReadCentral ==
    \/ seen' = central /\ Failing({})
    \/ seen' = "unavailable" /\ Failing({"central"})

\* A pass lists the namespaces and probes the central checker once.  A list
\* that fails ends the pass with nothing to write.
List ==
    /\ pc = "list"
    /\ \/ /\ todo' = live /\ snap' = optOut /\ report' = Empty /\ pc' = "visit"
          /\ IF Central(mode) /\ Enabled(mode)
                THEN ReadCentral
                ELSE seen' = "missing" /\ UNCHANGED faults
       \/ Failing({"list"}) /\ UNCHANGED <<todo, snap, seen, report, pc>>
    /\ UNCHANGED <<world, dep, status, mode, edits, restarts>>

\* One namespace: its policy, its secret grant in central mode, the probe, and
\* the operation that follows from them.  C is the set of calls that fail.
Visit(n) ==
    /\ pc = "visit" /\ n \in todo
    /\ todo' = todo \ {n}
    /\ \E C \in SUBSET {"policy", "grant", "probe", "operation"} :
          /\ Failing(C)
          /\ "grant" \in C => Central(mode)
          /\ \E policy \in IF "policy" \in C THEN FallbackPolicies(n) ELSE {EffectivePolicy(n)} :
                \/ /\ "probe" \in C /\ "operation" \notin C
                   /\ Reported(n, policy, "grant" \in C, Entry(FALSE, "state unknown"))
                   /\ UNCHANGED dep
                \/ "probe" \notin C /\ Operate(n, policy, C)
    /\ UNCHANGED <<world, status, mode, pc, snap, seen, edits, restarts>>

\* An exception that is no ApiException, of the policy read or of the probe,
\* ends the pass; what it has reported so far is lost.
Abort ==
    /\ pc = "visit" /\ todo # {} /\ Failing({"connection"})
    /\ todo' = {} /\ snap' = {} /\ report' = Empty /\ pc' = "list"
    /\ UNCHANGED <<world, dep, status, mode, seen, edits, restarts>>

\* A variant: an entry that is there already wins.
OldEntryWins(old, new) == IF old = NoEntry THEN new ELSE old

\* A variant: a reason that is there stays.
ReasonStays(old, new) ==
    IF new = NoEntry THEN old
    ELSE IF old = NoEntry \/ old.reason = "" THEN new
    ELSE Entry(new.deployed, old.reason)

\* The merge patch of the status: an entry's keys replace the old ones, a key it
\* has not got stays, and so does the entry of a namespace it says nothing of.
Merged(old, new) ==
    IF new = NoEntry THEN old
    ELSE IF new.reason = "" /\ old # NoEntry THEN Entry(new.deployed, old.reason)
    ELSE new

\* Nothing is written when the pass has nothing to report.
Write ==
    /\ pc = "visit" /\ todo = {}
    /\ \/ status' = [n \in Namespaces |-> Merged(status[n], report[n])] /\ UNCHANGED faults
       \/ report # Empty /\ Failing({"write"}) /\ UNCHANGED status
    /\ snap' = {} /\ report' = Empty /\ pc' = "list"
    /\ UNCHANGED <<world, dep, mode, todo, seen, edits, restarts>>

\* A variant: the namespace of the event need not be there any more.
DeploysAnyway(n) ==
    /\ n \notin dep /\ ShouldDeploy(mode, n, FALSE, ClusterPolicy)
    /\ dep' = dep \union {n}
    /\ UNCHANGED <<world, status, mode, pc, todo, snap, seen, report, bounds>>

\* A namespace handler has decided on a checker and deployed it; it reports
\* nothing.
HandlerDeploys(n) ==
    /\ n \in live \ dep
    /\ \/ ShouldDeploy(mode, n, n \in optOut, EffectivePolicy(n)) /\ UNCHANGED faults
       \/ /\ \E policy \in FallbackPolicies(n) : ShouldDeploy(mode, n, n \in optOut, policy)
          /\ Failing({"policy"})
    /\ dep' = dep \union {n}
    /\ UNCHANGED <<world, status, mode, pc, todo, snap, seen, report, edits, restarts>>

---------------------------------------------------------------------------
(* The world around the operator                                           *)

Edit == edits < MaxEdits /\ edits' = edits + 1

CreateNamespace(n) ==
    /\ n \notin live /\ Edit
    /\ live' = live \union {n}
    /\ optOut' \in {optOut, optOut \union {n}}
    /\ UNCHANGED <<central, dep, status, mode, pc, todo, snap, seen, report, faults, restarts>>

DeleteNamespace(n) ==
    /\ n \in live /\ Edit
    /\ live' = live \ {n} /\ optOut' = optOut \ {n} /\ dep' = dep \ {n}
    /\ UNCHANGED <<central, status, mode, pc, todo, snap, seen, report, faults, restarts>>

ToggleLabel(n) ==
    /\ n \in live /\ Edit
    /\ optOut' = IF n \in optOut THEN optOut \ {n} ELSE optOut \union {n}
    /\ UNCHANGED <<live, central, dep, status, mode, pc, todo, snap, seen, report, faults, restarts>>

CentralChanges ==
    /\ Edit /\ central' \in CentralStates \ {central}
    /\ UNCHANGED <<live, optOut, dep, status, mode, pc, todo, snap, seen, report, faults, restarts>>

Restart ==
    /\ restarts < MaxRestarts /\ restarts' = restarts + 1
    /\ mode' \in Modes
    /\ pc' = "list" /\ todo' = {} /\ snap' = {} /\ report' = Empty /\ seen' = "missing"
    /\ UNCHANGED <<world, dep, status, faults, edits>>

---------------------------------------------------------------------------
(* The specification                                                       *)

Init ==
    /\ live \in SUBSET Namespaces /\ optOut \in SUBSET live
    /\ central \in CentralStates
    /\ dep = {} /\ status = Empty
    /\ mode \in Modes
    /\ pc = "list" /\ todo = {} /\ snap = {} /\ report = Empty /\ seen = "missing"
    /\ faults = 0 /\ edits = 0 /\ restarts = 0

AuditThread == List \/ (\E n \in Namespaces : Visit(n)) \/ Abort \/ Write

World ==
    \/ \E n \in Namespaces : CreateNamespace(n) \/ DeleteNamespace(n) \/ ToggleLabel(n)
    \/ CentralChanges
    \/ Restart

Next ==
    \/ AuditThread
    \/ \E n \in Namespaces : HandlerDeploys(n)
    \/ World

Spec == Init /\ [][Next]_vars

\* The audit thread goes on for ever.
FairSpec == Spec /\ WF_vars(AuditThread)

---------------------------------------------------------------------------
(* Properties                                                              *)

Entries == [deployed : BOOLEAN, reason : Reasons] \union {NoEntry}

\* Every variable has its type.
TypeOK ==
    /\ live \subseteq Namespaces /\ optOut \subseteq live /\ dep \subseteq live
    /\ central \in CentralStates /\ seen \in CentralStates
    /\ status \in [Namespaces -> Entries] /\ report \in [Namespaces -> Entries]
    /\ mode \in Modes /\ pc \in {"list", "visit"}
    /\ todo \subseteq Namespaces /\ snap \subseteq Namespaces
    /\ faults \in 0 .. MaxFaults /\ edits \in 0 .. MaxEdits /\ restarts \in 0 .. MaxRestarts

Covered(n) == status[n] # NoEntry /\ status[n].deployed

\* EXCLUDED_NAMESPACES: a namespace under it has no checker of its own and is never
\* reported covered, whatever policy a read answers, a handler decides on, the mode
\* was before the restart or an earlier pass wrote.
ExcludedNeverCovered == \A n \in Excluded : n \notin dep /\ ~Covered(n)

\* Status entries are merged key by key, and one that is deployed may come without a
\* reason: all the same no namespace is ever reported uncovered without a reason, or
\* with one that belongs to a covered namespace.
UncoveredHasReason ==
    \A n \in Namespaces :
        status[n] # NoEntry /\ ~Covered(n) =>
            status[n].reason \notin {"", "teardown failed", "audited by central checker"}

\* What the merges of many passes leave in the status is sound for every namespace.
StatusIsSound == ExcludedNeverCovered /\ UncoveredHasReason

\* A checker that is there is not reported absent: outside central mode, once
\* the world is quiet, every namespace with a Deployment is reported deployed,
\* though handlers deploy without reporting and failed passes report nothing.
CheckersAreReported ==
    <>[](~Central(mode) => \A n \in dep : Covered(n))

\* In central mode the status tells of the central checker: once the world is
\* quiet, exactly the audited namespaces are covered, if it is ready, and no
\* reason from a failure or from another mode is left behind.
CentralStatusSettles ==
    <>[](mode = "central" =>
            \A n \in live :
                LET audited == ShouldAudit(mode, n, n \in optOut, EffectivePolicy(n))
                IN  status[n] =
                      IF ~audited
                        THEN Entry(FALSE, IF n \in optOut /\ EffectivePolicy(n) = "selects"
                                            THEN "excluded by label" ELSE "excluded")
                      ELSE IF central = "ready" THEN Entry(TRUE, "audited by central checker")
                      ELSE Entry(FALSE, IF central = "missing" THEN "central not found"
                                                               ELSE "central unavailable"))
=============================================================================
