--------------------------- MODULE CentralGrants ---------------------------
(***************************************************************************)
(* Central mode: the Role and RoleBinding through which the one central    *)
(* checker may read the pull secrets of each audited namespace.  The audit *)
(* thread's reconcile pass and the namespace handlers converge them with   *)
(* no lock, each call a step of its own.                                   *)
(***************************************************************************)
EXTENDS NamespacePolicy

CONSTANTS
    Audit, None,
    Configs,        \* the configurations a process may start with
    MaxFaults, MaxEdits, MaxRestarts    \* bounds, as in CheckerRollout

\* What get_secret_names_for_namespace yields: every secret, some names, none.
Scopes == {"all", "some", "nothing"}

\* A configuration is a mode, a scope for each namespace, the release's labels
\* and the central checker's ServiceAccount.
Config == [mode : AllModes, scope : [Namespaces -> Scopes], labels : Nat, account : Nat]

ASSUME NamesAssumption ==
    /\ Audit \notin Namespaces
    /\ None \notin Namespaces \union {Audit}

ASSUME ConfigsAssumption == Configs \subseteq Config /\ Configs # {}

ASSUME BoundsAssumption ==
    MaxFaults \in Nat /\ MaxEdits \in Nat /\ MaxRestarts \in Nat

Threads == Namespaces \union {Audit}

VARIABLES
    live, optOut,       \* the namespaces, and those with the opt-out label
    role,               \* role[n]: the Role kubeic-checker-central in n
    binding,            \* binding[n]: the RoleBinding of that name
    conf,               \* the configuration of this process
    pc, todo, snap, cur, pending,   \* as in CheckerRollout
    \* observation only: the first two flip when it happens
    wrote,              \* a write reached the API server
    failed,             \* a failure was recorded, or raised to kopf
    met,                \* the threads whose work another's crossed, see Observe
    faults, edits, restarts

objects == <<role, binding>>
bounds == <<faults, edits, restarts>>
vars == <<live, optOut, objects, conf, pc, todo, snap, cur, pending, wrote, failed, met, bounds>>

Absent == [there |-> FALSE]
Role(n) == [there |-> TRUE, scope |-> conf.scope[n], labels |-> conf.labels]
Binding == [there |-> TRUE, account |-> conf.account, labels |-> conf.labels]

EnsurePoints == {"readRole", "patchRole", "createRole",
                 "readBinding", "patchBinding", "createBinding"}
RevokePoints == {"deleteBinding", "deleteRole"}

Target(t) == IF t = Audit THEN cur ELSE t
At(t, point) == pc[t] = point
Goes(t, point) == pc' = [pc EXCEPT ![t] = point]

\* A variant: the namespace of the visit is kept.
DoneKeepingTarget(t) ==
    Goes(t, IF t = Audit THEN "visit" ELSE "idle") /\ UNCHANGED cur

\* The thread is done with its namespace.
Done(t) ==
    /\ Goes(t, IF t = Audit THEN "visit" ELSE "idle")
    /\ cur' = IF t = Audit THEN None ELSE cur

ApiFault == faults < MaxFaults /\ faults' = faults + 1
NoFault == UNCHANGED faults

\* An ApiException that escapes: reconcile records it and goes on with the next
\* namespace, a handler fails and kopf may run it again.
Raise(t) ==
    /\ Done(t)
    /\ failed' = 1 - failed
    /\ pending' \in {pending, pending \union ({t} \intersect live)}

ReadPolicy(n, policy) ==
    \/ policy = EffectivePolicy(n) /\ NoFault
    \/ policy \in FallbackPolicies(n) /\ ApiFault

\* A variant: the Role goes first.
RoleGoesFirst == <<"deleteRole", "deleteBinding">>

\* The order in which teardown_central_secret_access deletes.
RevokeOrder == <<"deleteBinding", "deleteRole">>

\* Where ensure_central_secret_access starts: without secret access the grant
\* is revoked instead.
EnsureStart(n) == IF conf.scope[n] = "nothing" THEN RevokeOrder[1] ELSE "readRole"

---------------------------------------------------------------------------
(* Who meets whom: observed by every step, read by none                    *)

\* A thread is at work between the first call of a grant or revocation and its end.
AtWork(t) == pc[t] \in EnsurePoints \union RevokePoints

\* One grants in the namespace where another revokes.
Meets(t) ==
    \E u \in Threads :
        /\ Target(u) = Target(t)
        /\ \/ pc[t] \in EnsurePoints /\ pc[u] \in RevokePoints
           \/ pc[t] \in RevokePoints /\ pc[u] \in EnsurePoints

\* Until its work is done it is remembered of a thread that it met an opposite one, or
\* that its namespace was deleted while it granted.
Observe ==
    met' = {t \in Threads :
              \/ Meets(t)'
              \/ t \in met /\ AtWork(t)'
              \/ pc'[t] \in EnsurePoints /\ Target(t) \in live \ live'}

---------------------------------------------------------------------------
(* The threads decide                                                      *)

List ==
    /\ At(Audit, "list")
    /\ \/ todo' = live /\ snap' = optOut /\ Goes(Audit, "visit") /\ NoFault
       \/ ApiFault /\ UNCHANGED <<todo, snap, pc>>
    /\ UNCHANGED <<live, optOut, objects, conf, cur, pending, wrote, failed, edits, restarts>>
    /\ Observe

\* Reconcile grants access to an audited namespace and revokes it elsewhere,
\* in central mode; otherwise it looks at no grant.
Visit(n) ==
    /\ At(Audit, "visit") /\ n \in todo
    /\ todo' = todo \ {n}
    /\ \E policy \in Policies :
          /\ ReadPolicy(n, policy)
          /\ \/ /\ Central(conf.mode) /\ cur' = n
                /\ Goes(Audit, IF ShouldAudit(conf.mode, n, n \in snap, policy)
                                  THEN EnsureStart(n) ELSE RevokeOrder[1])
             \/ ~Central(conf.mode) /\ UNCHANGED <<cur, pc>>
    /\ UNCHANGED <<live, optOut, objects, conf, snap, pending, wrote, failed, edits, restarts>>
    /\ Observe

\* The pass is over, or an exception that is no ApiException escaped it.
EndPass ==
    /\ At(Audit, "visit")
    /\ \/ todo = {} /\ NoFault
       \/ todo # {} /\ ApiFault
    /\ todo' = {} /\ snap' = {} /\ Goes(Audit, "list")
    /\ UNCHANGED <<live, optOut, objects, conf, cur, pending, wrote, failed, edits, restarts>>
    /\ Observe

\* on_namespace_create binds an audited namespace at once in central mode.
HandlerStart(n) ==
    /\ At(n, "idle") /\ n \in pending
    /\ pending' = pending \ {n}
    /\ \/ \E policy \in Policies :
             /\ ReadPolicy(n, policy)
             /\ IF Central(conf.mode) /\ ShouldAudit(conf.mode, n, n \in optOut, policy)
                   THEN Goes(n, EnsureStart(n))
                   ELSE UNCHANGED pc
       \/ ApiFault /\ UNCHANGED pc
    /\ UNCHANGED <<live, optOut, objects, conf, todo, snap, cur, wrote, failed, edits, restarts>>
    /\ Observe

---------------------------------------------------------------------------
(* ensure_central_secret_access                                            *)

\* A variant: only the labels are compared.
LabelsMatch(n) == role[n].there /\ role[n].labels = conf.labels

\* The Role is right: every desired rule and label is there.
RoleMatches(n) == role[n] = Role(n)

\* Only the labels of the binding are compared.
BindingMatches(n) == binding[n].there /\ binding[n].labels = conf.labels

\* A variant: the Role is patched whether or not it drifted.
AlwaysPatch(t) ==
    /\ At(t, "readRole")
    /\ Goes(t, IF role[Target(t)].there THEN "patchRole" ELSE "createRole")
    /\ UNCHANGED <<live, optOut, objects, conf, todo, snap, cur, pending, wrote, failed, bounds>>
    /\ Observe

\* A read of the Role or the RoleBinding decides on a write, or on none.
ReadRole(t) ==
    LET n == Target(t)
    IN  /\ At(t, "readRole")
        /\ \/ ~role[n].there /\ Goes(t, "createRole") /\ NoFault
           \/ role[n].there /\ ~RoleMatches(n) /\ Goes(t, "patchRole") /\ NoFault
           \/ RoleMatches(n) /\ Goes(t, "readBinding") /\ NoFault
        /\ UNCHANGED <<live, optOut, objects, conf, todo, snap, cur, pending, wrote, failed,
                       edits, restarts>>
        /\ Observe

ReadBinding(t) ==
    LET n == Target(t)
    IN  /\ At(t, "readBinding")
        /\ \/ ~binding[n].there /\ Goes(t, "createBinding") /\ UNCHANGED cur
           \/ binding[n].there /\ ~BindingMatches(n) /\ Goes(t, "patchBinding") /\ UNCHANGED cur
           \/ BindingMatches(n) /\ Done(t)
        /\ UNCHANGED <<live, optOut, objects, conf, todo, snap, pending, wrote, failed, bounds>>
        /\ Observe

\* A patch answered with 404 falls into the same handler as a read so answered:
\* the object is created.
PatchRole(t) ==
    LET n == Target(t)
    IN  /\ At(t, "patchRole")
        /\ \/ /\ role[n].there
              /\ role' = [role EXCEPT ![n] = Role(n)] /\ wrote' = 1 - wrote
              /\ Goes(t, "readBinding")
           \/ ~role[n].there /\ Goes(t, "createRole") /\ UNCHANGED <<role, wrote>>
        /\ UNCHANGED <<live, optOut, binding, conf, todo, snap, cur, pending, failed, bounds>>
        /\ Observe

PatchBinding(t) ==
    LET n == Target(t)
    IN  /\ At(t, "patchBinding")
        /\ \/ /\ binding[n].there
              /\ binding' = [binding EXCEPT ![n] = Binding] /\ wrote' = 1 - wrote
              /\ Done(t)
           \/ /\ ~binding[n].there /\ Goes(t, "createBinding")
              /\ UNCHANGED <<binding, cur, wrote>>
        /\ UNCHANGED <<live, optOut, role, conf, todo, snap, pending, failed, bounds>>
        /\ Observe

\* A variant: 409 is an error like any other.
ConflictRaises(t) ==
    LET n == Target(t)
    IN  /\ At(t, "createRole") /\ n \in live
        /\ \/ role[n].there /\ Raise(t) /\ UNCHANGED <<role, wrote>>
           \/ /\ ~role[n].there
              /\ role' = [role EXCEPT ![n] = Role(n)] /\ wrote' = 1 - wrote
              /\ Goes(t, "readBinding")
              /\ UNCHANGED <<cur, pending, failed>>
        /\ UNCHANGED <<live, optOut, binding, conf, todo, snap, bounds>>
        /\ Observe

\* A create answered with 409 means another caller created it: that is as good.
\* In a namespace that is gone it raises.
CreateRole(t) ==
    LET n == Target(t)
    IN  /\ At(t, "createRole") /\ n \in live
        /\ IF role[n].there
              THEN UNCHANGED <<role, wrote>>
              ELSE role' = [role EXCEPT ![n] = Role(n)] /\ wrote' = 1 - wrote
        /\ Goes(t, "readBinding")
        /\ UNCHANGED <<live, optOut, binding, conf, todo, snap, cur, pending, failed, bounds>>
        /\ Observe

CreateBinding(t) ==
    LET n == Target(t)
    IN  /\ At(t, "createBinding") /\ n \in live
        /\ IF binding[n].there
              THEN UNCHANGED <<binding, wrote>>
              ELSE binding' = [binding EXCEPT ![n] = Binding] /\ wrote' = 1 - wrote
        /\ Done(t)
        /\ UNCHANGED <<live, optOut, role, conf, todo, snap, pending, failed, bounds>>
        /\ Observe

CreateInGoneNamespace(t) ==
    /\ pc[t] \in {"createRole", "createBinding"} /\ Target(t) \notin live
    /\ Raise(t)
    /\ UNCHANGED <<live, optOut, objects, conf, todo, snap, wrote, bounds>>
    /\ Observe

---------------------------------------------------------------------------
(* teardown_central_secret_access: 404 is passed over                      *)

\* On to the second deletion, or done after it.
NextDelete(t) ==
    IF At(t, RevokeOrder[1]) THEN Goes(t, RevokeOrder[2]) /\ UNCHANGED cur ELSE Done(t)

DeleteBinding(t) ==
    LET n == Target(t)
    IN  /\ At(t, "deleteBinding")
        /\ binding' = [binding EXCEPT ![n] = Absent]
        /\ wrote' = IF binding[n].there THEN 1 - wrote ELSE wrote
        /\ NextDelete(t)
        /\ UNCHANGED <<live, optOut, role, conf, todo, snap, pending, failed, bounds>>
        /\ Observe

DeleteRole(t) ==
    LET n == Target(t)
    IN  /\ At(t, "deleteRole")
        /\ role' = [role EXCEPT ![n] = Absent]
        /\ wrote' = IF role[n].there THEN 1 - wrote ELSE wrote
        /\ NextDelete(t)
        /\ UNCHANGED <<live, optOut, binding, conf, todo, snap, pending, failed, bounds>>
        /\ Observe

\* Any call of either function that fails ends it.  A write that fails after it
\* took effect is that write, and then the failure of the next call.
CallFails(t) ==
    /\ pc[t] \in EnsurePoints \union RevokePoints /\ ApiFault
    /\ Raise(t)
    /\ UNCHANGED <<live, optOut, objects, conf, todo, snap, wrote, edits, restarts>>
    /\ Observe

---------------------------------------------------------------------------
(* The world around the operator                                           *)

CreateNamespace(n) ==
    /\ n \notin live /\ edits < MaxEdits
    /\ live' = live \union {n}
    /\ optOut' \in {optOut, optOut \union {n}}
    /\ pending' = pending \union {n}
    /\ edits' = edits + 1
    /\ UNCHANGED <<objects, conf, pc, todo, snap, cur, wrote, failed, faults, restarts>>
    /\ Observe

DeleteNamespace(n) ==
    /\ n \in live /\ edits < MaxEdits
    /\ live' = live \ {n} /\ optOut' = optOut \ {n} /\ pending' = pending \ {n}
    /\ role' = [role EXCEPT ![n] = Absent] /\ binding' = [binding EXCEPT ![n] = Absent]
    /\ edits' = edits + 1
    /\ UNCHANGED <<conf, pc, todo, snap, cur, wrote, failed, faults, restarts>>
    /\ Observe

ToggleLabel(n) ==
    /\ n \in live /\ edits < MaxEdits
    /\ optOut' = IF n \in optOut THEN optOut \ {n} ELSE optOut \union {n}
    /\ pending' \in {pending, pending \union {n}}
    /\ edits' = edits + 1
    /\ UNCHANGED <<live, objects, conf, pc, todo, snap, cur, wrote, failed, faults, restarts>>
    /\ Observe

\* Another process starts, perhaps with another configuration.
Restart ==
    /\ restarts < MaxRestarts /\ restarts' = restarts + 1
    /\ conf' \in Configs
    /\ pc' = [t \in Threads |-> IF t = Audit THEN "list" ELSE "idle"]
    /\ todo' = {} /\ snap' = {} /\ cur' = None /\ pending' = live
    /\ UNCHANGED <<live, optOut, objects, wrote, failed, faults, edits>>
    /\ Observe

---------------------------------------------------------------------------
(* The specification                                                       *)

Init ==
    /\ live \in SUBSET Namespaces /\ optOut \in SUBSET live
    /\ role = [n \in Namespaces |-> Absent] /\ binding = [n \in Namespaces |-> Absent]
    /\ conf \in Configs
    /\ pc = [t \in Threads |-> IF t = Audit THEN "list" ELSE "idle"]
    /\ todo = {} /\ snap = {} /\ cur = None /\ pending = live
    /\ wrote = 0 /\ failed = 0 /\ met = {}
    /\ faults = 0 /\ edits = 0 /\ restarts = 0

Ensure(t) ==
    \/ ReadRole(t) \/ PatchRole(t) \/ CreateRole(t)
    \/ ReadBinding(t) \/ PatchBinding(t) \/ CreateBinding(t)
    \/ CreateInGoneNamespace(t)

Revoke(t) == DeleteBinding(t) \/ DeleteRole(t)

Calls(t) == Ensure(t) \/ Revoke(t) \/ CallFails(t)

AuditThread ==
    \/ List
    \/ \E n \in Namespaces : Visit(n)
    \/ EndPass
    \/ Calls(Audit)

World ==
    \/ \E n \in Namespaces : CreateNamespace(n) \/ DeleteNamespace(n) \/ ToggleLabel(n)
    \/ Restart

Next ==
    \/ AuditThread
    \/ \E n \in Namespaces : HandlerStart(n) \/ Calls(n)
    \/ World

Spec == Init /\ [][Next]_vars

\* A thread that has begun goes on; nothing is assumed of the world.
Fairness == WF_vars(AuditThread) /\ \A n \in Namespaces : WF_vars(Calls(n))

FairSpec == Spec /\ Fairness

---------------------------------------------------------------------------
(* Properties                                                              *)

Grants == [there : BOOLEAN, scope : Scopes, labels : Nat]
Bindings == [there : BOOLEAN, account : Nat, labels : Nat]

\* Every variable has its type.
TypeOK ==
    /\ live \subseteq Namespaces /\ optOut \subseteq live /\ pending \subseteq live
    /\ role \in [Namespaces -> Grants \union {Absent}]
    /\ binding \in [Namespaces -> Bindings \union {Absent}]
    /\ conf \in Configs
    /\ pc \in [Threads -> EnsurePoints \union RevokePoints \union {"list", "visit", "idle"}]
    /\ todo \subseteq Namespaces /\ snap \subseteq Namespaces
    /\ cur \in Namespaces \union {None}
    /\ pc[Audit] \in {"list", "visit"} <=> cur = None
    /\ wrote \in 0 .. 1 /\ failed \in 0 .. 1 /\ met \subseteq Threads
    /\ faults \in 0 .. MaxFaults /\ edits \in 0 .. MaxEdits /\ restarts \in 0 .. MaxRestarts

Audited(n) == ShouldAudit(conf.mode, n, n \in optOut, EffectivePolicy(n))

\* What the central checker should be able to read in n.
Desired(n) == IF Audited(n) THEN conf.scope[n] ELSE "nothing"

AsDesired(n) ==
    IF Desired(n) = "nothing"
       THEN role[n] = Absent /\ binding[n] = Absent
       ELSE role[n] = Role(n) /\ binding[n] = Binding

InPlace == \A n \in live : AsDesired(n)

\* Grants converge, however handlers and reconcile interleave with no lock: in
\* central mode, once the world is quiet, every namespace's Role names the
\* secrets configured for it and is bound to the checker, and a namespace that is
\* not audited or has no secret access keeps neither object.  (For configurations
\* with one ServiceAccount: another's name does not reach a binding that is there.)
\* From then on passes go on reading and write nothing, for a write is made on drift only.
GrantsConverge ==
    <>[](Central(conf.mode) => InPlace) /\ <>[][wrote' = wrote]_vars

\* Grants are as desired, and what the threads have decided agrees: the labels that were
\* listed are the present ones, who grants or revokes does what is desired, and no patch
\* is under way.
Settled ==
    /\ InPlace
    /\ \A n \in todo \intersect live : n \in snap <=> n \in optOut
    /\ \A t \in Threads : Target(t) \in live =>
          /\ pc[t] \in EnsurePoints \ {"patchRole", "patchBinding"} => Desired(Target(t)) # "nothing"
          /\ pc[t] \in RevokePoints => Desired(Target(t)) = "nothing"
          /\ pc[t] \notin {"patchRole", "patchBinding"}

\* Reconcile and handlers go on with no lock and do nothing to grants that are settled:
\* until a call fails, a namespace is edited or the process ends, they stay settled and
\* nothing is written, whoever meets whom.
StaysSettled ==
    [][Settled /\ Central(conf.mode) /\ UNCHANGED bounds => Settled' /\ wrote' = wrote]_vars

\* Two callers that meet in one namespace do each other no harm: a failure is
\* recorded only where a call failed or the namespace is gone, never because
\* the other one was first.
FailuresAreReal ==
    [][failed' # failed =>
          \/ faults' # faults
          \/ \E t \in Threads : pc'[t] # pc[t] /\ Target(t) \in Namespaces \ live]_vars

Dangling(n) == binding[n].there /\ ~role[n].there

\* The binding is created after the Role and deleted before it, so that whatever call
\* fails, whatever is edited and whenever the process ends, no step leaves a binding that
\* points at nothing, with one exception, for nothing is locked: a step of a thread that
\* met one of opposite intent since it began, or granted while its namespace was deleted.
NoDanglingBinding ==
    [][\A n \in Namespaces : Dangling(n)' /\ ~Dangling(n) =>
          \E t \in met : Target(t) = n /\ pc'[t] # pc[t]]_vars
=============================================================================
