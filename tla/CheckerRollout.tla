--------------------------- MODULE CheckerRollout ---------------------------
(***************************************************************************)
(* The rollout of per-namespace checkers: the operator's audit thread      *)
(* (bootstrap, then one reconcile pass after another) and the kopf         *)
(* namespace handlers, which deploy and tear down checkers under one       *)
(* rollout lock, against an API server whose calls may fail and a cluster  *)
(* whose namespaces come, go and change their opt-out label.               *)
(*                                                                         *)
(* One step is one call that changes the cluster, or one decision taken    *)
(* from what was read before.  A failing call may or may not have taken    *)
(* effect.  Sleeps, wording and metrics are left out.                      *)
(***************************************************************************)
EXTENDS NamespacePolicy, Sequences

\* Each namespace also names its handler's thread.
CONSTANTS
    Audit,          \* the audit thread
    None,           \* "nobody" holds the lock; "no namespace" is being visited
    Modes,          \* the configurations the operator may be started with
    MaxFaults,      \* bound: failing API calls
    MaxEdits,       \* bound: namespaces created, deleted or relabelled
    MaxRestarts,    \* bound: crashes and upgrades of the operator
    MaxTrouble      \* bound: all of these together

ASSUME NamesAssumption ==
    /\ Audit \notin Namespaces
    /\ None \notin Namespaces \union {Audit}

ASSUME ModesAssumption == Modes \subseteq AllModes /\ Modes # {}

ASSUME BoundsAssumption ==
    /\ MaxFaults \in Nat /\ MaxEdits \in Nat /\ MaxRestarts \in Nat
    /\ MaxTrouble \in Nat

Threads == Namespaces \union {Audit}

\* The five objects of a checker, in the order deploy_checker writes them and
\* the order teardown_checker deletes them.
Kinds == {"sa", "role", "rb", "svc", "dep"}
DeployOrder == <<"sa", "role", "rb", "svc", "dep">>
TeardownOrder == <<"dep", "svc", "rb", "role", "sa">>

VARIABLES
    \* the cluster
    live,       \* the namespaces that exist
    optOut,     \* the live namespaces that carry the opt-out label
    objs,       \* objs[n]: the checker's objects in n
    tmpl,       \* tmpl[n]: revision of n's checker pod template, 0 when absent
    rolling,    \* the namespaces whose checker Deployment is mid-rollout
    \* the operator process
    mode,       \* checker.enabled and checker.mode of this process
    rev,        \* the pod template revision this process deploys
    lock,       \* _rollout_lock
    pc,         \* where each thread stands
    at,         \* the thread's position in DeployOrder or TeardownOrder
    phase,      \* the audit thread is in _bootstrap_checkers or reconciling
    todo,       \* namespaces of the list still to be visited in this pass
    snap,       \* those of them that carried the label when they were listed
    cur,        \* the namespace the audit thread visits
    pending,    \* namespaces kopf still has a create cause for
    \* observation only: no guard of the operator reads these
    gaveUp,     \* rolling namespaces nobody waits for any more
    cut,        \* namespaces whose last operation did not run to its end
    \* bounds
    faults, edits, restarts

cluster == <<live, optOut, objs, tmpl, rolling>>
process == <<mode, rev, lock, pc, at, phase, todo, snap, cur, pending>>
ghosts == <<gaveUp, cut>>
bounds == <<faults, edits, restarts>>
vars == <<cluster, process, ghosts, bounds>>

AuditPoints == {"list", "visit", "awaitDeploy", "awaitTeardown",
                "deploy", "wait", "teardown"}
HandlerPoints == {"idle", "try", "deploy", "wait"}
Critical == {"deploy", "wait", "teardown"}

\* The namespace a thread works on.
Target(t) == IF t = Audit THEN cur ELSE t

---------------------------------------------------------------------------
(* Reading a policy, failing calls                                         *)

Bounded == faults + edits + restarts < MaxTrouble

ApiFault == Bounded /\ faults < MaxFaults /\ faults' = faults + 1
Edit == Bounded /\ edits < MaxEdits /\ edits' = edits + 1

\* A read of the policy that succeeds, or one that fails and falls back.
ReadPolicy(n, policy) ==
    \/ policy = EffectivePolicy(n) /\ UNCHANGED faults
    \/ policy \in FallbackPolicies(n) /\ ApiFault

---------------------------------------------------------------------------
(* The audit thread: bootstrap, then reconcile passes for ever             *)

AuditGoes(point) == pc' = [pc EXCEPT ![Audit] = point]

\* Bootstrap lists the namespaces, unless there is nothing to bootstrap or the
\* list fails; then reconcile begins.
BootList ==
    /\ pc[Audit] = "list" /\ phase = "boot"
    /\ \/ /\ Enabled(mode) /\ ~Central(mode)
          /\ todo' = live /\ snap' = optOut
          /\ AuditGoes("visit")
          /\ UNCHANGED <<phase, faults>>
       \/ /\ ~Enabled(mode) \/ Central(mode)
          /\ phase' = "reconcile"
          /\ UNCHANGED <<todo, snap, pc, faults>>
       \/ /\ Enabled(mode) /\ ~Central(mode) /\ ApiFault
          /\ phase' = "reconcile"
          /\ UNCHANGED <<todo, snap, pc>>
    /\ UNCHANGED <<cluster, mode, rev, lock, at, cur, pending, ghosts, edits, restarts>>

\* A variant: the labels of an earlier pass are used.
LabelsCached ==
    /\ pc[Audit] = "list" /\ phase = "reconcile"
    /\ todo' = live /\ AuditGoes("visit")
    /\ UNCHANGED <<cluster, mode, rev, lock, at, phase, snap, cur, pending, ghosts, bounds>>

\* A reconcile pass lists the namespaces; a list that fails ends the pass.
ReconcileList ==
    /\ pc[Audit] = "list" /\ phase = "reconcile"
    /\ \/ /\ todo' = live /\ snap' = optOut
          /\ AuditGoes("visit")
          /\ UNCHANGED faults
       \/ /\ ApiFault
          /\ UNCHANGED <<todo, snap, pc>>
    /\ UNCHANGED <<cluster, mode, rev, lock, at, phase, cur, pending, ghosts, edits, restarts>>

\* A variant: bootstrap leaves a checker alone that is already there.
BootOnlyMissing(n) ==
    /\ pc[Audit] = "visit" /\ phase = "boot" /\ n \in todo
    /\ todo' = todo \ {n}
    /\ IF ShouldDeploy(mode, n, n \in snap, EffectivePolicy(n)) /\ "dep" \notin objs[n]
          THEN cur' = n /\ AuditGoes("awaitDeploy")
          ELSE UNCHANGED <<cur, pc>>
    /\ UNCHANGED <<cluster, mode, rev, lock, at, phase, snap, pending, ghosts, bounds>>

\* Bootstrap decides on n from the listed labels and the policy read now, and
\* deploys whether or not a checker is there: the template may be an old one.
BootVisit(n) ==
    /\ pc[Audit] = "visit" /\ phase = "boot" /\ n \in todo
    /\ todo' = todo \ {n}
    /\ \E policy \in Policies :
          /\ ReadPolicy(n, policy)
          /\ IF ShouldDeploy(mode, n, n \in snap, policy)
                THEN cur' = n /\ AuditGoes("awaitDeploy")
                ELSE UNCHANGED <<cur, pc>>
    /\ UNCHANGED <<cluster, mode, rev, lock, at, phase, snap, pending, ghosts, edits, restarts>>

\* A reconcile pass decides on n and probes for its Deployment.  A probe that
\* fails skips n; the operation waits for the lock after this decision.
ReconcileVisit(n) ==
    /\ pc[Audit] = "visit" /\ phase = "reconcile" /\ n \in todo
    /\ todo' = todo \ {n}
    /\ \/ \E policy \in Policies :
             /\ ReadPolicy(n, policy)
             /\ LET should == ShouldDeploy(mode, n, n \in snap, policy)
                    exists == "dep" \in objs[n]
                IN  \/ should /\ ~exists /\ cur' = n /\ AuditGoes("awaitDeploy")
                    \/ ~should /\ exists /\ cur' = n /\ AuditGoes("awaitTeardown")
                    \/ (should <=> exists) /\ UNCHANGED <<cur, pc>>
       \/ ApiFault /\ UNCHANGED <<cur, pc>>
    /\ UNCHANGED <<cluster, mode, rev, lock, at, phase, snap, pending, ghosts, edits, restarts>>

\* The pass is over, or an exception that is no ApiException escaped the loop
\* over the namespaces; either way the next pass follows.
EndPass ==
    /\ pc[Audit] = "visit"
    /\ \/ todo = {} /\ UNCHANGED faults
       \/ todo # {} /\ ApiFault
    /\ todo' = {} /\ snap' = {} /\ phase' = "reconcile"
    /\ AuditGoes("list")
    /\ UNCHANGED <<cluster, mode, rev, lock, at, cur, pending, ghosts, edits, restarts>>

\* A variant: teardown does not take the lock.
TeardownUnlocked ==
    /\ \/ pc[Audit] = "awaitDeploy" /\ lock = None /\ AuditGoes("deploy") /\ lock' = Audit
       \/ pc[Audit] = "awaitTeardown" /\ AuditGoes("teardown") /\ UNCHANGED lock
    /\ at' = [at EXCEPT ![Audit] = 1]
    /\ cut' = cut \ {cur}
    /\ UNCHANGED <<cluster, mode, rev, phase, todo, snap, cur, pending, gaveUp, bounds>>

\* The blocking acquire of deploy_checker_serialised and
\* teardown_checker_serialised.
AuditAcquire ==
    /\ lock = None
    /\ \/ pc[Audit] = "awaitDeploy" /\ AuditGoes("deploy")
       \/ pc[Audit] = "awaitTeardown" /\ AuditGoes("teardown")
    /\ lock' = Audit
    /\ at' = [at EXCEPT ![Audit] = 1]
    /\ cut' = cut \ {cur}
    /\ UNCHANGED <<cluster, mode, rev, phase, todo, snap, cur, pending, gaveUp, bounds>>

---------------------------------------------------------------------------
(* The namespace handlers                                                  *)

HandlerGoes(n, point) == pc' = [pc EXCEPT ![n] = point]

\* kopf runs on_namespace_create with the labels of the event; a policy read
\* that raises something other than ApiException fails the handler.
HandlerStart(n) ==
    /\ pc[n] = "idle" /\ n \in pending \intersect live
    /\ pending' = pending \ {n}
    /\ \/ \E policy \in Policies :
             /\ ReadPolicy(n, policy)
             /\ IF ShouldDeploy(mode, n, n \in optOut, policy)
                   THEN HandlerGoes(n, "try")
                   ELSE UNCHANGED pc
       \/ ApiFault /\ UNCHANGED pc
    /\ UNCHANGED <<cluster, mode, rev, lock, at, phase, todo, snap, cur, ghosts, edits, restarts>>

\* A variant: the result of the acquire is not looked at.
AcquireIgnored(n) ==
    /\ pc[n] = "try" /\ HandlerGoes(n, "deploy")
    /\ lock' = IF lock = None THEN n ELSE lock
    /\ at' = [at EXCEPT ![n] = 1]
    /\ cut' = cut \ {n}
    /\ UNCHANGED <<cluster, mode, rev, phase, todo, snap, cur, pending, gaveUp, bounds>>

\* The non-blocking acquire: a handler that finds the lock taken defers its
\* namespace to reconcile.
HandlerTry(n) ==
    /\ pc[n] = "try"
    /\ IF lock = None
          THEN /\ HandlerGoes(n, "deploy")
               /\ lock' = n
               /\ at' = [at EXCEPT ![n] = 1]
               /\ cut' = cut \ {n}
          ELSE HandlerGoes(n, "idle") /\ UNCHANGED <<lock, at, cut>>
    /\ UNCHANGED <<cluster, mode, rev, phase, todo, snap, cur, pending, gaveUp, bounds>>

---------------------------------------------------------------------------
(* Under the lock                                                          *)

\* The lock is released however the operation ended, and the thread moves on.
Release(t) ==
    /\ lock' = None
    /\ at' = [at EXCEPT ![t] = 1]
    /\ pc' = [pc EXCEPT ![t] = IF t = Audit THEN "visit" ELSE "idle"]
    /\ cur' = IF t = Audit THEN None ELSE cur

\* A variant: no finally, the lock stays taken.
FailHoldingLock(t) ==
    /\ pc' = [pc EXCEPT ![t] = IF t = Audit THEN "visit" ELSE "idle"]
    /\ cur' = IF t = Audit THEN None ELSE cur
    /\ UNCHANGED <<lock, at, pending>>

\* An operation that raised.  kopf may run a failed handler again.
Fail(t) ==
    /\ Release(t)
    /\ pending' \in {pending, pending \union ({t} \intersect live)}

\* A variant: the template carries the time of its writing.
StampedDeployment(n) ==
    tmpl' = [tmpl EXCEPT ![n] = rev] /\ rolling' = rolling \union {n}

\* Writing a Deployment starts a rollout when the pod template changes.
WriteDeployment(n) ==
    /\ tmpl' = [tmpl EXCEPT ![n] = rev]
    /\ IF tmpl[n] = rev THEN UNCHANGED rolling ELSE rolling' = rolling \union {n}

\* One read and patch, or read and create, of deploy_checker.  After the
\* Deployment comes the wait.
DeployStep(t) ==
    LET n == Target(t)
        kind == DeployOrder[at[t]]
    IN  /\ pc[t] = "deploy" /\ n \in live
        /\ objs' = [objs EXCEPT ![n] = @ \union {kind}]
        /\ IF kind = "dep"
              THEN /\ WriteDeployment(n)
                   /\ gaveUp' = IF tmpl[n] = rev THEN gaveUp ELSE gaveUp \ {n}
                   /\ pc' = [pc EXCEPT ![t] = "wait"]
                   /\ UNCHANGED at
              ELSE /\ at' = [at EXCEPT ![t] = @ + 1]
                   /\ UNCHANGED <<tmpl, rolling, gaveUp, pc>>
        /\ UNCHANGED <<live, optOut, mode, rev, lock, phase, todo, snap, cur,
                       pending, cut, bounds>>

\* A call of deploy_checker that raises: the namespace is gone, or the call
\* failed, with or without an effect on the server.
DeployFails(t) ==
    LET n == Target(t)
        kind == DeployOrder[at[t]]
    IN  /\ pc[t] = "deploy"
        /\ \/ n \notin live /\ UNCHANGED <<objs, tmpl, rolling, gaveUp, faults>>
           \/ n \in live /\ ApiFault /\ UNCHANGED <<objs, tmpl, rolling, gaveUp>>
           \/ /\ n \in live /\ ApiFault
              /\ objs' = [objs EXCEPT ![n] = @ \union {kind}]
              /\ IF kind = "dep"
                    THEN WriteDeployment(n) /\ gaveUp' = gaveUp \union ({n} \intersect rolling')
                    ELSE UNCHANGED <<tmpl, rolling, gaveUp>>
        /\ Fail(t)
        /\ cut' = cut \union ({n} \intersect live)
        /\ UNCHANGED <<live, optOut, mode, rev, phase, todo, snap, edits, restarts>>

\* Variants: the old pod's readiness is taken for the new one's; a wait without
\* a deadline.
WaitNaive(t) ==
    /\ pc[t] = "wait" /\ "dep" \in objs[Target(t)]
    /\ Release(t)
    /\ UNCHANGED <<cluster, mode, rev, phase, todo, snap, pending, ghosts, bounds>>
WaitForEver(t) ==
    LET n == Target(t)
    IN  /\ pc[t] = "wait" /\ "dep" \notin objs[n]
        /\ gaveUp' = gaveUp \union ({n} \intersect rolling)
        /\ Release(t)
        /\ UNCHANGED <<cluster, mode, rev, phase, todo, snap, pending, cut, bounds>>

\* wait_for_checker_ready sees the rollout complete.
WaitReady(t) ==
    /\ pc[t] = "wait"
    /\ "dep" \in objs[Target(t)] /\ Target(t) \notin rolling
    /\ Release(t)
    /\ UNCHANGED <<cluster, mode, rev, phase, todo, snap, pending, ghosts, bounds>>

\* It returns False all the same on its deadline, or when the Deployment cannot
\* be read; deploy_checker_serialised does not look at the result.
WaitGivesUp(t) ==
    LET n == Target(t)
    IN  /\ pc[t] = "wait"
        /\ \/ (n \in rolling \/ "dep" \notin objs[n]) /\ UNCHANGED faults
           \/ ApiFault
        /\ gaveUp' = gaveUp \union ({n} \intersect rolling)
        /\ Release(t)
        /\ UNCHANGED <<cluster, mode, rev, phase, todo, snap, pending, cut, edits, restarts>>

\* The deletes of teardown_checker; an object that is not there is passed over.
RemoveObject(n, kind) ==
    /\ objs' = [objs EXCEPT ![n] = @ \ {kind}]
    /\ IF kind = "dep"
          THEN /\ tmpl' = [tmpl EXCEPT ![n] = 0]
               /\ rolling' = rolling \ {n} /\ gaveUp' = gaveUp \ {n}
          ELSE UNCHANGED <<tmpl, rolling, gaveUp>>

TeardownStep ==
    LET step == at[Audit]
    IN  /\ pc[Audit] = "teardown"
        /\ RemoveObject(cur, TeardownOrder[step])
        /\ IF step = Len(TeardownOrder)
              THEN Release(Audit)
              ELSE at' = [at EXCEPT ![Audit] = step + 1] /\ UNCHANGED <<lock, pc, cur>>
        /\ UNCHANGED <<live, optOut, mode, rev, phase, todo, snap, pending, cut, bounds>>

TeardownFails ==
    /\ pc[Audit] = "teardown" /\ ApiFault
    /\ \/ UNCHANGED <<objs, tmpl, rolling, gaveUp>>
       \/ RemoveObject(cur, TeardownOrder[at[Audit]])
    /\ Release(Audit)
    /\ cut' = cut \union ({cur} \intersect live)
    /\ UNCHANGED <<live, optOut, mode, rev, phase, todo, snap, pending, edits, restarts>>

---------------------------------------------------------------------------
(* The world around the operator                                           *)

InOperation(n) == \E t \in Threads : pc[t] \in Critical /\ Target(t) = n

\* kopf sees a new namespace.  The garbage collector has emptied the name.
CreateNamespace(n) ==
    /\ n \notin live /\ Edit
    /\ live' = live \union {n}
    /\ optOut' \in {optOut, optOut \union {n}}
    /\ pending' = pending \union {n}
    /\ UNCHANGED <<objs, tmpl, rolling, mode, rev, lock, pc, at, phase, todo, snap, cur,
                   ghosts, faults, restarts>>

\* A namespace goes with everything in it, under whatever works on it.
DeleteNamespace(n) ==
    /\ n \in live /\ Edit
    /\ live' = live \ {n} /\ optOut' = optOut \ {n} /\ pending' = pending \ {n}
    /\ objs' = [objs EXCEPT ![n] = {}]
    /\ tmpl' = [tmpl EXCEPT ![n] = 0]
    /\ rolling' = rolling \ {n} /\ gaveUp' = gaveUp \ {n}
    /\ cut' = IF InOperation(n) THEN cut \union {n} ELSE cut \ {n}
    /\ UNCHANGED <<mode, rev, lock, pc, at, phase, todo, snap, cur, faults, restarts>>

\* The opt-out label is added or removed.  The edit is an update event for
\* kopf, or still a create cause when it holds no essence of the namespace.
ToggleLabel(n) ==
    /\ n \in live /\ Edit
    /\ optOut' = IF n \in optOut THEN optOut \ {n} ELSE optOut \union {n}
    /\ pending' \in {pending, pending \union {n}}
    /\ UNCHANGED <<live, objs, tmpl, rolling, mode, rev, lock, pc, at, phase, todo, snap,
                   cur, ghosts, faults, restarts>>

\* Kubernetes finishes a rollout, in its own time if ever.
RolloutDone(n) ==
    /\ n \in rolling
    /\ rolling' = rolling \ {n} /\ gaveUp' = gaveUp \ {n}
    /\ UNCHANGED <<live, optOut, objs, tmpl, process, cut, bounds>>

\* The operator's process ends at any point and a new one starts, perhaps with
\* another mode or a new template.  Every live namespace is a create cause for
\* the new process.
Restart ==
    /\ Bounded /\ restarts < MaxRestarts
    /\ restarts' = restarts + 1
    /\ mode' \in Modes /\ rev' \in {rev, rev + 1}
    /\ lock' = None
    /\ pc' = [t \in Threads |-> IF t = Audit THEN "list" ELSE "idle"]
    /\ at' = [t \in Threads |-> 1]
    /\ phase' = "boot" /\ todo' = {} /\ snap' = {} /\ cur' = None
    /\ pending' = live
    /\ gaveUp' = rolling
    /\ cut' = cut \union {n \in live : InOperation(n)}
    /\ UNCHANGED <<cluster, faults, edits>>

---------------------------------------------------------------------------
(* The specification                                                       *)

\* A first installation.
Init ==
    /\ live \in SUBSET Namespaces
    /\ optOut \in SUBSET live
    /\ objs = [n \in Namespaces |-> {}]
    /\ tmpl = [n \in Namespaces |-> 0]
    /\ rolling = {}
    /\ mode \in Modes /\ rev = 1
    /\ lock = None
    /\ pc = [t \in Threads |-> IF t = Audit THEN "list" ELSE "idle"]
    /\ at = [t \in Threads |-> 1]
    /\ phase = "boot" /\ todo = {} /\ snap = {} /\ cur = None
    /\ pending = live
    /\ gaveUp = {} /\ cut = {}
    /\ faults = 0 /\ edits = 0 /\ restarts = 0

Rollout(t) ==
    \/ DeployStep(t)
    \/ DeployFails(t)
    \/ WaitReady(t)
    \/ WaitGivesUp(t)

AuditThread ==
    \/ BootList
    \/ ReconcileList
    \/ \E n \in Namespaces : BootVisit(n) \/ ReconcileVisit(n)
    \/ EndPass
    \/ AuditAcquire
    \/ Rollout(Audit)
    \/ TeardownStep
    \/ TeardownFails

HandlerThread(n) == HandlerStart(n) \/ HandlerTry(n) \/ Rollout(n)

World ==
    \/ \E n \in Namespaces :
          CreateNamespace(n) \/ DeleteNamespace(n) \/ ToggleLabel(n) \/ RolloutDone(n)
    \/ Restart

Next ==
    \/ AuditThread
    \/ \E n \in Namespaces : HandlerThread(n)
    \/ World

Spec == Init /\ [][Next]_vars

\* Threads run: each goes on with what it has begun, and a wait ends at its
\* deadline if the rollout does not end it.  Nothing is assumed of the world.
Fairness ==
    /\ WF_vars(AuditThread)
    /\ \A n \in Namespaces : WF_vars(HandlerTry(n) \/ Rollout(n))

FairSpec == Spec /\ Fairness

---------------------------------------------------------------------------
(* Properties                                                              *)

\* Every variable has its type, and observation is about what is there.
TypeOK ==
    /\ live \subseteq Namespaces /\ optOut \subseteq live
    /\ objs \in [Namespaces -> SUBSET Kinds]
    /\ tmpl \in [Namespaces -> 0 .. MaxRestarts + 1]
    /\ rolling \subseteq Namespaces
    /\ mode \in Modes /\ rev \in 1 .. restarts + 1
    /\ lock \in Threads \union {None}
    /\ pc \in [Threads -> AuditPoints \union HandlerPoints]
    /\ at \in [Threads -> 1 .. 5]
    /\ phase \in {"boot", "reconcile"}
    /\ todo \subseteq Namespaces /\ snap \subseteq Namespaces
    /\ cur \in Namespaces \union {None}
    /\ pending \subseteq live
    /\ gaveUp \subseteq rolling /\ cut \subseteq Namespaces
    /\ faults \in 0 .. MaxFaults /\ edits \in 0 .. MaxEdits
    /\ restarts \in 0 .. MaxRestarts

\* Checker rollouts are one at a time however they are triggered (the comment
\* above _rollout_lock): apart from rollouts whose wait was given up or was cut
\* off by a crash, at most one Deployment is mid-rollout.
OneRolloutAtATime ==
    \A m, n \in rolling \ gaveUp : m = n

\* Deploy and teardown do not interleave, so neither leaves a half-removed
\* checker behind (teardown_checker_serialised): a namespace nobody works on,
\* whose last operation was not cut short by a failure, a crash or the deletion
\* of the namespace, holds all five objects or none.
WholeOrNothing ==
    \A n \in Namespaces :
        ~InOperation(n) /\ n \notin cut => objs[n] \in {{}, Kinds}

\* The lock is held exactly by the thread that is in an operation, the audit
\* thread knows its namespace exactly while it has one, ...
HolderInv ==
    /\ \A t \in Threads : pc[t] \in Critical <=> lock = t
    /\ pc[Audit] \in AuditPoints
    /\ \A n \in Namespaces : pc[n] \in HandlerPoints
    /\ cur = None <=> pc[Audit] \in {"list", "visit"}

\* ... a rollout nobody gave up is waited for, ...
WaitInv ==
    \A n \in rolling \ gaveUp : \E t \in Threads : pc[t] = "wait" /\ Target(t) = n

\* ... a name that is not a namespace holds nothing, ...
GoneInv == \A n \in Namespaces \ live : objs[n] = {}

\* ... and an operation that has not been cut short has done all its steps so far.
ProgressInv ==
    \A t \in Threads :
        Target(t) \notin cut =>
            /\ pc[t] = "deploy" =>
                  \A i \in 1 .. at[t] - 1 : DeployOrder[i] \in objs[Target(t)]
            /\ pc[t] = "wait" => objs[Target(t)] = Kinds
            /\ pc[t] = "teardown" =>
                  \A i \in 1 .. at[t] - 1 : TeardownOrder[i] \notin objs[Target(t)]

\* The inductive invariant: why one lock around each operation is enough for
\* the two properties above, with threads deciding before they hold it.
IInv ==
    /\ TypeOK /\ HolderInv /\ WaitInv /\ GoneInv /\ ProgressInv
    /\ WholeOrNothing

\* A namespace under EXCLUDED_NAMESPACES never gets any object of a checker,
\* even while every policy read fails.
ExcludedStayEmpty ==
    \A n \in Excluded : objs[n] = {}

\* What the operator wants now, read without failure and without delay.
Wanted(n) == ShouldDeploy(mode, n, n \in optOut, EffectivePolicy(n))

InPlace == \A n \in live : "dep" \in objs[n] <=> Wanted(n)

\* Reconcile converges: once the world is quiet, every live namespace has a
\* checker Deployment exactly if it should have one, whatever failed, was
\* deferred, crashed or was decided on stale labels before.
Converges == <>[]InPlace

\* Checkers are where they are wanted, and what the threads have decided agrees: the
\* labels they listed are the present ones, and who is past its decision deploys or tears
\* down what is wanted.
Settled ==
    /\ InPlace
    /\ \A n \in todo \intersect live : n \in snap <=> n \in optOut
    /\ \A t \in Threads : Target(t) \in live =>
          /\ pc[t] \in {"awaitDeploy", "try", "deploy", "wait"} => Wanted(Target(t))
          /\ pc[t] \in {"awaitTeardown", "teardown"} => ~Wanted(Target(t))

AtTemplate == \A n \in live : Wanted(n) => tmpl[n] = rev

\* Passes and handlers go on for ever and undo nothing: until a call fails, a namespace
\* is edited or the process ends, what is settled stays so, and once every checker is at
\* the present template no Deployment is made to roll again, though deploys are repeated.
StaysSettled ==
    [][Settled /\ UNCHANGED bounds =>
          /\ Settled'
          /\ AtTemplate => AtTemplate' /\ rolling' \subseteq rolling]_vars

\* The lock comes free again and again: no namespace's rollout keeps the others
\* waiting for ever, even one that never finishes.
LockComesFree == []<>(lock = None)

\* An upgrade, or a change of the mode, reaches every namespace: once the world is quiet,
\* checkers are where the new process wants them, and unless a call failed or a namespace
\* was edited they run its template; reconcile leaves a checker alone that is there.
UpgradeReaches ==
    <>[](InPlace /\ (faults = 0 /\ edits = 0 => AtTemplate))

\* An upgrade is bootstrap's affair: when the first pass is over, no checker that should
\* be there has a template of an earlier process, whoever deployed it and whoever holds
\* the lock, unless a call failed or a namespace was edited.  Reconcile, which would not
\* notice one, has none left to notice.
BootstrapReachesAll ==
    phase = "reconcile" /\ faults = 0 /\ edits = 0 =>
        \A n \in live : Wanted(n) => tmpl[n] \in {0, rev}

\* A failed teardown is retried: once the world is quiet, a namespace that
\* should have no checker has nothing of one left.
TeardownIsRetried ==
    <>[](\A n \in live : ~Wanted(n) => objs[n] = {})

\* The operator implements SerialRollout: however bootstrap, reconcile and the
\* handlers interleave, checkers change as if one namespace at a time owned
\* the right to change.
Serial == INSTANCE SerialRollout
            WITH owner <- IF lock = None THEN None ELSE Target(lock)

RolloutsAreSerial == Serial!Spec
=============================================================================
