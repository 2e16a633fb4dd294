-------------------------- MODULE CheckerDeployment --------------------------
(***************************************************************************)
(* The wait for a checker's rollout, from what the API server says of its  *)
(* Deployment: the holder of the rollout lock patches or creates it and    *)
(* polls its status, which the Deployment controller writes when it comes  *)
(* to it, while the pods are replaced behind.  CheckerRollout takes "the   *)
(* rollout is complete" as one fact; here the code has to find it out.     *)
(*                                                                         *)
(* A checker has one replica; its Deployment surges to a second pod and    *)
(* keeps the old one until the new one is ready.                           *)
(***************************************************************************)
EXTENDS Naturals, FiniteSets

CONSTANTS
    Namespaces,
    Templates,          \* the pod templates checkers are deployed with
    None,
    MaxPatches,         \* bounds: deploys, and
    MaxFaults           \* failed reads, failing pods, crashes, teardowns

ASSUME DeploymentAssumption ==
    None \notin Namespaces /\ None \notin Templates /\ IsFiniteSet(Templates)

ASSUME BoundsAssumption == MaxPatches \in Nat /\ MaxFaults \in Nat

VARIABLES
    \* the API server
    template,       \* spec.template of each Deployment, None if there is none
    generation,     \* metadata.generation
    status,         \* as last written by the controller
    \* the cluster
    pods,           \* pods[n][t]: the state of n's pod of template t
    \* the operator
    holder,         \* the namespace the holder of the lock waits for
    late,           \* the deadline of this wait has passed
    \* observation only
    done,           \* Deployments whose present template has been rolled out
    gaveUp,         \* rollouts nobody waits for any more
    patches, faults

cluster == <<template, generation, status, pods>>
bounds == <<patches, faults>>
vars == <<cluster, holder, late, done, gaveUp, bounds>>

Fault == faults < MaxFaults /\ faults' = faults + 1

NoStatus == [observed |-> 0, updated |-> 0, replicas |-> 0, available |-> 0]
NoPods == [t \in Templates |-> "none"]

Rolling == {n \in Namespaces : template[n] # None} \ done

\* Only the pod of the template is left, and it is ready.
RolledOut(t, its) == t # None /\ its = [NoPods EXCEPT ![t] = "ready"]

\* Observation: the rollouts done when n has the template and the pods given.
DoneWith(n, t, its) ==
    IF RolledOut(t, its) THEN done \union {n}
    ELSE IF t = template[n] THEN done ELSE done \ {n}

---------------------------------------------------------------------------
(* The operator                                                            *)

\* deploy_checker's last call, under the lock: the Deployment is patched, or
\* created.  A patch that changes nothing is no new generation.
Deploy(n, t) ==
    /\ holder = None /\ holder' = n /\ late' = FALSE
    /\ patches < MaxPatches /\ patches' = patches + 1
    /\ template' = [template EXCEPT ![n] = t]
    /\ generation' = [generation EXCEPT ![n] = IF t = template[n] THEN @ ELSE @ + 1]
    /\ done' = DoneWith(n, t, pods[n]) /\ gaveUp' = gaveUp \ {n}
    /\ UNCHANGED <<status, pods, faults>>

\* Variants of RolloutComplete: any available pod will do; the controller may not
\* have seen the patch; the last old pod is waited for for ever.
AnyAvailable(n) == status[n].available >= 1
UnobservedCounts(n) ==
    /\ status[n].updated >= 1
    /\ status[n].replicas <= status[n].updated
    /\ status[n].available >= 1
FewerThanUpdated(n) ==
    /\ status[n].observed >= generation[n]
    /\ status[n].updated >= 1
    /\ status[n].replicas < status[n].updated
    /\ status[n].available >= 1

\* _rollout_complete, for one replica.
RolloutComplete(n) ==
    /\ status[n].observed >= generation[n]
    /\ status[n].updated >= 1
    /\ status[n].replicas <= status[n].updated
    /\ status[n].available >= 1

\* wait_for_checker_ready: a poll that finds the rollout complete,
PollComplete ==
    /\ holder # None /\ template[holder] # None
    /\ RolloutComplete(holder)
    /\ holder' = None /\ late' = FALSE
    /\ UNCHANGED <<cluster, done, gaveUp, bounds>>

\* The wait is over without it: every rollout that goes on is nobody's.
GivesUp ==
    /\ holder' = None /\ late' = FALSE /\ gaveUp' = Rolling
    /\ UNCHANGED <<cluster, done>>

\* one that does not, after the deadline,
PollTimesOut ==
    /\ holder # None /\ template[holder] # None
    /\ ~RolloutComplete(holder) /\ late
    /\ GivesUp /\ UNCHANGED bounds

\* and one that fails, or finds no Deployment.
PollFails ==
    /\ holder # None
    /\ \/ Fault
       \/ template[holder] = None /\ UNCHANGED faults
    /\ GivesUp /\ UNCHANGED patches

DeadlinePasses ==
    /\ holder # None /\ ~late /\ late' = TRUE
    /\ UNCHANGED <<cluster, holder, done, gaveUp, bounds>>

Gone(n) ==
    /\ template' = [template EXCEPT ![n] = None]
    /\ generation' = [generation EXCEPT ![n] = 0]
    /\ status' = [status EXCEPT ![n] = NoStatus]
    /\ pods' = [pods EXCEPT ![n] = NoPods]
    /\ done' = done \ {n} /\ gaveUp' = gaveUp \ {n}

\* A variant: the Deployment is deleted with the propagation policy Orphan, and its
\* pods are left to run.
TeardownOrphans(n) ==
    /\ holder = None /\ template[n] # None /\ Fault
    /\ template' = [template EXCEPT ![n] = None]
    /\ generation' = [generation EXCEPT ![n] = 0]
    /\ status' = [status EXCEPT ![n] = NoStatus]
    /\ done' = done \ {n} /\ gaveUp' = gaveUp \ {n}
    /\ UNCHANGED <<pods, holder, late, patches>>

\* teardown_checker, under the lock as well; it waits for nothing, and the pods go
\* with the Deployment.
Teardown(n) ==
    /\ holder = None /\ template[n] # None /\ Fault /\ Gone(n)
    /\ UNCHANGED <<holder, late, patches>>

\* The process ends, and with it lock and wait.
Restart ==
    /\ Fault /\ GivesUp /\ UNCHANGED patches

---------------------------------------------------------------------------
(* The cluster: Deployment controller, ReplicaSets, kubelet                *)

Ready(n) == {t \in Templates : pods[n][t] = "ready"}
Active(n) == {t \in Templates : pods[n][t] # "none"}

\* The controller comes to the Deployment and writes its status.
Observe(n) ==
    /\ template[n] # None
    /\ status' = [status EXCEPT ![n] =
                    [observed |-> generation[n],
                     updated |-> Cardinality(Active(n) \intersect {template[n]}),
                     replicas |-> Cardinality(Active(n)),
                     available |-> Cardinality(Ready(n))]]
    /\ status' # status
    /\ UNCHANGED <<template, generation, pods, holder, late, done, gaveUp, bounds>>

\* A pod of n changes, and with that the rollout may be complete.
PodChanges(n, t, state) ==
    /\ pods' = [pods EXCEPT ![n][t] = state]
    /\ done' = DoneWith(n, template[n], pods'[n]) /\ gaveUp' = gaveUp \ done'
    /\ UNCHANGED <<template, generation, status, holder, late, patches>>

\* The controller has seen the template and starts its pod beside the old one.
PodStarts(n) ==
    /\ template[n] # None /\ status[n].observed = generation[n]
    /\ pods[n][template[n]] = "none" /\ Cardinality(Active(n)) < 2
    /\ PodChanges(n, template[n], "starting") /\ UNCHANGED faults

PodReady(n, t) ==
    /\ pods[n][t] = "starting" /\ PodChanges(n, t, "ready") /\ UNCHANGED faults

\* A container fails and is restarted.
PodFails(n, t) ==
    /\ pods[n][t] = "ready" /\ Fault /\ PodChanges(n, t, "starting")

\* A pod of an old template goes when the new one is ready, or if it is not
\* ready itself.
OldPodEnds(n, t) ==
    /\ template[n] \notin {None, t} /\ status[n].observed = generation[n]
    /\ \/ pods[n][t] = "ready" /\ pods[n][template[n]] = "ready"
       \/ pods[n][t] = "starting"
    /\ PodChanges(n, t, "none") /\ UNCHANGED faults

\* The namespace is deleted, the Deployment with it.
Vanish(n) ==
    /\ template[n] # None /\ Fault /\ Gone(n)
    /\ UNCHANGED <<holder, late, patches>>

---------------------------------------------------------------------------
(* The specification                                                       *)

Init ==
    /\ template = [n \in Namespaces |-> None] /\ generation = [n \in Namespaces |-> 0]
    /\ status = [n \in Namespaces |-> NoStatus] /\ pods = [n \in Namespaces |-> NoPods]
    /\ holder = None /\ late = FALSE
    /\ done = {} /\ gaveUp = {}
    /\ patches = 0 /\ faults = 0

Poll == PollComplete \/ PollTimesOut \/ PollFails

Cluster ==
    \E n \in Namespaces :
        \/ Observe(n) \/ PodStarts(n) \/ Vanish(n)
        \/ \E t \in Templates : PodReady(n, t) \/ PodFails(n, t) \/ OldPodEnds(n, t)

Next ==
    \/ \E n \in Namespaces : Teardown(n) \/ \E t \in Templates : Deploy(n, t)
    \/ Poll \/ DeadlinePasses \/ Restart
    \/ Cluster

Spec == Init /\ [][Next]_vars

\* The wait polls, and the controller writes what it sees; nothing says that pods
\* ever become ready, and the deadline may be far away.
FairSpec == Spec /\ WF_vars(Poll) /\ \A n \in Namespaces : WF_vars(Observe(n))

---------------------------------------------------------------------------
(* Properties                                                              *)

PodStates == {"none", "starting", "ready"}

\* Every variable has its type; a Deployment is never observed ahead of its
\* generation, has never more than two pods, and nothing is left of one
\* that is gone.
TypeOK ==
    /\ template \in [Namespaces -> Templates \union {None}]
    /\ generation \in [Namespaces -> 0 .. patches]
    /\ status \in [Namespaces -> [observed : 0 .. MaxPatches, updated : 0 .. 2,
                                  replicas : 0 .. 2, available : 0 .. 2]]
    /\ pods \in [Namespaces -> [Templates -> PodStates]]
    /\ holder \in Namespaces \union {None} /\ late \in BOOLEAN
    /\ done \subseteq Namespaces /\ gaveUp \subseteq Rolling
    /\ \A n \in Namespaces :
          /\ status[n].observed <= generation[n]
          /\ Cardinality(Active(n)) <= 2
          /\ template[n] = None =>
                generation[n] = 0 /\ status[n] = NoStatus /\ pods[n] = NoPods /\ n \notin done
    /\ patches \in 0 .. MaxPatches /\ faults \in 0 .. MaxFaults

\* A status that counts as complete is of the present template and tells the
\* truth: its rollout did complete, however late the controller wrote it.
CompleteIsTrue ==
    \A n \in Namespaces : template[n] # None /\ RolloutComplete(n) => n \in done

\* Waits implement the pacing: a Deployment starts to roll only when every other
\* that still rolls was waited for in vain, or by a process that is gone.
Paced == INSTANCE PacedRollouts WITH rolling <- Rolling
RolloutsArePaced == Paced!Spec

\* A wait ends: after its deadline in any case, and before it if the rollout
\* completes and the pods keep well, because what _rollout_complete asks for
\* comes to be said.
WaitsEnd ==
    /\ (holder # None /\ late) ~> holder = None
    /\ \A n \in Namespaces : <>[]RolledOut(template[n], pods[n]) => []<>(holder # n)
=============================================================================
