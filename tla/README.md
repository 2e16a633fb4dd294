# A TLA+ model of Kubeic

Kubeic audits container images in a Kubernetes cluster. An *operator* (`src/kubeic_operator`, on
kopf) decides which namespaces are audited and puts a *checker* (`src/kubeic_checker`) into each of
them, or, in central mode, lets one Helm-owned checker read the whole cluster. A checker lists pods,
asks the registries for their images and exposes the answers as Prometheus metrics.

This directory models the parts of both programs in which order, failure and concurrency matter,
model-checks them with TLC, and proves with TLAPS all of the safety properties and action properties
that the passing runs check, and the halves of the convergence properties that are safety.
`PROJECT.json` lists components, runs, mutants, the source lines of every definition, divergences
from the documentation, hazards and theorems. Line numbers below are of the files named there;
`main.py` without a directory is the operator's.

## The system

| component | state | operations | talks to |
|---|---|---|---|
| bootstrap and reconcile (`main.py:241-440, 494-530`), the *audit thread* | list of the pass, labels as listed | bootstrap deploys, reconcile deploys or tears down, grants, status | deployer, policy, API server |
| namespace handler (`handlers/namespace.py:100-148`) | none of its own; one kopf thread per event | deploy or grant at once, or defer to reconcile | deployer, policy |
| deployer (`deployer.py`) | the rollout lock (`:720`); the five objects of each checker; Role and RoleBinding of each central grant | deploy, wait, teardown, ensure, revoke | API server |
| policy (`handlers/namespace.py:18-97`) | `ImageAuditPolicy` objects, labels, `EXCLUDED_NAMESPACES` | effective policy, should audit, should deploy | API server |
| status (`main.py:179-238, 409-438`) | the cluster-defaults status | entries of a pass, merge patch | policy, probes |
| diff-base storage (`main.py`) | in-memory essence of each namespace | what kopf sees as a *create* | kopf |
| checker loop (`kubeic_checker/main.py:394-522`) | last exclusion set, metrics | a cycle: exclude, list, inspect, publish, probe credentials | API server, registries |
| credentials (`credentials.py`) | pull secrets of the cycle | resolve, candidates per (namespace, image) | API server |
| availability (`availability.py`) | inspections of the cycle | plan, inspect with candidates, classify | `skopeo` |
| pacer (`kubeic_checker/main.py:89-132`) | a deadline and a count | gaps between the items of a cycle | availability, credentials |
| cluster audit (`main.py:441-492`, `checks/`, `metrics.py:113-167`), in the audit thread | six families of gauges | list, policy, findings, publication | API server, the scrape thread |
| Deployment controller | status of each checker's Deployment | replaces pods, writes the status late | deployer's wait |
| cleanup job (`cleanup.py`) | none | deletes all checkers before `helm uninstall` | API server |

### What is hard

- Bootstrap and reconcile are one thread, each namespace event runs a handler in another. They share
  the API server and `_rollout_lock`, and all of them decide *before* they hold the lock, from labels
  and probes that are old when the operation is done.
- The lock covers the wait for a rollout too, and a rollout may never finish.
- Deploy and teardown are five calls each. Any call may fail, with or without having taken effect;
  the process may be killed between any two; the namespace may go from under it.
- Reconcile sees only the checker's Deployment, not the other four objects and not its template.
- Secret grants are converged by reconcile and handlers with no lock at all.
- The status is a merge patch: what a pass does not mention stays.
- A checker's cycle reads labels, then pods page by page, then registries for minutes, then publishes
  series one by one, while all of these change; its fallback for a failed list is an earlier answer.
- The wait for a rollout reads a status that the controller writes later, at a moment the code cannot
  know; a status of the template before looks like a finished rollout.
- The operator's audit clears and sets six families one after another beside the thread that serves
  scrapes, from a pod list and a policy read one after the other, either of which may fail.
- A checker stretches its work over the interval by a count made before the work, on a clock that
  slow items run down, and with another deadline for the first cycle.
- One inspection answers for containers of several namespaces with different credentials.

### What makes each part correct

- *Rollouts*: one at a time; a checker is whole or absent unless an operation was cut short; the lock
  comes free; every namespace ends up as policy has it; an upgrade reaches every checker; excluded
  namespaces get nothing.
- *Grants*: they converge, writes then cease, and callers that meet do each other no harm.
- *Status*: what is there is reported; central mode reports the central checker and nothing older.
- *Checker cycle*: failures never widen what is audited, fresh opt-outs count from the next cycle,
  metrics settle on the truth.
- *Wait*: it ends early only if the rollout is complete, it ends, and rollouts are paced by it.
- *Cluster audit*: tags are judged as documented, each scrape meets one pass, metrics settle on what
  runs.
- *Pacing*: the items of a cycle are spread evenly over its time, cycles keep their interval.
- *Credentials*: sharing answers changes no answer, failing calls never produce a false claim, a
  credential is judged by its own access.

## The modules

| module | what it is | run module |
|---|---|---|
| `NamespacePolicy` | operators shared by the next three modules: the effective policy, what failing reads leave of it, `ShouldAudit`, `ShouldDeploy` | |
| `CheckerRollout` | audit thread, handlers, lock, the calls of deploy and teardown, crashes | `MCRollout` |
| `SerialRollout` | abstract specification: one namespace at a time owns the right to change its checker | |
| `CheckerRolloutProofs` | its theorems | |
| `CheckerDeployment` | the wait: a Deployment's spec, status and pods, the holder of the lock polling | `MCDeployment` |
| `PacedRollouts` | abstract specification: a Deployment starts to roll only when all others that roll are given up | |
| `CheckerDeploymentProofs` | its theorems | |
| `CentralGrants` | Role and RoleBinding of central mode, call by call, two kinds of caller | `MCGrants` |
| `CentralGrantsProofs` | its theorems | |
| `ReconcileStatus` | the branches of a pass, its report, the merged status | `MCStatus` |
| `ReconcileStatusProofs` | its theorems | |
| `CheckerSweep` | one checker process: exclusions, pages, inspections, series | `MCSweep` |
| `CheckerSweepProofs` | its theorems | |
| `PullCredentials` | secrets to candidates to inspections to reports, then the validity probe | `MCCredentials` |
| `PullCredentialsProofs` | its theorems | |
| `PacedCycle` | the time of a cycle: deadlines, items, gaps | `MCPace` |
| `PacedCycleProofs` | its theorems | |
| `ImageTags` | operators on image names: registry, name, tag, pre-release or not | |
| `ClusterAudit` | a pass of the cluster audit, from the pod list to the series, over changing pods and policy | `MCAudit` |
| `ClusterAuditProofs` | its theorems and one about `ImageTags` | |

`ReconcileStatus` takes a deploy or teardown as one step that succeeds or fails with either effect;
`CheckerRollout` has the steps. Both take their decisions from `NamespacePolicy`, so that a policy
read that fails has the same outcomes in all three modules that read one.

### CheckerRollout

State: the cluster (`live`, `optOut`, `objs`, `tmpl`, `rolling`), the process (`mode`, `rev`,
`lock`, and for each thread `pc` and `at`; for the audit thread `phase`, `todo`, `snap`, `cur`; what
kopf still has to deliver, `pending`) and two variables that only observe: `gaveUp`, rollouts nobody
waits for any more, and `cut`, namespaces whose last operation did not run to its end. No action of
the operator reads the last two.

| action | code |
|---|---|
| `BootList`, `BootVisit` | `_bootstrap_checkers` |
| `ReconcileList`, `ReconcileVisit`, `EndPass` | `_reconcile_checkers`, `_audit_loop` |
| `AuditAcquire` | the blocking `with _rollout_lock` of the serialised functions |
| `HandlerStart`, `HandlerTry` | `on_namespace_create` and its non-blocking acquire |
| `DeployStep`, `DeployFails` | each read-and-write of `deploy_checker` |
| `WaitReady`, `WaitGivesUp` | `wait_for_checker_ready`, whose result nobody looks at |
| `TeardownStep`, `TeardownFails` | each delete of `teardown_checker` |
| `Release`, `Fail` | leaving the lock, and what the callers do with an exception |
| `Restart` | the end of the process anywhere, and `on_startup` of another |
| `CreateNamespace`, `DeleteNamespace`, `ToggleLabel`, `RolloutDone` | Kubernetes and kopf |

Abstracted: a policy is what it says of one opt-out label ("selects", "plain", or no policy); a
Deployment's completion is one fact, not the comparison of generation and replica counts; a pod
template is a revision that changes with the process; handlers of the same namespace do not overlap
(kopf runs one handler of an object at a time); waking times and log lines are gone. A label edit may
or may not be a *create* for kopf, which depends on the in-memory storage.

### CheckerDeployment

`CheckerRollout` lets a wait end when the rollout is complete; this module is how the code finds out.
`Deploy` writes the template and raises the generation if it changed; the controller's `Observe`
writes a status of that moment whenever it comes to it; `PodStarts`, `PodReady`, `PodFails` and
`OldPodEnds` replace the pod behind it, one surging at most, and only after the controller has seen
the generation. `PollComplete`, `PollTimesOut` and `PollFails` are the three ends of
`wait_for_checker_ready`, over `RolloutComplete`, which is `_rollout_complete` for one replica. `done`
and `gaveUp` observe. `Restart`, `Teardown` and `Vanish` take process, Deployment or namespace away.

### ImageTags and ClusterAudit

A tag is what the two regular expressions and the version pattern tell of it: a digest, or something
that starts with a version or does not, and the words behind. `Kept` is the loop that strips
platforms until nothing changes, `Suffixes` the falsy empty list. `ClusterAudit` has one action per
step of a pass that another thread could fall between: the list (`List`), the policy (`ReadPolicy`,
or `ReadFails`, which is no policy), then clearing and setting (`Clear` to `SetTags`) in the order of
`metrics.py`. A container is a pod and an index; an age is a number of days. Pods come, start and end,
days pass, the policy is edited and the process replaced in between.

### PacedCycle

Time is counted in ticks since the cycle began. `List` ends the listing and plans the work,
`Inspect` and `Probe` take some time and then call the pacer, whose sleep is `Gap`; `Publish` and
`PublishCredentials` are the two publications; `Raises` and `NothingToDo` end a cycle early; `Sleep`
is the sleep at the bottom. `fresh`, `size`, `listing` and `worked` observe: `EvenlySpread` compares
when an item begins with an even schedule from the end of the listing to the deadline, and what the
items themselves took.

### CentralGrants

`ReadRole` and `ReadBinding` decide on a patch, a create or nothing; patches and creates are steps of
their own, so that another caller's steps come between. 409 on create is success, 404 on patch leads
to a create, anything else raises (`CallFails`, `CreateInGoneNamespace`). Revocation deletes in
`RevokeOrder`, the binding before the Role, and `NextDelete` goes from one to the other. `wrote` and `failed` flip when a write reaches the server and when a failure
is recorded, so that action properties can speak of them. `met` observes too: every action ends in
`Observe`, which remembers of a thread at work in a namespace that one of opposite intent, granting
where it revokes or revoking where it grants, was at work there with it, or that the namespace was
deleted under its grant. Two such threads have no lock between them and may leave any mixture, which the
next pass repairs (`GrantsConverge`); `NoDanglingBinding` speaks of the steps of all others, in every
state of edits, restarts and failures.

### ReconcileStatus

`Visit` chooses the set of calls that fail, then takes the branch of `_reconcile_checkers` that
follows, with the entry it makes. `Write` merges: an entry without a reason keeps the reason that is
there, and a namespace without an entry keeps its entry.

### CheckerSweep

`Begin` resolves the exclusion set (or fails), `FirstPage` takes the snapshot a paginated list reads
from and `NextPage` its further pages, `Inspect` answers, `Clear` and `Publish` replace the series
one by one, `ClearCredentials` and `PublishCredential` do it for the credentials. A pod stands for
one container and image, a namespace for one pull secret; the many-to-many is in `PullCredentials`.

### PullCredentials

`ReadSecret` (failures pass the secret over), `PlanInspections` (one per distinct image and
candidates), `Ask` (candidates in order; only an auth failure moves on), `Report`, `Probe`. The
candidates of an image are its usable credentials (`Usable`) in the order in which the pods and their
lists bring the secrets up (`NoLater`, `InOrder`), each once, as `build_image_credentials` appends
them; of two credentials of one secret for one registry either may come first, but the same one each
time. The input of a cycle, what pods reference and secrets hold and registries serve, is chosen at the start
and does not change in the cycle: what is checked is the assignment of answers, for all inputs of the
instance. `ProbeImages`, `Presented` and `Listing` keep what the string handling *does*. A key of a secret and an
image each spell a registry: candidates are chosen by what the spellings stand for (`Host`,
`Registry`, through `_normalize_registry_host`), but the probe compares the spellings themselves, the
key's up to its first slash (`Part`) with what `registry_from_image` gives (`Named`). Of a key that is a
URL that is the scheme, `https:`, whatever its registry, so that it matches no image and its token,
filed under the scheme, reaches no registry; of a Docker Hub image without a host it is a URL
(`Implicit`), which no key is up to its first slash, while `docker.io/...` and the key `docker.io` do
match. The image name up to the first colon is another repository where the registry has a port.
`ValidityIsMeasured` says that where spellings agree the verdict is right, and is silent about the rest;
`InvalidMeansRefused`, which is not, is violated there. Left out: a path in a key without a scheme,
which restricts the token to repositories below it, an empty key, and that keys of one secret which are
equal up to the first slash share one published series.

## The runs

All passing runs but the two on liveness of rollouts check a type invariant; "f, e, r" are the bounds on failing
calls, edits of the world and restarts, "t" on all of these together.

| run | instance | what it shows |
|---|---|---|
| `rollout_safety` | 2 namespaces, 2 modes, f1 e1 r1 t3, symmetric | `OneRolloutAtATime`, `WholeOrNothing`, `IInv` (with `TypeOK`); the threads implement `SerialRollout` (`RolloutsAreSerial`) |
| `rollout_converges` | 2 namespaces, one with its own policy, f1 e1 t2, fair | `Converges`, `LockComesFree` though rollouts may never end |
| `rollout_upgrade` | 2 namespaces, one excluded by name, 2 modes, f2 e1 r2 t3, fair | `ExcludedStayEmpty`, `BootstrapReachesAll`, `UpgradeReaches` (with `Converges`), `StaysSettled` |
| `grants_converge` | 1 namespace, 2 threads, 6 configurations, f2 e2 r2, fair | `GrantsConverge`, `StaysSettled`, `FailuresAreReal`, `NoDanglingBinding` |
| `status_settles` | 2 namespaces, one excluded, 3 modes, f1 e2 r1, fair | `StatusIsSound`, `CheckersAreReported`, `CentralStatusSettles` |
| `sweep_settles` | 3 pods in 2 namespaces, pages of 2, 3 configurations, f2 e2 r1, fair | `OptOutsKept`, `ExcludedNeverAudited`, `FreshOptOutsHonoured`, `ScrapesNeverMix`, `SeriesSettle` |
| `credentials_shared` | 3 pods, 2 namespaces, 2 secrets each, 2 tokens, 2 registries with 2 keys each, 12928 inputs | `ReportsAreExact`, `NoFalseClaims`, `ValidityIsMeasured` |
| `rollout_wait` | 2 namespaces, 2 templates, 3 deploys, f2, fair | `CompleteIsTrue`, `WaitsEnd`; the waits implement `PacedRollouts` (`RolloutsArePaced`) |
| `cluster_audit` | 4 pods in 2 namespaces, 3 days, 2 policies and none, f1 e2, fair | `FamiliesShowOnePass`, `FreshIsAccurate`, `AuditSettles` |
| `cycle_paced` | intervals of 13 and 5 ticks, up to 3 inspections and 2 probes of 0, 1, 2 or 5 ticks | `EvenlySpread`, `CyclesAnIntervalApart` |
| `teardown_retried`, `credentials_invalid` | the least instance that shows it | a divergence each, below |

Why the bounds are enough. Two namespaces give the lock two contenders besides the audit thread, and
every property that relates namespaces relates two. One failing call, one edit and one restart in any
order put a failure before, within and after every operation and let its repair be disturbed once
more; `rollout_upgrade` has two restarts, so that a restarted process meets both an older template and
another mode's leftovers. With more than one namespace the grant model repeats itself, since no call
of one namespace touches another's objects and only the order of visits is shared; both callers are
there with one. Three pods at two to a page make a list of two pages and a namespace with two pods.
The credential instance has two pods that share an image in one namespace and a third in another, a
secret name that exists in both, one token in several secrets, a secret for two registries, each registry
as a host and as a URL, Docker Hub images with and without a host, and images no one, one, both or anybody
may pull. In `rollout_wait` three deploys give one namespace
a second rollout, with the status and a pod of the first still there, while another namespace waits
its turn; it says `CHECK_DEADLOCK FALSE`, because an operator whose checkers are all at their
template has nothing more to do. In `cluster_audit` one image runs in three versions and another in up
to three, spelled in two ways, with a tag that is stable by its platforms only, a digest beside a tag
and alone, no tag at all, and pods that opt out of one check or both. In `cycle_paced` five items of
five ticks overrun the interval, five of none leave all of it to the pacer. `MaxFaults`, `MaxEdits`, `MaxRestarts` and `MaxTrouble` bound
counters in the guards; they are what makes "once the world is quiet" mean anything under fairness.

Liveness is stated as `<>[]`: after the last failure, edit and restart the formula comes true and
stays. Assumed is only that the audit thread and a handler that has begun go on (`WF` on the thread
as a whole: the loop has no exit, every wait has a deadline, `deployer.py:749-774`), that a checker's
loop goes on, that the Deployment controller writes the statuses it owes (in `CheckerDeployment`), and
that a call returns. Nothing is assumed of rollouts, of kopf's delivery of events
(a handler need never start), of edits or of restarts.

Every property has a mutant: a change of one definition that a plausible bug would make (a handler
that ignores the result of its acquire, a lock kept on an exception, labels cached between passes, a
409 that raises, inspections shared by image alone, ...) under which the run finds the property
violated. The mutated forms stand in the modules as definitions headed "A variant".

## What is proved

In eight modules, each an `EXTENDS` of the one it is about. `CheckerRolloutProofs`, for every set of
namespaces, every policy assignment, every set of modes and
every bound:

| theorem | states |
|---|---|
| `Invariance` | `Spec => []IInv` |
| `TypeCorrect` | `Spec => []TypeOK` |
| `RolloutsOneAtATime` | `Spec => []OneRolloutAtATime` |
| `CheckersWholeOrAbsent` | `Spec => []WholeOrNothing` |
| `ImplementsSerialRollout` | `Spec => RolloutsAreSerial`, the refinement of `SerialRollout` |
| `ExcludedNamespacesStayEmpty` | `Spec => []ExcludedStayEmpty` |
| `BootstrapReachesEveryChecker` | `Spec => []BootstrapReachesAll` |
| `SettledStaysSettled` | `Spec => StaysSettled` |
| `SettledForEver` | from a settled state on, while the bounded counters stand still, `[]InPlace`, and `[]AtTemplate` if it holds |

Assumed are only the named assumptions on constants: names are distinct, modes are modes, bounds are
naturals, policies are policies.

Neither `OneRolloutAtATime` nor `WholeOrNothing` is inductive. The first does not say *who* waits for
a rollout, so nothing stops a second rollout from starting in a state where the first goes unwatched;
the second does not say what a thread in the middle of an operation has done. `IInv` adds

- `HolderInv`: a thread is in an operation exactly if it holds the lock;
- `WaitInv`: a rollout not given up has a thread waiting for it, which by `HolderInv` is *the* holder,
  so there is one such rollout at most;
- `ProgressInv`: an operation in a namespace that is not in `cut` has done all its steps so far, so
  that its last step leaves all five objects or none;
- `GoneInv`: a name without a namespace holds nothing, so that a namespace starts empty.

One lemma per conjunct, one case per action; `Step` lists the actions so that the cases read alike.
The refinement maps the owner to the namespace of the lock's holder: acquisitions are `Begin`, calls
under the lock are `Change` or stutter, and `WaitInv` is what makes a release with the rollout still
on a release of a rollout given up. `ExcludedStayEmpty` needs its own invariant, that no thread is
past its decision on an excluded namespace, whatever the policy reads answered.

`BootstrapReachesAll` speaks of the end of a pass. What carries it there (`UpgradeInv`) is that every
checker of an earlier template is still *ahead* of the bootstrap: to be listed, in its list, or being
deployed by it. Bootstrap may not pass such a namespace by, because without an edit the labels it
listed are the present ones.

`Converges` and `UpgradeReaches` say that a state is reached and then kept. The second half is
safety, and is proved: `Settled` is the state that is kept, in which besides the checkers what every
thread has decided, and the labels the audit thread has listed, agree with the policy. `StaysSettled`
says that no step but a fault, an edit or a restart leaves it, makes a Deployment roll again or takes
the template back; `SettledForEver` is what follows for a behaviour. The run checks `StaysSettled` as
well as the two liveness properties, so on its instance both halves are there.

`CheckerDeploymentProofs`, for any number of namespaces and templates:

| theorem | states |
|---|---|
| `DeploymentTypeCorrect` | `Spec => []TypeOK`, with at most two pods to a Deployment and no status ahead of its generation |
| `CompletionIsTrue` | `Spec => []CompleteIsTrue`: an accepted status is of the present template, and true |
| `ImplementsPacedRollouts` | `Spec => RolloutsArePaced` |

`CompleteIsTrue` is not inductive: what makes it true is in the observation variable `done`. The
invariant `WaitInv` adds that a Deployment whose only pod is ready and of its template is in `done`
(`DoneIsMarked`) and that a Deployment that still rolls is the one waited for or was given up
(`OneWaitedFor`). The status the controller writes counts as complete only of exactly one pod, ready
and of the template (`CountsAreTrue`), by cardinalities; so by `DoneIsMarked` the rollout is done when
it is written, and a new template leaves every earlier status a generation behind. The refinement
follows: `PollComplete` is a stutter because the rollout had finished, and a wait ended in any other
way is `GiveUp`.

`ClusterAuditProofs`, for every cluster, every set of policies and every vocabulary of tags:

| theorem | states |
|---|---|
| `ClassifiesAsDocumented` | `IsPrerelease`, which strips and then looks at what is left, is the negation of what the documentation of `is_prerelease_tag` calls stable |
| `AuditTypeCorrect` | `Spec => []TypeOK`, ages between 0 and today |
| `ScrapesShowOnePass` | `Spec => []FamiliesShowOnePass` |
| `FreshPassesAreAccurate` | `Spec => []FreshIsAccurate` |
| `QuietPassesAreAccurate` | from the start of a pass on, while world and failures stand still, the metrics are accurate whenever the audit sleeps |

The first needs that the `CHOOSE` in `Kept` has something to choose, a least element (`Least`);
`FamiliesShowOnePass` is inductive as it stands but for the types, one lemma for the steps that leave
the families alone and one for those that set them.

`FreshIsAccurate` joins the two. `Accurate` is written from the world and the documentation: what is
unstable by `StableForm`, how old by `Since`, who opted out of what, how many versions of an image
run where. The metrics are what was computed of a list, by stripping, grouping and counting, and set
one by one. If list and policy were the present ones (`Fresh`), then by `FamiliesShowOnePass` the
families show what was computed, by `ClassifiesAsDocumented` the findings are those of the unstable
containers, and of each image that runs in several versions there is a series for every version and
namespace (`SeveralVersions`: two versions make a cardinality above one, which is where the
containers have to be finitely many). `QuietPassesAreAccurate` adds that a pass that begins in a
quiet world is `Fresh` to its end and so is every later one (`FreshStep`): the safety half of
`AuditSettles`. Assumed of the constants is, besides types, that suffixes are names of platforms
without version numbers, as the CRD documents them.

`PacedCycleProofs`, for every interval, every number of items and every cost:

| theorem | states |
|---|---|
| `PacerTypeCorrect` | `Spec => []TypeOK`: the count of the pacer is what is still to come |
| `WorkIsSpread` | `Spec => []EvenlySpread` |
| `CyclesKeepTheInterval` | `Spec => CyclesAnIntervalApart` |

The argument is one step of the schedule: who is at most *k* of *g* shares on and sleeps at most one
*r*-th of what is left, with *k* + *r* = *g*, is at most *k* + 1 shares on (`ShareAbove`), and the same
from below with a tick for the rounding (`ShareBelow`).

`CheckerSweepProofs`, for every set of namespaces and pods, every page size and every bound:

| theorem | states |
|---|---|
| `SweepTypeCorrect` | `Spec => []TypeOK` |
| `ExcludedStayOut` | `Spec => []ExcludedNeverAudited` |
| `FailuresWidenNothing` | `Spec => []OptOutsKept` |
| `OptOutsTakeEffect` | `Spec => []FreshOptOutsHonoured` |
| `ScrapesSeeOneCycle` | `Spec => []ScrapesNeverMix` |

The properties speak of the pods that are listed; what they rest on is what a cycle *excludes*.
`SweepInv` adds that a central cycle under way excludes the named namespaces, and with labels exactly
the last answer, which has everyone opted out since the cycle began unless it is stale (`CycleInv`),
that every answer kept has the named ones in it (`LastInv`), and that a sleeping checker has nothing
in hand, so that no list outlives its exclusions (`SleepInv`).

`CentralGrantsProofs`, for every set of namespaces, every configuration and every bound:

| theorem | states |
|---|---|
| `GrantsTypeCorrect` | `Spec => []TypeOK` |
| `BindingsPointAtRoles` | `Spec => []NoDanglingBinding` |
| `FailuresHaveACause` | `Spec => FailuresAreReal` |
| `SettledStaysSettled` | `Spec => StaysSettled` |
| `SettledForEver` | from a settled state of central mode on, while the bounded counters stand still, `[]InPlace`, and nothing is written |

The second is an action property: edits, restarts and failing calls are in it, and only a step of a
thread in `met` is excepted. Its invariant (`MetInv`) says that two threads of opposite intent in one
namespace are both in `met`, and that of a thread that is not, what its own earlier calls brought about
still stands: one that has come to the binding finds the Role there, one that has come to the Role, to
delete it, finds the binding gone. That is kept because whoever could undo it, by deleting the Role or
creating the binding, is of opposite intent (`EnsureEffects`, `RevokeEffects`, `MetStep`).
The third needs that a thread in the middle of a call has a namespace, which is in `TypeOK`.
The last two are the safety half of `GrantsConverge`: where grants are as desired
and every thread has decided accordingly, a read finds what it compares with and turns to no write
(`NothingToDo`), a new decision agrees with the old ones (`DecisionAgrees`), and a namespace that is
gone, which a thread may still be in, has no grant to write to (`GoneInv`).

`ReconcileStatusProofs`, for every set of namespaces, modes, policies and every bound:

| theorem | states |
|---|---|
| `StatusTypeCorrect` | `Spec => []TypeOK` |
| `MergesStaySound` | `Spec => []StatusIsSound` |

`StatusIsSound` says that a namespace excluded by name is never covered (`ExcludedNeverCovered`) and
that an uncovered one has a reason of its own (`UncoveredHasReason`); both speak of the status, which
is the merge of all passes so far. The invariant (`SoundInv`) is that an entry is sound wherever it is, in the report of the pass or in the status, and
that nobody excluded by name has a checker to report; the merge of two sound entries is sound, since
an entry without a reason is one of a covered namespace.

`PullCredentialsProofs`, for every cluster, every registry and every world:

| theorem | states |
|---|---|
| `CredentialsTypeCorrect` | `Spec => []TypeOK`, with an answer for every pod |
| `VerdictsAreRight` | `Spec => []ValidityIsMeasured` |
| `AnswersAreHonest` | the invariant behind the next two |
| `SharingIsExact` | `Spec => []ReportsAreExact` |
| `ClaimsAreTrue` | `Spec => []NoFalseClaims` |

`AnsweredInv` says that every pod's inspection is to be made or has been, so that `Report` finds one;
`SameInspections` that the inspections do not change between the plan and the report. A verdict is
right when it is given, since the images probed are the credential's own, and what an image spells as
the key does is a host, neither a scheme nor left out, so that the token reaches its registry
(`ProbedAreMine`); it stays right, since faults are only counted on while the verdict is there.

`ReportsAreExact` and `NoFalseClaims` compare a report with what the pod's namespace holds, not with
what the inspection was given, and several pods share one inspection. `HonestInv` says of an answer
what can be said of the inspection alone: a token among its candidates is served, or none is.
`RefusedInv` carries that through the candidates passed over, `KnownInv` says that without a failing
call every secret that is wanted is among the credentials. It remains that the candidates are all of
the usable credentials and no others (`CandidatesAreUsable`, `TokensAre`, `CallersAre`), which needs
that a listing of a finite set in the order of a total preorder exists (`OrderedListing`); its
induction is one over a least counterexample, since the induction theorems of the library are out of
reach. Assumed is that names and keys are finitely many, and that a key without a scheme is for the registry
that it spells up to its first slash (`Host`, `At`, `Part`).

Only model-checked is liveness under fairness, which this prover cannot do: that the settled states
of `Converges`, `UpgradeReaches`, `GrantsConverge` and `AuditSettles` are *reached*
(that they are kept is proved, above), and all of `LockComesFree`, `CheckersAreReported`,
`CentralStatusSettles`, `SeriesSettle` and `WaitsEnd`.

## Divergences

Runs that end in a violation, each checking what the repository says of itself:

| run | says | does |
|---|---|---|
| `teardown_retried` | `README.md:278-280`: a failure "is retried next pass" | a teardown that fails after the Deployment is never taken up: later passes probe the Deployment (`deployer.py:830`, `main.py:344`) |
| `credentials_invalid` | `kubeic_checker/main.py:278`: "Only marks credentials invalid on authentication failures" | a credential whose key is a URL, or for Docker Hub images without a host, matches no image and is published invalid, unasked (`:339, :368`) |

Met while modelling, kept in the models as the code has them, without a run of their own:

- One failed policy read is an empty policy, and a checker is deployed into a namespace that opted out
  by label (`handlers/namespace.py:37`; `README.md:66`: "enforced by not deploying a checker").
- `deployed: true` keeps the reason of an earlier failure, since the status is merged
  (`main.py:376, 436`; `README.md:284-285`: "what actually happened").
- A cycle without pods clears nothing, so the series of the last pods stay
  (`kubeic_checker/main.py:446`; `README.md:274-275`: "cleared and repopulated every cycle").
  `SeriesSettle` speaks of scopes with a pod.
- The cluster audit goes by cluster-defaults alone: `prerelease.maxAgeDays` and
  `versionSpread.threshold` of a namespace's own policy have no effect (`main.py:472-476`;
  `README.md:141-154` shows them as "Per-namespace overrides").
- A cycle lasts longer than the interval by what its last item takes, which begins at the deadline
  (`kubeic_checker/main.py:431`: "Every cycle still lasts a full interval").
  `CyclesAnIntervalApart` states what holds.
- A bootstrap deploy over an older checker that fails before its Deployment is not retried by
  reconcile, which finds a Deployment there (`main.py:365`). `UpgradeReaches` says "unless a call failed".
- Grants stay when the mode changes from central to perNamespace (`main.py:332`; `README.md:57`).
- Another ServiceAccount name never reaches an existing binding, of which only labels are compared
  (`deployer.py:581`). `GrantsConverge` is checked for one account.
- A teardown that failed is reported `deployed: true` even if the Deployment went (`main.py:397`;
  `README.md:291-292`), in central mode too (`main.py:401`; `main.py:222-226`).
- A namespace without a Deployment that should have none gets no entry and keeps its old one
  (`main.py:406`; `config/crd/imageauditpolicy.yaml:120`).
- An exception other than `ApiException` ends a pass for the namespaces after it (`main.py:346`;
  `README.md:280-282`).
- A scrape can meet a half-built set of series (`metrics.py:176`; `kubeic_checker/main.py:399-400`).
- Candidates are shared by a namespace's pods with the same image (`credentials.py:151` against
  `:119-120`). `ReportsAreExact` states what holds.

## Not modelled

- The diff-base storage: only its effect, that any live namespace may turn up as a create, is modelled.
  That effect contains whatever the storage and its pruning make kopf do, and how kopf classifies an
  event is not in this repository.
- The cleanup job (`cleanup.py`): sequential deletes, whose overlap with the operator Helm decides; and
  two operators that overlap during an update of the operator itself.
- Edits of policies while the operator deploys checkers, and settings a checker gets from its policy.
- Manifest contents, label formats, metric help, Helm templates, CRD schema: data without control.
- `skopeo` itself, retries and the classification of its output; digest comparison.

## Plan

The order so far was by weight: rollouts, then what decides them, then grants, status, the checker's
cycle, credentials, then the wait, the cluster audit and the pacer. What is left:

1. Policy edits in `CheckerRollout`, with `IInv` and its proofs.
2. `Uninstall`: the cleanup job beside an operator that is still running; whether anything is left.
3. `OperatorOverlap`: two processes with a lock each.
4. `DiffBase`: the in-memory storage and its pruning, in place of the free `pending`.

## Running it

    tlc -workers 2 -config rollout_safety.cfg MCRollout
    tlapm CheckerRolloutProofs.tla      # and the other seven

Every `.cfg` names its run; `PROJECT.json` says which module it belongs to.
