---------------------------- MODULE ClusterAudit ----------------------------
(***************************************************************************)
(* The operator's own audit of the whole cluster, first thing in its audit *)
(* thread and once per SCAN_INTERVAL: it lists all pods, reads the         *)
(* cluster-defaults policy, finds pre-release tags and the versions of     *)
(* each image, and clears and sets the metrics one by one, while pods come *)
(* and go, days pass, the policy is edited, calls fail and the process is  *)
(* replaced.  Nothing of a pass is kept for the next but the metrics.      *)
(***************************************************************************)
EXTENDS ImageTags, FiniteSets

CONSTANTS
    Pods, Namespaces,
    Template,       \* Template[p]: namespace, images and skipped checks of pod p
    Present,        \* pods that run from the start
    Policies,       \* what the cluster-defaults policy may say
    BuiltIn,        \* what the code uses where no policy says otherwise
    MaxDays, MaxEdits, MaxFaults    \* bounds: days, edits of the world, failures

Checks == {"prerelease", "spread"}
\* honours: whether the policy names the annotation by which pods opt out.  Suffixes are
\* names of platforms, without version numbers.
Policy == [maxAge : Nat, suffixes : SUBSET (Words \ {Number}), honours : BOOLEAN, threshold : Nat]
Image == [path : Seq(STRING), tag : Tags, digest : Tags]

ASSUME AuditAssumption ==
    /\ IsFiniteSet(Pods) /\ Present \subseteq Pods
    /\ \A p \in Pods : /\ Template[p].namespace \in Namespaces
                       /\ Template[p].skips \subseteq Checks
                       /\ Template[p].images \in Seq(Image)
    /\ Policies \subseteq Policy /\ BuiltIn \in Policy /\ ~BuiltIn.honours

ASSUME BoundsAssumption ==
    MaxDays \in Nat /\ MaxEdits \in Nat /\ MaxFaults \in Nat

VARIABLES
    \* the world
    today,
    phase, created, started,    \* of each pod; the days it was created and started
    policy,         \* cluster-defaults, BuiltIn if there is none
    \* the audit thread
    pc,
    listed,         \* the pods of the list, each with the day its age counts from
    used,           \* the policy this pass goes by, or the last that had one
    findings,       \* the age of each container with a pre-release tag
    spread,         \* the versions of each image that has several
    todo,           \* containers or images whose series are still to be set
    \* the metrics
    prerelease,     \* kube_image_is_prerelease and kube_image_prerelease_age_days
    violation,      \* kube_image_prerelease_violation
    versions,       \* kube_image_version_count and kube_image_version_spread_violation
    tagCounts,      \* kube_image_version_pod_count
    edits, faults

world == <<today, phase, created, started, policy>>
results == <<used, findings, spread>>
metrics == <<prerelease, violation, versions, tagCounts>>
bounds == <<edits, faults>>
vars == <<world, pc, listed, results, todo, metrics, bounds>>

Empty == <<>>       \* the function with no domain: no series, no findings
Fault == faults < MaxFaults /\ faults' = faults + 1

---------------------------------------------------------------------------
(* What a pass finds                                                       *)

\* Terminated pods never pull again and are left out.
Alive == {p \in Pods : phase[p] \in {"pending", "running"}}

\* startTime, or the creation of a pod that has not started.
Since(p) == IF phase[p] = "running" THEN started[p] ELSE created[p]

\* A list of the pods as they are.
Listing == [p \in Alive |-> Since(p)]

\* Containers and init containers, of pods that may be looked at.
Containers(pods) == UNION {{p} \X DOMAIN Template[p].images : p \in pods}
ImageOf(c) == Template[c[1]].images[c[2]]
NamespaceOf(c) == Template[c[1]].namespace
NameOf == [c \in Containers(Pods) |-> ParseRegistry(ImageOf(c).path)]
VersionOf == [c \in Containers(Pods) |-> TagOf(ImageOf(c))]

\* Variant: the annotation counts whether or not a policy names it.
AnnotatedSkips(p, check, r) == check \in Template[p].skips

\* should_skip, for the annotation the policy names, if it names one.
Skips(p, check, r) == r.honours /\ check \in Template[p].skips

Checked(pods, check, r) == Containers({p \in pods : ~Skips(p, check, r)})

\* Variant: the difference is taken the wrong way round.
FindingsNegative(since, r) ==
    [c \in {d \in Checked(DOMAIN since, "prerelease", r) : IsPrerelease(VersionOf[d], r.suffixes)}
        |-> since[c[1]] - today]

\* check_prerelease
Findings(since, r) ==
    [c \in {d \in Checked(DOMAIN since, "prerelease", r) : IsPrerelease(VersionOf[d], r.suffixes)}
        |-> today - since[c[1]]]

\* filter_violations: strictly older.
Violations(found, r) == {c \in DOMAIN found : found[c] > r.maxAge}

\* aggregate_version_spread: for each image the containers that run it, if they
\* run several versions.
Spread(pods, r) ==
    LET cs == Checked(pods, "spread", r)
        runs(k) == {c \in cs : NameOf[c] = k}
        several == {k \in {NameOf[c] : c \in cs} : Cardinality({VersionOf[c] : c \in runs(k)}) > 1}
    IN [k \in several |-> runs(k)]

VersionCount(k) == Cardinality({VersionOf[c] : c \in spread[k]})
TagSeries(k) == {<<k, VersionOf[c], NamespaceOf(c)>> : c \in spread[k]}
TagCount(t) == Cardinality({c \in spread[t[1]] : VersionOf[c] = t[2] /\ NamespaceOf(c) = t[3]})

---------------------------------------------------------------------------
(* A pass                                                                  *)

Wake ==
    /\ pc = "sleep" /\ pc' = "list"
    /\ UNCHANGED <<world, listed, results, todo, metrics, bounds>>

\* _run_cluster_audit lists the pods of all namespaces.
List ==
    /\ pc = "list" /\ pc' = "policy"
    /\ listed' = Listing
    /\ UNCHANGED <<world, results, todo, metrics, bounds>>

\* The list failed, or anything but an answer of the API server was raised by
\* the read of the policy: the pass is over, the metrics stay.
PassFails ==
    /\ pc \in {"list", "policy"} /\ Fault
    /\ pc' = "sleep" /\ listed' = Empty
    /\ UNCHANGED <<world, results, todo, metrics, edits>>

\* The rest of the pass computes from the list and the policy alone.
Compute(r) ==
    /\ pc = "policy" /\ pc' = "clear"
    /\ used' = r /\ findings' = Findings(listed, r) /\ spread' = Spread(DOMAIN listed, r)
    /\ listed' = Empty
    /\ UNCHANGED <<world, todo, metrics, edits>>

\* _get_default_policy: the policy, or the built-in values if it cannot be read.
ReadPolicy == Compute(policy) /\ UNCHANGED faults
ReadFails == Compute(BuiltIn) /\ Fault

---------------------------------------------------------------------------
(* Publication, beside the thread that serves scrapes                      *)

\* Variant: the findings of passes before stay.
ClearNothing ==
    /\ pc = "clear" /\ pc' = "clearViolations"
    /\ UNCHANGED <<world, listed, results, todo, metrics, bounds>>

\* update_prerelease_metrics: three families are cleared,
Clear ==
    /\ pc = "clear" /\ pc' = "clearViolations"
    /\ prerelease' = Empty
    /\ UNCHANGED <<world, listed, results, todo, violation, versions, tagCounts, bounds>>

ClearViolations ==
    /\ pc = "clearViolations" /\ pc' = "find"
    /\ violation' = {} /\ todo' = DOMAIN findings
    /\ UNCHANGED <<world, listed, results, prerelease, versions, tagCounts, bounds>>

\* then the findings are set one by one,
SetFinding(c) ==
    /\ pc = "find" /\ c \in todo
    /\ prerelease' = [d \in DOMAIN prerelease \union {c} |->
                        IF d = c THEN findings[c] ELSE prerelease[d]]
    /\ todo' = todo \ {c}
    /\ UNCHANGED <<world, pc, listed, results, violation, versions, tagCounts, bounds>>

\* then the violations.
TurnToViolations ==
    /\ pc = "find" /\ todo = {} /\ pc' = "violate" /\ todo' = Violations(findings, used)
    /\ UNCHANGED <<world, listed, results, metrics, bounds>>

SetViolation(c) ==
    /\ pc = "violate" /\ c \in todo
    /\ violation' = violation \union {c} /\ todo' = todo \ {c}
    /\ UNCHANGED <<world, pc, listed, results, prerelease, versions, tagCounts, bounds>>

\* update_spread_metrics: again three families are cleared,
ClearVersions ==
    /\ pc = "violate" /\ todo = {} /\ pc' = "clearTags"
    /\ versions' = Empty
    /\ UNCHANGED <<world, listed, results, todo, prerelease, violation, tagCounts, bounds>>

ClearTags ==
    /\ pc = "clearTags" /\ pc' = "spread"
    /\ tagCounts' = Empty /\ todo' = DOMAIN spread
    /\ UNCHANGED <<world, listed, results, prerelease, violation, versions, bounds>>

\* then each image gets its count and whether it violates the threshold,
SetVersions(k) ==
    /\ pc = "spread" /\ k \in todo /\ pc' = "tags"
    /\ versions' = [j \in DOMAIN versions \union {k} |->
                        IF j = k THEN [count |-> VersionCount(k),
                                       violates |-> VersionCount(k) > used.threshold]
                                 ELSE versions[j]]
    /\ todo' = todo \ {k}
    /\ UNCHANGED <<world, listed, results, prerelease, violation, tagCounts, bounds>>

\* and one series for each of its tags and namespaces, here all in one step.
SetTags(k) ==
    /\ pc = "tags" /\ k \in DOMAIN versions /\ ~(TagSeries(k) \subseteq DOMAIN tagCounts)
    /\ pc' = "spread"
    /\ tagCounts' = [t \in DOMAIN tagCounts \union TagSeries(k) |->
                        IF t \in TagSeries(k) THEN TagCount(t) ELSE tagCounts[t]]
    /\ UNCHANGED <<world, listed, results, todo, prerelease, violation, versions, bounds>>

PassEnds ==
    /\ pc = "spread" /\ todo = {} /\ pc' = "sleep"
    /\ UNCHANGED <<world, listed, results, todo, metrics, bounds>>

---------------------------------------------------------------------------
(* The world                                                               *)

Edit == edits < MaxEdits /\ edits' = edits + 1
Elsewhere == UNCHANGED <<pc, listed, results, todo, metrics, faults>>

PodCreated(p) ==
    /\ p \notin Alive /\ Edit
    /\ phase' = [phase EXCEPT ![p] = "pending"] /\ created' = [created EXCEPT ![p] = today]
    /\ UNCHANGED <<today, started, policy>> /\ Elsewhere

PodStarts(p) ==
    /\ phase[p] = "pending"
    /\ phase' = [phase EXCEPT ![p] = "running"] /\ started' = [started EXCEPT ![p] = today]
    /\ UNCHANGED <<today, created, policy, edits>> /\ Elsewhere

\* It terminates, or is deleted: no list of this audit tells the two apart.
PodEnds(p) ==
    /\ p \in Alive /\ Edit
    /\ phase' = [phase EXCEPT ![p] = "over"]
    /\ UNCHANGED <<today, created, started, policy>> /\ Elsewhere

PolicyEdited(r) ==
    /\ r # policy /\ Edit /\ policy' = r
    /\ UNCHANGED <<today, phase, created, started>> /\ Elsewhere

DayPasses ==
    /\ today < MaxDays /\ today' = today + 1
    /\ UNCHANGED <<phase, created, started, policy, edits>> /\ Elsewhere

\* The process is replaced; the new one starts with a pass.
Restart ==
    /\ Fault
    /\ pc' = "list" /\ listed' = Empty /\ todo' = {}
    /\ used' = BuiltIn /\ findings' = Empty /\ spread' = Empty
    /\ prerelease' = Empty /\ violation' = {} /\ versions' = Empty /\ tagCounts' = Empty
    /\ UNCHANGED <<world, edits>>

---------------------------------------------------------------------------
(* The specification                                                       *)

Init ==
    /\ today = 0 /\ phase = [p \in Pods |-> IF p \in Present THEN "running" ELSE "over"]
    /\ created = [p \in Pods |-> 0] /\ started = [p \in Pods |-> 0]
    /\ policy \in Policies
    /\ pc = "list" /\ listed = Empty /\ todo = {}
    /\ used = BuiltIn /\ findings = Empty /\ spread = Empty
    /\ prerelease = Empty /\ violation = {} /\ versions = Empty /\ tagCounts = Empty
    /\ edits = 0 /\ faults = 0

Audit ==
    \/ Wake \/ List \/ PassFails \/ ReadPolicy \/ ReadFails
    \/ Clear \/ ClearViolations \/ TurnToViolations
    \/ \E c \in todo : SetFinding(c) \/ SetViolation(c) \/ SetVersions(c)
    \/ ClearVersions \/ ClearTags
    \/ \E k \in DOMAIN spread : SetTags(k)
    \/ PassEnds

World ==
    \/ \E p \in Pods : PodCreated(p) \/ PodStarts(p) \/ PodEnds(p)
    \/ \E r \in Policies : PolicyEdited(r)
    \/ DayPasses \/ Restart

Next == Audit \/ World

Spec == Init /\ [][Next]_vars

\* The loop of the audit thread goes on for ever.
FairSpec == Spec /\ WF_vars(Audit)

---------------------------------------------------------------------------
(* Properties                                                              *)

Phases == {"pending", "running", "over"}
Positions == {"sleep", "list", "policy", "clear", "clearViolations", "find", "violate",
              "clearTags", "spread", "tags"}

\* Every variable has its type: days do not lie in the future, series are of
\* containers and images there are.
TypeOK ==
    /\ today \in 0 .. MaxDays
    /\ phase \in [Pods -> Phases]
    /\ created \in [Pods -> 0 .. today] /\ started \in [Pods -> 0 .. today]
    /\ policy \in Policies /\ used \in Policies \union {BuiltIn}
    /\ pc \in Positions
    /\ DOMAIN listed \subseteq Pods /\ \A p \in DOMAIN listed : listed[p] \in 0 .. today
    /\ DOMAIN findings \subseteq Containers(Pods)
    /\ \A c \in DOMAIN findings : findings[c] \in 0 .. today
    /\ \A k \in DOMAIN spread : spread[k] \subseteq Containers(Pods)
    /\ pc \in {"find", "violate"} => todo \subseteq DOMAIN findings
    /\ pc \in {"spread", "tags"} => todo \subseteq DOMAIN spread
    /\ edits \in 0 .. MaxEdits /\ faults \in 0 .. MaxFaults

\* Series of one family: those set so far are of this pass, and with the ones
\* left they are all of it.
FindingsShown(left) ==
    /\ \A c \in DOMAIN prerelease : c \in DOMAIN findings /\ prerelease[c] = findings[c]
    /\ DOMAIN prerelease \union left = DOMAIN findings
ViolationsShown(left) ==
    violation \union left = Violations(findings, used)
VersionsShown(left) ==
    /\ \A k \in DOMAIN versions :
          /\ k \in DOMAIN spread /\ versions[k].count = VersionCount(k)
          /\ versions[k].violates = (VersionCount(k) > used.threshold)
    /\ DOMAIN versions \union left = DOMAIN spread
TagsShown(left) ==
    /\ \A t \in DOMAIN tagCounts :
          \E k \in DOMAIN versions : t \in TagSeries(k) /\ tagCounts[t] = TagCount(t)
    /\ \A k \in DOMAIN versions \ left : TagSeries(k) \subseteq DOMAIN tagCounts

Between == pc \in {"sleep", "list", "policy"}

\* A scrape, whenever it comes, never meets a family with series of two passes
\* once it is being published, and none is forgotten; between passes, and after one that
\* failed, every family shows one whole pass, the same for all.
FamiliesShowOnePass ==
    /\ pc = "clearViolations" => FindingsShown(DOMAIN findings)
    /\ pc = "find" => FindingsShown(todo) /\ violation = {}
    /\ pc = "violate" => FindingsShown({}) /\ ViolationsShown(todo)
    /\ pc = "clearTags" => versions = Empty
    /\ Between \/ pc \in {"clearTags", "spread", "tags"} =>
          FindingsShown({}) /\ ViolationsShown({})
    /\ pc \in {"spread", "tags"} => VersionsShown(todo)
    /\ pc = "tags" => \E k \in DOMAIN versions : TagsShown({k})
    /\ Between => VersionsShown({})
    /\ Between \/ pc = "spread" => TagsShown({})

\* What is_prerelease_tag's documentation calls stable: a digest, a version with
\* nothing but at most one number and then platforms behind it, a platform with
\* a version.
StableForm(tag, suffixes) ==
    LET rest == tag.rest
        platforms(n) == \A i \in n + 1 .. Len(rest) : rest[i] \in suffixes
    IN \/ tag.kind = "digest"
       \/ tag.kind = "version" /\ (platforms(0) \/ (platforms(1) /\ rest[1] = Number))
       \/ tag.kind # "version" /\ PlatformVersion(rest, suffixes)

\* What the metrics should say of the pods and the policy as they are.
OptedOut(c, check) == policy.honours /\ check \in Template[c[1]].skips
Unstable(c) == ~StableForm(VersionOf[c], Suffixes(policy.suffixes))
Age(c) == today - Since(c[1])
Running(check) == {c \in Containers(Alive) : ~OptedOut(c, check)}
Of(k, tag) == {c \in Running("spread") : NameOf[c] = k /\ VersionOf[c] = tag}

Accurate ==
    /\ DOMAIN prerelease = {c \in Running("prerelease") : Unstable(c)}
    /\ \A c \in DOMAIN prerelease : prerelease[c] = Age(c)
    /\ violation = {c \in Running("prerelease") : Unstable(c) /\ Age(c) > policy.maxAge}
    /\ \A c, d \in Running("spread") :
          NameOf[c] = NameOf[d] /\ VersionOf[c] # VersionOf[d] =>
             <<NameOf[c], VersionOf[c], NamespaceOf(c)>> \in DOMAIN tagCounts
    /\ \A t \in DOMAIN tagCounts :
          /\ t[1] \in DOMAIN versions
          /\ tagCounts[t] = Cardinality({c \in Of(t[1], t[2]) : NamespaceOf(c) = t[3]})
    /\ \A k \in DOMAIN versions :
          /\ versions[k].count = Cardinality({t[2] : t \in {u \in DOMAIN tagCounts : u[1] = k}})
          /\ versions[k].violates = (versions[k].count > policy.threshold)

\* What this pass, or the last, went by is what is there now.
Fresh ==
    /\ pc = "policy" => listed = Listing
    /\ pc \notin {"list", "policy"} =>
          used = policy /\ findings = Findings(Listing, policy) /\ spread = Spread(Alive, policy)

\* From pods and policy to series nothing is lost or made up on the way: tags judged by
\* stripping, opt-outs, ages, groups of images, series cleared and set one by one.  A pass
\* that went by what is there leaves metrics that say what they should, whatever passes,
\* failures and processes came before it.
FreshIsAccurate == pc = "sleep" /\ Fresh => Accurate

\* The audit goes on, and once the world is quiet each pass leaves the metrics
\* telling exactly what runs, under the policy as it is, whatever reads failed
\* and whoever was forgotten in passes before.
AuditSettles == []<>(pc = "sleep") /\ <>[](pc = "sleep" => Accurate)
=============================================================================
