---------------------------- MODULE CheckerSweep ----------------------------
(***************************************************************************)
(* One checker process and what it exposes: cycle after cycle it decides   *)
(* which namespaces it may look at, lists the pods page by page, inspects  *)
(* their images and publishes the answers, while pods come and go, labels  *)
(* and registries change, calls fail and the process is restarted.         *)
(*                                                                         *)
(* A pod stands for one container with its image, a namespace for its one  *)
(* pull secret; PullCredentials has the many to many, PacedCycle the time. *)
(***************************************************************************)
EXTENDS Naturals, FiniteSets

CONSTANTS
    Namespaces, Pods,
    Home,           \* Home[p]: the namespace of p
    Annotated,      \* pods with the skip annotation
    Excluded,       \* EXCLUDED_NAMESPACES
    Configs,        \* the configurations a checker may be started with
    PageSize,       \* POD_PAGE_SIZE
    None,
    MaxFaults, MaxEdits, MaxRestarts    \* bounds, as in CheckerRollout

\* NAMESPACE of a perNamespace checker, None of a central one; and whether
\* EXCLUDE_LABELS names any label.
Config == [own : Namespaces \union {None}, labels : BOOLEAN]

ASSUME SweepAssumption ==
    /\ Home \in [Pods -> Namespaces] /\ IsFiniteSet(Pods)
    /\ Annotated \subseteq Pods /\ Excluded \subseteq Namespaces
    /\ None \notin Namespaces /\ (\A S \in SUBSET Namespaces : None # S)
    /\ Configs \subseteq Config
    /\ PageSize \in Nat \ {0}

ASSUME BoundsAssumption ==
    MaxFaults \in Nat /\ MaxEdits \in Nat /\ MaxRestarts \in Nat

VARIABLES
    \* the world
    running,        \* pods that have not terminated
    optOut,         \* namespaces that carry one of the exclude labels
    pullable,       \* pods whose image the registry would serve
    \* the process
    conf,           \* its configuration
    pc,
    last,           \* _last_excluded, None before the first answer
    excluded,       \* the exclusion set of this cycle
    unread,         \* pods of the list's snapshot on pages still to come
    listed,         \* pods kept from the pages read
    todo,           \* pods still to be inspected, or to be published
    result,         \* result[p]: what the inspection of p answered
    \* the metrics
    series,         \* kube_image_available
    creds,          \* namespaces with a kube_image_credential_valid
    \* observation only
    loyal,          \* namespaces opted out since the cycle began
    stale,          \* the exclusion set of this cycle is an earlier one
    faults, edits, restarts

world == <<running, optOut, pullable>>
cycle == <<excluded, unread, listed, todo, result, stale>>
bounds == <<faults, edits, restarts>>
vars == <<world, conf, pc, last, cycle, series, creds, loyal, bounds>>

Answers == {"absent", "available", "unavailable"}
Nothing == [p \in Pods |-> "absent"]

Central == conf.own = None
ExcludeLabels == conf.labels
InScope(p) == Central \/ Home[p] = conf.own
Auditable(S) == S \ Annotated
Homes(S) == {Home[p] : p \in S}

ApiFault == faults < MaxFaults /\ faults' = faults + 1

\* A variant: the answers of the cycle are kept.
SleepWithAnswers ==
    /\ pc' = "sleep"
    /\ excluded' = {} /\ unread' = {} /\ listed' = {} /\ todo' = {} /\ stale' = FALSE
    /\ UNCHANGED result

\* The cycle is over, or it raised and was logged.
Sleep ==
    /\ pc' = "sleep"
    /\ excluded' = {} /\ unread' = {} /\ listed' = {} /\ todo' = {} /\ result' = Nothing
    /\ stale' = FALSE

---------------------------------------------------------------------------
(* Which namespaces, which pods                                            *)

\* Variants of Resolve: an answer once computed is kept; without an answer only
\* the named namespaces are excluded; only labels count.
ExclusionsKept(set, old) ==
    /\ set = (IF last = None THEN Excluded \union optOut ELSE last)
    /\ ~old /\ last' = set /\ UNCHANGED faults
NamedOnly(set, old) ==
    \/ set = Excluded \union optOut /\ ~old /\ last' = set /\ UNCHANGED faults
    \/ ApiFault /\ set = Excluded /\ old /\ UNCHANGED last
LabelsOnly(set, old) ==
    \/ set = optOut /\ ~old /\ last' = set /\ UNCHANGED faults
    \/ ApiFault /\ last # None /\ set = last /\ old /\ UNCHANGED last

\* _resolve_excluded_namespaces: the set it returns, and whether it is an
\* earlier one because the namespaces could not be listed.
Resolve(set, old) ==
    \/ ~ExcludeLabels /\ set = Excluded /\ ~old /\ UNCHANGED <<last, faults>>
    \/ /\ ExcludeLabels /\ set = Excluded \union optOut /\ ~old
       /\ last' = set /\ UNCHANGED faults
    \/ /\ ExcludeLabels /\ ApiFault /\ last # None
       /\ set = last /\ old /\ UNCHANGED last

\* A cycle begins.  Only the central checker excludes anything itself.
Begin ==
    /\ pc = "sleep"
    /\ \/ /\ Central
          /\ \E set \in SUBSET Namespaces, old \in BOOLEAN :
                Resolve(set, old) /\ excluded' = set /\ stale' = old
       \/ ~Central /\ excluded' = {} /\ stale' = FALSE /\ UNCHANGED <<last, faults>>
    /\ loyal' = optOut
    /\ pc' = "list"
    /\ UNCHANGED <<world, conf, unread, listed, todo, result, series, creds, edits, restarts>>

\* With no earlier answer a failed list fails the cycle.
BeginFails ==
    /\ pc = "sleep" /\ Central /\ ExcludeLabels /\ last = None /\ ApiFault
    /\ loyal' = optOut
    /\ UNCHANGED <<world, conf, pc, last, cycle, series, creds, edits, restarts>>

\* One page of what is left of the list's snapshot.  After the last one the
\* cycle goes on with the pods not annotated, unless no pod is left at all.
ReadPage(rest) ==
    \E page \in SUBSET rest :
        /\ Cardinality(page) = IF Cardinality(rest) < PageSize THEN Cardinality(rest)
                                                              ELSE PageSize
        /\ LET kept == listed \union {p \in page : Home[p] \notin excluded}
           IN  IF rest # page
                 THEN /\ pc' = "page" /\ listed' = kept /\ unread' = rest \ page
                      /\ UNCHANGED <<excluded, todo, result, stale>>
               ELSE IF kept = {} THEN Sleep
               ELSE /\ pc' = "inspect" /\ listed' = kept /\ unread' = {}
                    /\ todo' = Auditable(kept)
                    /\ UNCHANGED <<excluded, result, stale>>

FirstPage ==
    /\ pc = "list" /\ ReadPage({p \in running : InScope(p)})
    /\ UNCHANGED <<world, conf, last, series, creds, loyal, bounds>>

NextPage ==
    /\ pc = "page" /\ ReadPage(unread)
    /\ UNCHANGED <<world, conf, last, series, creds, loyal, bounds>>

\* A page that cannot be read, or whose continue token has expired.
PageFails ==
    /\ pc \in {"list", "page"} /\ ApiFault
    /\ Sleep
    /\ UNCHANGED <<world, conf, last, series, creds, loyal, edits, restarts>>

---------------------------------------------------------------------------
(* Inspecting and publishing                                               *)

\* check_availability: an inspection that fails is an answer too.
Inspect(p) ==
    /\ pc = "inspect" /\ p \in todo
    /\ todo' = todo \ {p}
    /\ \/ /\ result' = [result EXCEPT ![p] =
                          IF p \in pullable THEN "available" ELSE "unavailable"]
          /\ UNCHANGED faults
       \/ result' = [result EXCEPT ![p] = "unavailable"] /\ ApiFault
    /\ UNCHANGED <<world, conf, pc, last, excluded, unread, listed, stale, series, creds, loyal,
                   edits, restarts>>

\* A variant: the series of earlier cycles are kept.
ClearNothing ==
    /\ pc = "inspect" /\ todo = {}
    /\ pc' = "publish" /\ todo' = Auditable(listed)
    /\ UNCHANGED <<world, conf, last, excluded, unread, listed, result, stale, series, creds, loyal,
                   bounds>>

\* update_availability_metrics clears, then sets one series after another.
Clear ==
    /\ pc = "inspect" /\ todo = {}
    /\ pc' = "publish" /\ todo' = Auditable(listed)
    /\ series' = Nothing
    /\ UNCHANGED <<world, conf, last, excluded, unread, listed, result, stale, creds, loyal, bounds>>

Publish(p) ==
    /\ pc = "publish" /\ p \in todo
    /\ todo' = todo \ {p}
    /\ series' = [series EXCEPT ![p] = result[p]]
    /\ UNCHANGED <<world, conf, pc, last, excluded, unread, listed, result, stale, creds, loyal, bounds>>

\* _check_credential_validity has probed every credential and does the same.
ClearCredentials ==
    /\ pc = "publish" /\ todo = {}
    /\ pc' = "credentials"
    /\ creds' = {}
    /\ UNCHANGED <<world, conf, last, cycle, series, loyal, bounds>>

PublishCredential(n) ==
    /\ pc = "credentials" /\ n \in Homes(Auditable(listed)) \ creds
    /\ creds' = creds \union {n}
    /\ UNCHANGED <<world, conf, pc, last, cycle, series, loyal, bounds>>

\* Anything else that raises after the pods were listed: before the series are
\* touched, or between them and the credentials.
CycleFails ==
    /\ \/ pc = "inspect"
       \/ pc = "publish" /\ todo = {}
    /\ ApiFault
    /\ Sleep
    /\ UNCHANGED <<world, conf, last, series, creds, loyal, edits, restarts>>

End ==
    /\ pc = "credentials" /\ creds = Homes(Auditable(listed))
    /\ Sleep
    /\ UNCHANGED <<world, conf, last, series, creds, loyal, bounds>>

---------------------------------------------------------------------------
(* The world around the checker                                            *)

Edit == edits < MaxEdits /\ edits' = edits + 1
Elsewhere == UNCHANGED <<conf, pc, last, cycle, series, creds, faults, restarts>>

PodStarts(p) ==
    /\ p \notin running /\ Edit /\ running' = running \union {p}
    /\ UNCHANGED <<optOut, pullable, loyal>> /\ Elsewhere

\* A pod terminates or is deleted.
PodEnds(p) ==
    /\ p \in running /\ Edit /\ running' = running \ {p}
    /\ UNCHANGED <<optOut, pullable, loyal>> /\ Elsewhere

ToggleLabel(n) ==
    /\ Edit
    /\ optOut' = IF n \in optOut THEN optOut \ {n} ELSE optOut \union {n}
    /\ loyal' = loyal \ {n}
    /\ UNCHANGED <<running, pullable>> /\ Elsewhere

RegistryChanges(p) ==
    /\ Edit
    /\ pullable' = IF p \in pullable THEN pullable \ {p} ELSE pullable \union {p}
    /\ UNCHANGED <<running, optOut, loyal>> /\ Elsewhere

\* The process is replaced: it knows nothing and exposes nothing.
Restart ==
    /\ restarts < MaxRestarts /\ restarts' = restarts + 1
    /\ Sleep /\ last' = None /\ series' = Nothing /\ creds' = {} /\ loyal' = {}
    /\ UNCHANGED <<world, conf, faults, edits>>

---------------------------------------------------------------------------
(* The specification                                                       *)

Init ==
    /\ running \in SUBSET Pods /\ optOut \in SUBSET Namespaces /\ pullable = Pods
    /\ conf \in Configs
    /\ pc = "sleep" /\ last = None
    /\ excluded = {} /\ unread = {} /\ listed = {} /\ todo = {} /\ result = Nothing
    /\ series = Nothing /\ creds = {}
    /\ loyal = {} /\ stale = FALSE
    /\ faults = 0 /\ edits = 0 /\ restarts = 0

Checker ==
    \/ Begin \/ BeginFails
    \/ FirstPage \/ NextPage \/ PageFails
    \/ \E p \in Pods : Inspect(p) \/ Publish(p)
    \/ Clear \/ ClearCredentials
    \/ \E n \in Namespaces : PublishCredential(n)
    \/ CycleFails \/ End

World ==
    \/ \E p \in Pods : PodStarts(p) \/ PodEnds(p) \/ RegistryChanges(p)
    \/ \E n \in Namespaces : ToggleLabel(n)
    \/ Restart

Next == Checker \/ World

Spec == Init /\ [][Next]_vars

\* The checker's one loop goes on for ever.
FairSpec == Spec /\ WF_vars(Checker)

---------------------------------------------------------------------------
(* Properties                                                              *)

\* Every variable has its type; what is to be inspected or published was listed,
\* and answers are there for what was listed only.
TypeOK ==
    /\ running \subseteq Pods /\ optOut \subseteq Namespaces /\ pullable \subseteq Pods
    /\ conf \in Configs
    /\ pc \in {"sleep", "list", "page", "inspect", "publish", "credentials"}
    /\ last = None \/ last \subseteq Namespaces
    /\ excluded \subseteq Namespaces
    /\ unread \subseteq Pods /\ listed \subseteq Pods /\ todo \subseteq Auditable(listed)
    /\ result \in [Pods -> Answers] /\ series \in [Pods -> Answers]
    /\ \A p \in Pods : result[p] # "absent" => p \in Auditable(listed)
    /\ creds \subseteq Namespaces /\ loyal \subseteq optOut /\ stale \in BOOLEAN
    /\ faults \in 0 .. MaxFaults /\ edits \in 0 .. MaxEdits /\ restarts \in 0 .. MaxRestarts

\* A central checker exposes nothing of a namespace under EXCLUDED_NAMESPACES,
\* and looks at none of its pods, whatever fails.
ExcludedNeverAudited ==
    Central => \A p \in Pods :
        Home[p] \in Excluded => p \notin listed /\ series[p] = "absent"

\* A failed namespace list never widens what is audited: every pod being audited
\* is of a namespace that had not opted out at the last successful list, and
\* before the first one nothing is audited at all.
OptOutsKept ==
    Central /\ ExcludeLabels =>
        \A p \in listed : last # None /\ Home[p] \notin last

\* Exclusions are computed anew every cycle, for a fresh opt-out to matter: a
\* namespace that has carried the label since before this cycle is not audited
\* in it, unless the namespaces could not be listed.
FreshOptOutsHonoured ==
    Central /\ ExcludeLabels =>
        \A p \in listed : Home[p] \in loyal => stale

\* A scrape that meets the series while they are set one by one sees answers of
\* this cycle only, not beside them those of the cycle before, of pods that may be
\* gone or opted out by now; and the same of the credentials.
ScrapesNeverMix ==
    /\ pc = "publish" => \A p \in Pods : series[p] \in {"absent", result[p]}
    /\ pc = "credentials" => creds \subseteq Homes(Auditable(listed))

\* The pods a checker should report on now.
Visible ==
    {p \in running :
        IF Central THEN Home[p] \notin Excluded /\ (ExcludeLabels => Home[p] \notin optOut)
                   ELSE Home[p] = conf.own}

\* The metrics settle: once the world is quiet they tell of exactly the pods that
\* should be audited, with what the registry answers now, as long as there is
\* any pod to look at.
SeriesSettle ==
    <>[](Visible # {} =>
            /\ creds = Homes(Auditable(Visible)) \/ pc = "credentials"
            /\ \A p \in Pods :
                  pc = "publish" \/
                  series[p] = IF p \notin Auditable(Visible) THEN "absent"
                              ELSE IF p \in pullable THEN "available" ELSE "unavailable")
=============================================================================
