-------------------------- MODULE CheckerSweepProofs --------------------------
(***************************************************************************)
(* Proofs about CheckerSweep for every set of namespaces and pods, every   *)
(* page size and every bound: what is excluded is never audited, a failed  *)
(* list widens nothing, and no scrape sees two cycles at once.             *)
(***************************************************************************)
EXTENDS CheckerSweep, TLAPS

\* Asleep, the checker has nothing in hand.
SleepInv == pc = "sleep" => listed = {} /\ unread = {} /\ todo = {}

\* Every answer kept has the named namespaces among the excluded.
LastInv == last # None => Excluded \subseteq last

\* What a central cycle excludes: the named namespaces, and with labels the last
\* answer, which if it is of this cycle has whoever has been opted out throughout.
CycleInv ==
    pc # "sleep" /\ Central =>
        /\ Excluded \subseteq excluded
        /\ ExcludeLabels => last # None /\ excluded = last /\ (loyal \subseteq excluded \/ stale)

\* No pod of an excluded namespace was kept from a page.
ListedInv == \A p \in listed : Home[p] \notin excluded

\* No series outlives its cycle into a namespace that is excluded by name.
SeriesInv == Central => \A p \in Pods : Home[p] \in Excluded => series[p] = "absent"

SweepInv ==
    TypeOK /\ SleepInv /\ LastInv /\ CycleInv /\ ListedInv /\ SeriesInv /\ ScrapesNeverMix

\* The steps of Next as a list.
Step ==
    \/ Begin \/ BeginFails \/ FirstPage \/ NextPage \/ PageFails
    \/ Clear \/ ClearCredentials \/ CycleFails \/ End \/ Restart
    \/ \E p \in Pods :
          Inspect(p) \/ Publish(p) \/ PodStarts(p) \/ PodEnds(p) \/ RegistryChanges(p)
    \/ \E n \in Namespaces : PublishCredential(n) \/ ToggleLabel(n)

\* Every step of the specification is in the list.
LEMMA NextIsStep == Next => Step
  BY DEF Next, Checker, World, Step

\* Initial states satisfy the invariant.
LEMMA InitInv == Init => SweepInv
  <1> SUFFICES ASSUME Init PROVE SweepInv
    OBVIOUS
  <1>1. /\ Nothing \in [Pods -> Answers]
        /\ \A p \in Pods : Nothing[p] = "absent"
    BY DEF Nothing, Answers
  <1>2. TypeOK
    <2>1. faults \in 0 .. MaxFaults /\ edits \in 0 .. MaxEdits /\ restarts \in 0 .. MaxRestarts
      BY BoundsAssumption DEF Init
    <2>2. result \in [Pods -> Answers] /\ series \in [Pods -> Answers]
          /\ \A p \in Pods : result[p] = "absent"
      BY <1>1 DEF Init
    <2> QED
      BY <2>1, <2>2 DEF Init, TypeOK, Auditable
  <1>3. SleepInv /\ LastInv /\ CycleInv /\ ListedInv /\ ScrapesNeverMix
    BY DEF Init, SleepInv, LastInv, CycleInv, ListedInv, ScrapesNeverMix
  <1>4. SeriesInv
    BY <1>1 DEF Init, SeriesInv
  <1> QED
    BY <1>2, <1>3, <1>4 DEF SweepInv

\* The pages of a list: what a page read keeps is not excluded, and the cycle goes
\* on, or back to sleep, with what the types allow.
LEMMA PageKeeps ==
    ASSUME SweepInv, NEW rest \in SUBSET Pods, ReadPage(rest),
           UNCHANGED <<world, conf, last, series, creds, loyal, bounds>>,
           pc \in {"list", "page"}
    PROVE  SweepInv'
  <1>1. PICK page \in SUBSET rest :
           LET kept == listed \union {p \in page : Home[p] \notin excluded}
           IN  \/ /\ pc' = "page" /\ listed' = kept /\ unread' = rest \ page
                  /\ UNCHANGED <<excluded, todo, result, stale>>
               \/ Sleep
               \/ /\ pc' = "inspect" /\ listed' = kept /\ unread' = {}
                  /\ todo' = Auditable(kept)
                  /\ UNCHANGED <<excluded, result, stale>>
    BY DEF ReadPage
  <1> DEFINE kept == listed \union {p \in page : Home[p] \notin excluded}
  <1>2. CASE Sleep
    BY <1>2, SweepAssumption
    DEF Sleep, SweepInv, TypeOK, SleepInv, LastInv, CycleInv, ListedInv, SeriesInv,
        ScrapesNeverMix, Nothing, Answers, Auditable, world, bounds, Central, ExcludeLabels
  <1>3. CASE /\ pc' \in {"page", "inspect"} /\ listed' = kept /\ unread' \subseteq Pods
             /\ todo' \in {todo, Auditable(kept)}
             /\ UNCHANGED <<excluded, result, stale>>
    BY <1>3, SweepAssumption
    DEF SweepInv, TypeOK, SleepInv, LastInv, CycleInv, ListedInv, SeriesInv,
        ScrapesNeverMix, Auditable, world, bounds, Central, ExcludeLabels
  <1> QED
    BY <1>1, <1>2, <1>3

\* Nothing in hand after Sleep, and nothing else touched that the invariant is about.
LEMMA SleepKeeps ==
    ASSUME SweepInv, Sleep, UNCHANGED <<world, conf, last, series, creds, loyal>>,
           faults' \in 0 .. MaxFaults, UNCHANGED <<edits, restarts>>
    PROVE  SweepInv'
  BY SweepAssumption
  DEF Sleep, SweepInv, TypeOK, SleepInv, LastInv, CycleInv, ListedInv, SeriesInv,
      ScrapesNeverMix, Nothing, Answers, Auditable, world, Central, ExcludeLabels

\* A fault counted stays within its bound.
LEMMA FaultBounded ==
    ASSUME TypeOK, ApiFault
    PROVE  faults' \in 0 .. MaxFaults
  BY BoundsAssumption DEF TypeOK, ApiFault

\* The exclusions a cycle begins with.
LEMMA BeginKeeps == SweepInv /\ Begin => SweepInv'
  <1> SUFFICES ASSUME SweepInv, Begin PROVE SweepInv'
    OBVIOUS
  <1> USE DEF SweepInv
  <1>1. faults' \in 0 .. MaxFaults
    BY FaultBounded, BoundsAssumption DEF Begin, Resolve, TypeOK
  <1>2. /\ excluded' \subseteq Namespaces /\ stale' \in BOOLEAN
        /\ last' = None \/ last' \subseteq Namespaces
        /\ LastInv'
    <2>1. CASE Central
      <3>1. PICK set \in SUBSET Namespaces, old \in BOOLEAN :
               Resolve(set, old) /\ excluded' = set /\ stale' = old
        BY <2>1 DEF Begin
      <3> QED
        BY <3>1, SweepAssumption DEF Resolve, TypeOK, LastInv
    <2>2. CASE ~Central
      BY <2>2, SweepAssumption DEF Begin, TypeOK, LastInv
    <2> QED
      BY <2>1, <2>2
  <1>3. pc' = "list" /\ loyal' = optOut /\ listed = {} /\ todo = {} /\ unread = {}
    BY DEF Begin, SleepInv
  <1>4. CycleInv'
    <2> SUFFICES ASSUME Central PROVE CycleInv'
      BY DEF Begin, CycleInv, Central
    <2>1. PICK set \in SUBSET Namespaces, old \in BOOLEAN :
             Resolve(set, old) /\ excluded' = set /\ stale' = old
      BY DEF Begin
    <2>2. Excluded \subseteq set
      BY <2>1 DEF Resolve, LastInv
    <2>3. ExcludeLabels => last' # None /\ set = last' /\ (optOut \subseteq set \/ old)
      BY <2>1, SweepAssumption DEF Resolve, TypeOK
    <2> QED
      BY <1>3, <2>1, <2>2, <2>3 DEF CycleInv, Begin, ExcludeLabels
  <1>5. TypeOK'
    BY <1>1, <1>2, <1>3 DEF TypeOK, Begin, world, Auditable
  <1> QED
    BY <1>2, <1>3, <1>4, <1>5
    DEF Begin, SleepInv, ListedInv, SeriesInv, ScrapesNeverMix, Central

\* Inspecting and publishing leave what was excluded and listed alone.
LEMMA WorkKeeps ==
    ASSUME SweepInv, NEW p \in Pods,
           Inspect(p) \/ Clear \/ Publish(p) \/ ClearCredentials
    PROVE  SweepInv'
  <1> USE DEF SweepInv
  <1>1. CASE Inspect(p)
    <2>1. faults' \in 0 .. MaxFaults
      BY <1>1, FaultBounded DEF Inspect, TypeOK
    <2>2. result' \in [Pods -> Answers] /\ \A q \in Pods : q # p => result'[q] = result[q]
      BY <1>1 DEF Inspect, TypeOK, Answers
    <2>3. TypeOK'
      BY <1>1, <2>1, <2>2 DEF Inspect, TypeOK, world, Auditable
    <2> QED
      BY <1>1, <2>3
      DEF Inspect, SleepInv, LastInv, CycleInv, ListedInv, SeriesInv, ScrapesNeverMix,
          Central, ExcludeLabels
  <1>2. CASE Clear
    BY <1>2
    DEF Clear, TypeOK, SleepInv, LastInv, CycleInv, ListedInv, SeriesInv, ScrapesNeverMix,
        Central, ExcludeLabels, world, bounds, Nothing, Answers, Auditable
  <1>3. CASE Publish(p)
    <2>1. /\ series' \in [Pods -> Answers] /\ series'[p] = result[p]
          /\ \A q \in Pods : q # p => series'[q] = series[q]
      BY <1>3 DEF Publish, TypeOK
    <2>2. p \in listed
      BY <1>3 DEF Publish, TypeOK, Auditable
    <2>3. Central => Home[p] \notin Excluded
      BY <1>3, <2>2 DEF Publish, CycleInv, ListedInv
    <2>4. TypeOK'
      BY <1>3, <2>1 DEF Publish, TypeOK, world, bounds, Auditable
    <2>5. SeriesInv'
      BY <1>3, <2>1, <2>3 DEF Publish, SeriesInv, Central
    <2>6. ScrapesNeverMix'
      BY <1>3, <2>1 DEF Publish, ScrapesNeverMix
    <2> QED
      BY <1>3, <2>4, <2>5, <2>6
      DEF Publish, SleepInv, LastInv, CycleInv, ListedInv, Central, ExcludeLabels
  <1>4. CASE ClearCredentials
    BY <1>4
    DEF ClearCredentials, TypeOK, SleepInv, LastInv, CycleInv, ListedInv, SeriesInv,
        ScrapesNeverMix, Central, ExcludeLabels, world, cycle, bounds, Auditable
  <1> QED
    BY <1>1, <1>2, <1>3, <1>4

\* The world changes around the checker: only who has been opted out throughout
\* can become fewer.
LEMMA WorldKeeps ==
    ASSUME SweepInv, UNCHANGED <<conf, pc, last, cycle, series, creds, faults, restarts>>,
           running' \subseteq Pods, optOut' \subseteq Namespaces, pullable' \subseteq Pods,
           loyal' \subseteq loyal, loyal' \subseteq optOut', edits' \in 0 .. MaxEdits
    PROVE  SweepInv'
  BY DEF SweepInv, TypeOK, SleepInv, LastInv, CycleInv, ListedInv, SeriesInv, ScrapesNeverMix,
         Central, ExcludeLabels, cycle, Auditable

\* Every step keeps the invariant.
LEMMA StepInv == SweepInv /\ [Next]_vars => SweepInv'
  <1> SUFFICES ASSUME SweepInv, Step \/ UNCHANGED vars PROVE SweepInv'
    BY NextIsStep
  <1> USE DEF SweepInv
  <1>1. CASE Begin
    BY <1>1, BeginKeeps
  <1>2. CASE BeginFails
    BY <1>2, FaultBounded
    DEF BeginFails, TypeOK, SleepInv, LastInv, CycleInv, ListedInv, SeriesInv, ScrapesNeverMix,
        Central, ExcludeLabels, world, cycle, Auditable
  <1>3. CASE FirstPage
    <2>1. {p \in running : InScope(p)} \in SUBSET Pods
      BY DEF TypeOK
    <2> QED
      BY <1>3, <2>1, PageKeeps DEF FirstPage
  <1>4. CASE NextPage
    BY <1>4, PageKeeps DEF NextPage, TypeOK
  <1>5. CASE PageFails
    BY <1>5, FaultBounded, SleepKeeps DEF PageFails
  <1>6. CASE CycleFails
    BY <1>6, FaultBounded, SleepKeeps DEF CycleFails
  <1>7. CASE End
    BY <1>7, SleepKeeps DEF End, bounds, TypeOK
  <1>8. CASE Clear \/ ClearCredentials
    <2>1. CASE Pods # {}
      BY <1>8, <2>1, WorkKeeps
    <2>2. CASE Pods = {}
      BY <1>8, <2>2
      DEF Clear, ClearCredentials, TypeOK, SleepInv, LastInv, CycleInv, ListedInv, SeriesInv,
          ScrapesNeverMix, Central, ExcludeLabels, world, cycle, bounds, Nothing, Answers, Auditable
    <2> QED
      BY <2>1, <2>2
  <1>9. CASE Restart
    <2>1. /\ Nothing \in [Pods -> Answers]
          /\ \A p \in Pods : Nothing[p] = "absent"
      BY DEF Nothing, Answers
    <2>2. TypeOK'
      <3>1. restarts' \in 0 .. MaxRestarts
        BY <1>9, BoundsAssumption DEF Restart, TypeOK
      <3>2. result' \in [Pods -> Answers] /\ series' \in [Pods -> Answers]
            /\ \A p \in Pods : result'[p] = "absent"
        BY <1>9, <2>1 DEF Restart, Sleep
      <3> QED
        BY <1>9, <3>1, <3>2 DEF Restart, Sleep, TypeOK, Auditable, world
    <2>3. SleepInv' /\ LastInv' /\ CycleInv' /\ ListedInv' /\ ScrapesNeverMix'
      BY <1>9 DEF Restart, Sleep, SleepInv, LastInv, CycleInv, ListedInv, ScrapesNeverMix
    <2>4. SeriesInv'
      BY <1>9, <2>1 DEF Restart, Sleep, SeriesInv, Central
    <2> QED
      BY <2>2, <2>3, <2>4
  <1>10. ASSUME NEW p \in Pods, Inspect(p) \/ Publish(p)
         PROVE  SweepInv'
    BY <1>10, WorkKeeps
  <1>11. ASSUME NEW p \in Pods, PodStarts(p) \/ PodEnds(p) \/ RegistryChanges(p)
         PROVE  SweepInv'
    <2>1. edits' \in 0 .. MaxEdits
      BY <1>11, BoundsAssumption DEF PodStarts, PodEnds, RegistryChanges, Edit, TypeOK
    <2> QED
      BY <1>11, <2>1, WorldKeeps
      DEF PodStarts, PodEnds, RegistryChanges, Elsewhere, TypeOK
  <1>12. ASSUME NEW n \in Namespaces, PublishCredential(n)
         PROVE  SweepInv'
    BY <1>12
    DEF PublishCredential, TypeOK, SleepInv, LastInv, CycleInv, ListedInv, SeriesInv,
        ScrapesNeverMix, Central, ExcludeLabels, world, cycle, bounds, Auditable, Homes
  <1>13. ASSUME NEW n \in Namespaces, ToggleLabel(n)
         PROVE  SweepInv'
    <2>1. edits' \in 0 .. MaxEdits
      BY <1>13, BoundsAssumption DEF ToggleLabel, Edit, TypeOK
    <2>2. loyal' \subseteq loyal /\ loyal' \subseteq optOut' /\ optOut' \subseteq Namespaces
      BY <1>13 DEF ToggleLabel, TypeOK
    <2> QED
      BY <1>13, <2>1, <2>2, WorldKeeps DEF ToggleLabel, Elsewhere, TypeOK
  <1>14. CASE UNCHANGED vars
    BY <1>14
    DEF vars, world, cycle, bounds, TypeOK, SleepInv, LastInv, CycleInv, ListedInv, SeriesInv,
        ScrapesNeverMix, Central, ExcludeLabels, Auditable
  <1> QED
    BY <1>1, <1>2, <1>3, <1>4, <1>5, <1>6, <1>7, <1>8, <1>9, <1>10, <1>11, <1>12, <1>13, <1>14
    DEF Step

\* What the invariant says of each property.
LEMMA InvImplies ==
    SweepInv => ExcludedNeverAudited /\ OptOutsKept /\ FreshOptOutsHonoured
  <1> SUFFICES ASSUME SweepInv PROVE ExcludedNeverAudited /\ OptOutsKept /\ FreshOptOutsHonoured
    OBVIOUS
  <1>1. \A p \in listed : p \in Pods /\ pc # "sleep" /\ Home[p] \notin excluded
    BY SweepAssumption DEF SweepInv, TypeOK, SleepInv, ListedInv
  <1> QED
    BY <1>1
    DEF SweepInv, CycleInv, SeriesInv, ExcludedNeverAudited, OptOutsKept, FreshOptOutsHonoured

\* The invariant holds throughout.
THEOREM SweepInvariance == Spec => []SweepInv
  BY InitInv, StepInv, PTL DEF Spec

\* Every variable of the checker keeps its type, and answers are there only for
\* pods that were listed and may be audited.
THEOREM SweepTypeCorrect == Spec => []TypeOK
  <1>1. SweepInv => TypeOK
    BY DEF SweepInv
  <1> QED
    BY <1>1, SweepInvariance, PTL

\* _resolve_excluded_namespaces: a namespace under EXCLUDED_NAMESPACES is neither
\* listed nor exposed by a central checker, whatever calls fail.
THEOREM ExcludedStayOut == Spec => []ExcludedNeverAudited
  BY InvImplies, SweepInvariance, PTL

\* The fallback to the last good answer: a list that fails never widens the audit.
THEOREM FailuresWidenNothing == Spec => []OptOutsKept
  BY InvImplies, SweepInvariance, PTL

\* Exclusions are computed anew: who has been opted out since the cycle began is
\* not in it, unless its exclusions are those of an earlier cycle.
THEOREM OptOutsTakeEffect == Spec => []FreshOptOutsHonoured
  BY InvImplies, SweepInvariance, PTL

\* Clearing before setting: no scrape sees the answers of two cycles.
THEOREM ScrapesSeeOneCycle == Spec => []ScrapesNeverMix
  <1>1. SweepInv => ScrapesNeverMix
    BY DEF SweepInv
  <1> QED
    BY <1>1, SweepInvariance, PTL
=============================================================================
