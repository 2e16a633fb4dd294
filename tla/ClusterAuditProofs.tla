------------------------- MODULE ClusterAuditProofs -------------------------
(***************************************************************************)
(* Proofs about ClusterAudit for every set of pods, images and policies:   *)
(* tags are classified as the code's documentation says, and the metrics   *)
(* show the results of one pass.                                           *)
(***************************************************************************)
EXTENDS ClusterAudit, FiniteSetTheorems, WellFoundedInduction, TLAPS

---------------------------------------------------------------------------
(* Tags                                                                    *)

\* A set of natural numbers that is not empty has a least one.
LEMMA Least ==
    ASSUME NEW S \in SUBSET Nat, S # {}
    PROVE  \E n \in S : \A m \in S : n <= m
  <1>1. PICK n \in S : \A m \in S : <<m, n>> \notin OpToRel(<, Nat)
    BY NatLessThanWellFounded, WFMin
  <1>2. \A m \in S : ~(m < n)
    BY <1>1 DEF OpToRel
  <1> QED
    BY <1>2

\* Stripping platforms from the end until nothing changes leaves a beginning of
\* the rest that does not end in a platform, and nothing but platforms is gone.
LEMMA KeptIsThere ==
    ASSUME NEW rest \in Seq(Words), NEW suffixes
    PROVE  /\ Kept(rest, suffixes) \in 0 .. Len(rest)
           /\ \A i \in Kept(rest, suffixes) + 1 .. Len(rest) : rest[i] \in suffixes
           /\ Kept(rest, suffixes) > 0 => rest[Kept(rest, suffixes)] \notin suffixes
  <1> DEFINE S == {n \in 0 .. Len(rest) : \A i \in n + 1 .. Len(rest) : rest[i] \in suffixes}
  <1>1. Len(rest) \in S /\ S \subseteq Nat
    OBVIOUS
  <1>2. PICK n \in S : \A m \in S : n <= m
    BY <1>1, Least
  <1>3. ASSUME n > 0, rest[n] \in suffixes PROVE FALSE
    <2>1. n - 1 \in 0 .. Len(rest) /\ n \in 0 .. Len(rest)
      BY <1>3
    <2>2. \A i \in (n - 1) + 1 .. Len(rest) : rest[i] \in suffixes
      BY <1>3, <2>1
    <2>3. n - 1 \in S
      BY <2>1, <2>2
    <2> QED
      BY <1>2, <2>1, <2>3
  <1> QED
    BY <1>2, <1>3 DEF Kept

\* is_prerelease_tag, which strips platforms one after the other, says of every
\* tag what its documentation says: stable are digests, versions with nothing but
\* at most one number and then platforms behind them, platforms with a version.
THEOREM ClassifiesAsDocumented ==
    ASSUME NEW tag \in Tags, NEW given \in SUBSET (Words \ {Number})
    PROVE  IsPrerelease(tag, given) <=> ~StableForm(tag, Suffixes(given))
  <1> DEFINE rest == tag.rest
             suffixes == Suffixes(given)
             n == Kept(rest, suffixes)
  <1>1. rest \in Seq(Words) /\ Number \notin suffixes
    BY TagsAssumption DEF Tags, Suffixes
  <1>2. /\ n \in 0 .. Len(rest)
        /\ \A i \in n + 1 .. Len(rest) : rest[i] \in suffixes
        /\ n > 0 => rest[n] \notin suffixes
    BY <1>1, KeptIsThere
  <1>3. CASE tag.kind # "version"
    BY <1>3 DEF IsPrerelease, StableForm
  <1>4. CASE tag.kind = "version"
    <2> DEFINE platforms(m) == \A i \in m + 1 .. Len(rest) : rest[i] \in suffixes
    <2>1. n = 0 <=> platforms(0)
      BY <1>2
    <2>2. n = 1 => platforms(1)
      BY <1>2
    <2>3. rest[1] = Number /\ platforms(1) => n = 0 \/ n = 1
      BY <1>2
    <2> QED
      BY <1>1, <1>2, <1>4, <2>1, <2>2, <2>3 DEF IsPrerelease, StableForm
  <1> QED
    BY <1>3, <1>4
---------------------------------------------------------------------------
(* The audit                                                               *)

\* The steps of Next as a list, each action named once.
Step ==
    \/ Wake \/ List \/ PassFails \/ ReadPolicy \/ ReadFails
    \/ Clear \/ ClearViolations \/ TurnToViolations \/ ClearVersions \/ ClearTags \/ PassEnds
    \/ \E c \in todo : SetFinding(c) \/ SetViolation(c) \/ SetVersions(c)
    \/ \E k \in DOMAIN spread : SetTags(k)
    \/ \E p \in Pods : PodCreated(p) \/ PodStarts(p) \/ PodEnds(p)
    \/ \E r \in Policies : PolicyEdited(r)
    \/ DayPasses \/ Restart

\* Every step of the specification is in the list.
LEMMA NextIsStep == Next => Step
  BY DEF Next, Audit, World, Step

\* A container belongs to one of the pods it was taken from.
LEMMA ContainersBelong ==
    ASSUME NEW pods, NEW c \in Containers(pods)
    PROVE  /\ c[1] \in pods
           /\ \A more : pods \subseteq more => c \in Containers(more)
  BY DEF Containers

\* What a pass computes is of the pods listed, with ages of whole days so far.
LEMMA FindingsOfListed ==
    ASSUME TypeOK, NEW r
    PROVE  LET found == Findings(listed, r)
           IN /\ DOMAIN found \subseteq Containers(Pods)
              /\ \A c \in DOMAIN found : found[c] \in 0 .. today
  <1> DEFINE found == Findings(listed, r)
  <1>1. ASSUME NEW c \in DOMAIN found
        PROVE  c \in Containers(Pods) /\ c[1] \in DOMAIN listed /\ found[c] = today - listed[c[1]]
    <2>1. c \in Checked(DOMAIN listed, "prerelease", r)
      BY <1>1 DEF Findings
    <2>2. c[1] \in {p \in DOMAIN listed : ~Skips(p, "prerelease", r)}
      BY <2>1, ContainersBelong DEF Checked
    <2>3. c \in Containers(Pods)
      BY <2>1, ContainersBelong DEF Checked, TypeOK
    <2> QED
      BY <1>1, <2>2, <2>3 DEF Findings
  <1>2. \A p \in DOMAIN listed : listed[p] \in 0 .. today /\ today \in 0 .. MaxDays
    BY DEF TypeOK
  <1>3. \A c \in DOMAIN found : found[c] \in 0 .. today
    BY <1>1, <1>2, BoundsAssumption
  <1> QED
    BY <1>1, <1>3

\* The images with several versions are of pods listed.
LEMMA SpreadOfListed ==
    ASSUME TypeOK, NEW r
    PROVE  LET seen == Spread(DOMAIN listed, r)
           IN \A k \in DOMAIN seen : seen[k] \subseteq Containers(Pods)
  <1>1. Checked(DOMAIN listed, "spread", r) \subseteq Containers(Pods)
    BY ContainersBelong DEF Checked, TypeOK
  <1> QED
    BY <1>1 DEF Spread

\* A type-correct state stays type-correct.
LEMMA TypeStep ==
    ASSUME TypeOK, [Next]_vars
    PROVE  TypeOK'
  <1> USE BoundsAssumption, AuditAssumption
      DEF TypeOK, Phases, Positions, world, results, metrics, bounds, Elsewhere, Edit, Fault
  <1>1. CASE Wake
    BY <1>1 DEF Wake
  <1>2. CASE List
    BY <1>2 DEF List, Listing, Alive, Since
  <1>3. CASE PassFails
    BY <1>3 DEF PassFails, Empty
  <1>4. CASE ReadPolicy
    BY <1>4, FindingsOfListed, SpreadOfListed DEF ReadPolicy, Compute, Empty
  <1>5. CASE ReadFails
    BY <1>5, FindingsOfListed, SpreadOfListed DEF ReadFails, Compute, Empty
  <1>6. CASE Clear
    BY <1>6 DEF Clear
  <1>7. CASE ClearViolations
    BY <1>7 DEF ClearViolations
  <1>8. CASE TurnToViolations
    BY <1>8 DEF TurnToViolations, Violations
  <1>9. CASE ClearVersions
    BY <1>9 DEF ClearVersions
  <1>10. CASE ClearTags
    BY <1>10 DEF ClearTags
  <1>11. CASE PassEnds
    BY <1>11 DEF PassEnds
  <1>12. ASSUME NEW c \in todo, SetFinding(c) PROVE TypeOK'
    BY <1>12 DEF SetFinding
  <1>13. ASSUME NEW c \in todo, SetViolation(c) PROVE TypeOK'
    BY <1>13 DEF SetViolation
  <1>14. ASSUME NEW k \in todo, SetVersions(k) PROVE TypeOK'
    BY <1>14 DEF SetVersions
  <1>15. ASSUME NEW k \in DOMAIN spread, SetTags(k) PROVE TypeOK'
    BY <1>15 DEF SetTags
  <1>16. ASSUME NEW p \in Pods, PodCreated(p) PROVE TypeOK'
    BY <1>16 DEF PodCreated
  <1>17. ASSUME NEW p \in Pods, PodStarts(p) PROVE TypeOK'
    BY <1>17 DEF PodStarts
  <1>18. ASSUME NEW p \in Pods, PodEnds(p) PROVE TypeOK'
    BY <1>18 DEF PodEnds
  <1>19. ASSUME NEW r \in Policies, PolicyEdited(r) PROVE TypeOK'
    BY <1>19 DEF PolicyEdited
  <1>20. CASE DayPasses
    BY <1>20 DEF DayPasses
  <1>21. CASE Restart
    BY <1>21 DEF Restart, Empty
  <1>22. CASE UNCHANGED vars
    BY <1>22 DEF vars
  <1> QED
    BY NextIsStep, <1>1, <1>2, <1>3, <1>4, <1>5, <1>6, <1>7, <1>8, <1>9, <1>10, <1>11, <1>12,
       <1>13, <1>14, <1>15, <1>16, <1>17, <1>18, <1>19, <1>20, <1>21, <1>22 DEF Step

\* The variables the publication is about.
shown == <<pc, results, todo, metrics>>

\* Nothing of what is shown changes without one of them.
LEMMA ShownElsewhere ==
    ASSUME FamiliesShowOnePass, UNCHANGED shown
    PROVE  FamiliesShowOnePass'
  BY DEF FamiliesShowOnePass, shown, results, metrics, Between, FindingsShown, ViolationsShown,
         VersionsShown, TagsShown, Violations, VersionCount, TagSeries, TagCount

\* A step of the audit or of the world leaves the metrics of one pass.
LEMMA ShownStep ==
    ASSUME TypeOK, FamiliesShowOnePass, [Next]_vars
    PROVE  FamiliesShowOnePass'
  <1> USE DEF FamiliesShowOnePass, Between, world, results, metrics, bounds
  <1>1. CASE Wake
    BY <1>1 DEF Wake, FindingsShown, ViolationsShown,
         VersionsShown, TagsShown, Violations, VersionCount, TagSeries, TagCount
  <1>2. CASE List
    BY <1>2 DEF List, FindingsShown, ViolationsShown,
         VersionsShown, TagsShown, Violations, VersionCount, TagSeries, TagCount
  <1>3. CASE PassFails
    BY <1>3 DEF PassFails, FindingsShown, ViolationsShown,
         VersionsShown, TagsShown, Violations, VersionCount, TagSeries, TagCount
  <1>4. CASE ReadPolicy
    BY <1>4 DEF ReadPolicy, Compute
  <1>5. CASE ReadFails
    BY <1>5 DEF ReadFails, Compute
  <1>6. CASE Clear
    BY <1>6 DEF Clear, FindingsShown, Empty
  <1>7. CASE ClearViolations
    BY <1>7 DEF ClearViolations, FindingsShown
  <1>8. CASE TurnToViolations
    BY <1>8 DEF TurnToViolations, FindingsShown, ViolationsShown, Violations
  <1>9. CASE ClearVersions
    BY <1>9 DEF ClearVersions, FindingsShown, ViolationsShown, Violations
  <1>10. CASE ClearTags
    BY <1>10 DEF ClearTags, FindingsShown, ViolationsShown, Violations, VersionsShown, TagsShown, Empty
  <1>11. CASE PassEnds
    BY <1>11 DEF PassEnds, FindingsShown, ViolationsShown,
         VersionsShown, TagsShown, Violations, VersionCount, TagSeries, TagCount
  <1>12. ASSUME NEW c \in todo, SetFinding(c) PROVE FamiliesShowOnePass'
    BY <1>12 DEF SetFinding, FindingsShown, TypeOK
  <1>13. ASSUME NEW c \in todo, SetViolation(c) PROVE FamiliesShowOnePass'
    BY <1>13 DEF SetViolation, FindingsShown, ViolationsShown, Violations
  <1>14. ASSUME NEW k \in todo, SetVersions(k) PROVE FamiliesShowOnePass'
    <2> USE <1>14 DEF SetVersions
    <2>1. FindingsShown({})' /\ ViolationsShown({})'
      BY DEF FindingsShown, ViolationsShown, Violations
    <2>2. UNCHANGED spread /\ k \in DOMAIN spread /\ VersionsShown(todo)
      BY DEF TypeOK
    <2>3. \A j : VersionCount(j)' = VersionCount(j)
      BY <2>2 DEF VersionCount
    <2>4. VersionsShown(todo)'
      BY <2>2, <2>3 DEF VersionsShown
    <2>5. \A j : TagSeries(j)' = TagSeries(j)
      BY <2>2 DEF TagSeries
    <2>6. \A t : TagCount(t)' = TagCount(t)
      BY <2>2 DEF TagCount
    <2>7. k \in DOMAIN versions' /\ DOMAIN versions' \ {k} \subseteq DOMAIN versions
      OBVIOUS
    <2>8. TagsShown({}) /\ UNCHANGED tagCounts /\ DOMAIN versions \subseteq DOMAIN versions'
      OBVIOUS
    <2>9. TagsShown({k})'
      BY <2>5, <2>6, <2>7, <2>8 DEF TagsShown
    <2> QED
      BY <2>1, <2>4, <2>7, <2>9
  <1>15. ASSUME NEW k \in DOMAIN spread, SetTags(k) PROVE FamiliesShowOnePass'
    <2> USE <1>15 DEF SetTags
    <2>1. FindingsShown({})' /\ ViolationsShown({})'
      BY DEF FindingsShown, ViolationsShown, Violations
    <2>2. \A j : VersionCount(j)' = VersionCount(j)
      BY DEF VersionCount
    <2>3. VersionsShown(todo)'
      BY <2>2 DEF VersionsShown
    <2>4. \A j : TagSeries(j)' = TagSeries(j)
      BY DEF TagSeries
    <2>5. \A t : TagCount(t)' = TagCount(t)
      BY DEF TagCount
    <2>6. PICK j \in DOMAIN versions : TagsShown({j})
      OBVIOUS
    <2>7. j = k
      BY <2>6 DEF TagsShown
    <2>8. \A t \in DOMAIN tagCounts' :
             \E i \in DOMAIN versions : t \in TagSeries(i) /\ tagCounts'[t] = TagCount(t)
      BY <2>6 DEF TagsShown
    <2>9. \A i \in DOMAIN versions : TagSeries(i) \subseteq DOMAIN tagCounts'
      BY <2>6, <2>7 DEF TagsShown
    <2>10. TagsShown({})'
      BY <2>4, <2>5, <2>8, <2>9 DEF TagsShown
    <2> QED
      BY <2>1, <2>3, <2>10
  <1>16. ASSUME NEW p \in Pods, PodCreated(p) \/ PodStarts(p) \/ PodEnds(p) PROVE UNCHANGED shown
    BY <1>16 DEF PodCreated, PodStarts, PodEnds, Elsewhere, shown
  <1>17. ASSUME NEW r \in Policies, PolicyEdited(r) PROVE UNCHANGED shown
    BY <1>17 DEF PolicyEdited, Elsewhere, shown
  <1>18. CASE DayPasses
    BY <1>18, ShownElsewhere DEF DayPasses, Elsewhere, shown
  <1>19. CASE Restart
    BY <1>19 DEF Restart, FindingsShown, ViolationsShown, VersionsShown, TagsShown, Violations, Empty
  <1>20. CASE UNCHANGED vars
    BY <1>20, ShownElsewhere DEF vars, shown
  <1> QED
    BY NextIsStep, ShownElsewhere, <1>1, <1>2, <1>3, <1>4, <1>5, <1>6, <1>7, <1>8, <1>9, <1>10,
       <1>11, <1>12, <1>13, <1>14, <1>15, <1>16, <1>17, <1>18, <1>19, <1>20 DEF Step

\* Every variable keeps its type.
THEOREM AuditTypeCorrect == Spec => []TypeOK
  <1>1. Init => TypeOK
    BY BoundsAssumption, AuditAssumption DEF Init, TypeOK, Phases, Positions, Empty
  <1>2. TypeOK /\ [Next]_vars => TypeOK'
    BY TypeStep
  <1> QED
    BY <1>1, <1>2, PTL DEF Spec

\* Whatever comes between the steps of a pass, and however passes fail, a scrape
\* meets families of metrics of one pass each.
THEOREM ScrapesShowOnePass == Spec => []FamiliesShowOnePass
  <1>1. Init => FamiliesShowOnePass
    BY DEF Init, FamiliesShowOnePass, Between, FindingsShown, ViolationsShown, VersionsShown,
           TagsShown, Violations, Empty
  <1>2. TypeOK /\ FamiliesShowOnePass /\ [Next]_vars => FamiliesShowOnePass'
    BY ShownStep
  <1> QED
    BY <1>1, <1>2, AuditTypeCorrect, PTL DEF Spec

---------------------------------------------------------------------------
(* The metrics say what runs                                               *)

\* A container is a pod and an index of its images.
LEMMA ContainerIs ==
    ASSUME NEW pods, NEW c
    PROVE  c \in Containers(pods) <=> c[1] \in pods /\ c \in {c[1]} \X DOMAIN Template[c[1]].images
  BY DEF Containers

\* Leaving out pods that opt out is leaving out their containers.
LEMMA CheckedIsRunning ==
    ASSUME NEW check
    PROVE  Checked(Alive, check, policy) = Running(check)
  <1>1. ASSUME NEW c PROVE c \in Checked(Alive, check, policy) <=> c \in Running(check)
    <2>1. c \in Checked(Alive, check, policy) <=>
             /\ c[1] \in Alive /\ ~Skips(c[1], check, policy)
             /\ c \in {c[1]} \X DOMAIN Template[c[1]].images
      BY ContainerIs DEF Checked
    <2>2. c \in Running(check) <=> c \in Containers(Alive) /\ ~OptedOut(c, check)
      BY DEF Running
    <2> QED
      BY <2>1, <2>2, ContainerIs DEF Skips, OptedOut
  <1> QED
    BY <1>1

\* There are finitely many containers.
LEMMA ContainersAreFinite == IsFiniteSet(Containers(Pods))
  <1> DEFINE Of1(p) == {p} \X DOMAIN Template[p].images
             f == [p \in Pods |-> Of1(p)]
             S == {Of1(p) : p \in Pods}
  <1>1. ASSUME NEW p \in Pods PROVE IsFiniteSet(Of1(p))
    <2>1. DOMAIN Template[p].images = 1 .. Len(Template[p].images) /\ Len(Template[p].images) \in Nat
      BY AuditAssumption
    <2>2. IsFiniteSet(DOMAIN Template[p].images)
      BY <2>1, FS_Interval
    <2>3. IsFiniteSet({p})
      BY FS_Singleton
    <2> QED
      BY <2>2, <2>3, FS_Product
  <1>2. f \in Surjection(Pods, S)
    BY DEF Surjection
  <1>3. IsFiniteSet(S)
    BY <1>2, FS_Surjection, AuditAssumption
  <1> QED
    BY <1>1, <1>3, FS_UNION DEF Containers

\* The versions of finitely many containers are more than one exactly if two differ.
LEMMA SeveralVersions ==
    ASSUME NEW cs \in SUBSET Containers(Pods)
    PROVE  LET vs == {VersionOf[c] : c \in cs}
           IN /\ IsFiniteSet(vs)
              /\ \A c, d \in cs : VersionOf[c] # VersionOf[d] => Cardinality(vs) > 1
  <1> DEFINE vs == {VersionOf[c] : c \in cs}
             f == [c \in cs |-> VersionOf[c]]
  <1>1. IsFiniteSet(cs)
    BY ContainersAreFinite, FS_Subset
  <1>2. f \in Surjection(cs, vs)
    BY DEF Surjection
  <1>3. IsFiniteSet(vs)
    BY <1>1, <1>2, FS_Surjection
  <1>4. ASSUME NEW c \in cs, NEW d \in cs, VersionOf[c] # VersionOf[d]
        PROVE  Cardinality(vs) > 1
    <2> DEFINE one == {VersionOf[c]}
    <2>1. one \in SUBSET vs /\ one # vs
      BY <1>4
    <2>2. Cardinality(one) = 1
      BY FS_Singleton
    <2>3. Cardinality(one) <= Cardinality(vs) /\ Cardinality(one) # Cardinality(vs)
      BY <1>3, <2>1, FS_Subset
    <2>4. Cardinality(vs) \in Nat
      BY <1>3, FS_CardinalityType
    <2> QED
      BY <2>2, <2>3, <2>4
  <1> QED
    BY <1>3, <1>4

\* Every container runs a tag.
LEMMA VersionsAreTags ==
    ASSUME NEW c \in Containers(Pods)
    PROVE  VersionOf[c] \in Tags
  <1>1. c[1] \in Pods /\ c[2] \in DOMAIN Template[c[1]].images
    BY ContainerIs
  <1>2. ImageOf(c) \in Image
    BY <1>1, AuditAssumption DEF ImageOf
  <1>3. Latest \in Tags
    <2>1. <<LatestWord>> \in Seq(Words)
      BY TagsAssumption
    <2> QED
      BY <2>1 DEF Latest, Tags, Kinds
  <1> QED
    BY <1>2, <1>3 DEF VersionOf, TagOf, Image

\* What the pre-release families show, if they show what there is.
LEMMA FindingsAccurate ==
    ASSUME TypeOK, FindingsShown({}), ViolationsShown({}),
           used = policy, findings = Findings(Listing, policy)
    PROVE  /\ DOMAIN prerelease = {c \in Running("prerelease") : Unstable(c)}
           /\ \A c \in DOMAIN prerelease : prerelease[c] = Age(c)
           /\ violation = {c \in Running("prerelease") : Unstable(c) /\ Age(c) > policy.maxAge}
  <1>1. DOMAIN Listing = Alive /\ \A p \in Alive : Listing[p] = Since(p)
    BY DEF Listing
  <1>2. ASSUME NEW c \in Running("prerelease")
        PROVE  /\ IsPrerelease(VersionOf[c], policy.suffixes) <=> Unstable(c)
               /\ Listing[c[1]] = Since(c[1])
    <2>1. c \in Containers(Alive) /\ Alive \subseteq Pods
      BY <1>2 DEF Running, Alive
    <2>2. c[1] \in Alive /\ c \in Containers(Pods)
      BY <2>1, ContainersBelong
    <2>3. policy.suffixes \in SUBSET (Words \ {Number})
      BY AuditAssumption DEF TypeOK, Policy
    <2> QED
      BY <1>1, <2>2, <2>3, VersionsAreTags, ClassifiesAsDocumented DEF Unstable
  <1>3. findings = [c \in {d \in Running("prerelease") : IsPrerelease(VersionOf[d], policy.suffixes)}
                      |-> today - Listing[c[1]]]
    BY <1>1, CheckedIsRunning DEF Findings
  <1>4. /\ DOMAIN findings = {c \in Running("prerelease") : Unstable(c)}
        /\ \A c \in DOMAIN findings : findings[c] = Age(c)
    BY <1>2, <1>3 DEF Age
  <1>5. /\ DOMAIN prerelease = DOMAIN findings
        /\ \A c \in DOMAIN prerelease : prerelease[c] = findings[c]
    BY DEF FindingsShown
  <1>6. violation = {c \in DOMAIN findings : findings[c] > policy.maxAge}
    BY DEF ViolationsShown, Violations
  <1> QED
    BY <1>4, <1>5, <1>6

\* What the version families show, if they show what there is.
LEMMA VersionsAccurate ==
    ASSUME TypeOK, VersionsShown({}), TagsShown({}),
           used = policy, spread = Spread(Alive, policy)
    PROVE  /\ \A c, d \in Running("spread") :
                 NameOf[c] = NameOf[d] /\ VersionOf[c] # VersionOf[d] =>
                    <<NameOf[c], VersionOf[c], NamespaceOf(c)>> \in DOMAIN tagCounts
           /\ \A t \in DOMAIN tagCounts :
                 /\ t[1] \in DOMAIN versions
                 /\ tagCounts[t] = Cardinality({c \in Of(t[1], t[2]) : NamespaceOf(c) = t[3]})
           /\ \A k \in DOMAIN versions :
                 /\ versions[k].count =
                       Cardinality({t[2] : t \in {u \in DOMAIN tagCounts : u[1] = k}})
                 /\ versions[k].violates = (versions[k].count > policy.threshold)
  <1> DEFINE cs == Running("spread")
             runs(k) == {c \in cs : NameOf[c] = k}
             several == {k \in {NameOf[c] : c \in cs} : Cardinality({VersionOf[c] : c \in runs(k)}) > 1}
  <1>1. spread = [k \in several |-> runs(k)]
    BY CheckedIsRunning DEF Spread
  <1>2. DOMAIN spread = several /\ \A k \in several : spread[k] = runs(k)
    BY <1>1
  <1>3. DOMAIN versions = several
    BY <1>2 DEF VersionsShown
  <1>4. \A k \in several : TagSeries(k) \subseteq DOMAIN tagCounts
    BY <1>3 DEF TagsShown
  <1>5. \A t \in DOMAIN tagCounts :
           \E k \in several : t \in TagSeries(k) /\ tagCounts[t] = TagCount(t)
    BY <1>3 DEF TagsShown
  <1>6. ASSUME NEW c \in cs, NEW d \in cs, NameOf[c] = NameOf[d], VersionOf[c] # VersionOf[d]
        PROVE  <<NameOf[c], VersionOf[c], NamespaceOf(c)>> \in DOMAIN tagCounts
    <2> DEFINE k == NameOf[c]
    <2>1. runs(k) \in SUBSET Containers(Pods) /\ c \in runs(k) /\ d \in runs(k)
      <3>1. Alive \subseteq Pods
        BY DEF Alive
      <3>2. cs \subseteq Containers(Pods)
        BY <3>1, ContainersBelong DEF Running
      <3> QED
        BY <1>6, <3>2
    <2>2. Cardinality({VersionOf[e] : e \in runs(k)}) > 1
      BY <1>6, <2>1, SeveralVersions
    <2>3. k \in several
      BY <1>6, <2>2
    <2>4. <<k, VersionOf[c], NamespaceOf(c)>> \in TagSeries(k)
      BY <1>2, <2>1, <2>3 DEF TagSeries
    <2> QED
      BY <1>4, <2>3, <2>4
  <1>7. ASSUME NEW t \in DOMAIN tagCounts
        PROVE  /\ t[1] \in DOMAIN versions
               /\ tagCounts[t] = Cardinality({c \in Of(t[1], t[2]) : NamespaceOf(c) = t[3]})
    <2>1. PICK k \in several : t \in TagSeries(k) /\ tagCounts[t] = TagCount(t)
      BY <1>5
    <2>2. t[1] = k
      BY <2>1 DEF TagSeries
    <2>3. spread[k] = runs(k)
      BY <1>2
    <2>4. {c \in spread[t[1]] : VersionOf[c] = t[2] /\ NamespaceOf(c) = t[3]}
             = {c \in Of(t[1], t[2]) : NamespaceOf(c) = t[3]}
      BY <2>2, <2>3 DEF Of
    <2> QED
      BY <1>3, <2>1, <2>2, <2>4 DEF TagCount
  <1>8. ASSUME NEW k \in DOMAIN versions
        PROVE  /\ versions[k].count =
                     Cardinality({t[2] : t \in {u \in DOMAIN tagCounts : u[1] = k}})
               /\ versions[k].violates = (versions[k].count > policy.threshold)
    <2>1. {u \in DOMAIN tagCounts : u[1] = k} = TagSeries(k)
      <3>1. \A u : u \in TagSeries(k) => u[1] = k /\ u \in DOMAIN tagCounts
        BY <1>3, <1>4, <1>8 DEF TagSeries
      <3>2. ASSUME NEW u \in DOMAIN tagCounts, u[1] = k PROVE u \in TagSeries(k)
        <4>1. PICK j \in several : u \in TagSeries(j)
          BY <1>5
        <4>2. u[1] = j
          BY <4>1 DEF TagSeries
        <4> QED
          BY <3>2, <4>1, <4>2
      <3> QED
        BY <3>1, <3>2
    <2>2. {t[2] : t \in TagSeries(k)} = {VersionOf[c] : c \in spread[k]}
      <3>1. \A t \in TagSeries(k) : t[2] \in {VersionOf[c] : c \in spread[k]}
        BY DEF TagSeries
      <3>2. ASSUME NEW c \in spread[k] PROVE VersionOf[c] \in {t[2] : t \in TagSeries(k)}
        <4>1. <<k, VersionOf[c], NamespaceOf(c)>> \in TagSeries(k)
          BY <3>2 DEF TagSeries
        <4> QED
          BY <4>1
      <3> QED
        BY <3>1, <3>2
    <2>3. versions[k].count = VersionCount(k) /\ versions[k].violates = (VersionCount(k) > policy.threshold)
      BY <1>8 DEF VersionsShown
    <2> QED
      BY <2>1, <2>2, <2>3 DEF VersionCount
  <1> QED
    BY <1>6, <1>7, <1>8

\* A pass that went by what is there leaves accurate metrics.
LEMMA FreshShowsAll ==
    ASSUME TypeOK, FamiliesShowOnePass
    PROVE  FreshIsAccurate
  <1> SUFFICES ASSUME pc = "sleep", Fresh PROVE Accurate
    BY DEF FreshIsAccurate
  <1>1. FindingsShown({}) /\ ViolationsShown({}) /\ VersionsShown({}) /\ TagsShown({})
    BY DEF FamiliesShowOnePass, Between
  <1>2. used = policy /\ findings = Findings(Listing, policy) /\ spread = Spread(Alive, policy)
    BY DEF Fresh
  <1> QED
    BY <1>1, <1>2, FindingsAccurate, VersionsAccurate DEF Accurate

\* For every cluster, every vocabulary of tags and every policy: whenever the audit
\* sleeps after a pass that went by what is there now, the metrics say of every
\* container, image and tag what they should.
THEOREM FreshPassesAreAccurate == Spec => []FreshIsAccurate
  <1>1. TypeOK /\ FamiliesShowOnePass => FreshIsAccurate
    BY FreshShowsAll
  <1> QED
    BY <1>1, AuditTypeCorrect, ScrapesShowOnePass, PTL

\* Fresh speaks of the world and of a few variables of the audit.
LEMMA FreshKept ==
    ASSUME Fresh, UNCHANGED <<world, results>>,
           \/ UNCHANGED <<pc, listed>>
           \/ pc' = "list"
           \/ pc' = "policy" /\ listed' = Listing
           \/ pc \notin {"list", "policy"} /\ pc' # "policy"
    PROVE  Fresh'
  <1>1. UNCHANGED <<today, phase, created, started, policy, used, findings, spread>>
    BY DEF world, results
  <1>2. Listing' = Listing /\ Alive' = Alive
    BY <1>1 DEF Listing, Alive, Since
  <1>3. Findings(Listing, policy)' = Findings(Listing, policy)
    BY <1>1, <1>2 DEF Findings
  <1>4. Spread(Alive, policy)' = Spread(Alive, policy)
    BY <1>1, <1>2 DEF Spread, Checked, Skips
  <1> QED
    BY <1>1, <1>2, <1>3, <1>4 DEF Fresh

\* While the world is quiet and nothing fails, a pass goes by what is there.
LEMMA FreshStep ==
    ASSUME TypeOK, Fresh, UNCHANGED <<world, bounds>>, Next
    PROVE  Fresh'
  <1> USE DEF results, metrics
  <1>1. UNCHANGED <<today, phase, created, started, policy, edits, faults>>
    BY DEF world, bounds
  <1>2. ~Fault /\ ~Edit
    BY <1>1, BoundsAssumption DEF TypeOK, Fault, Edit
  <1>3. CASE Wake
    BY <1>3, FreshKept DEF Wake
  <1>4. CASE List
    BY <1>4, FreshKept DEF List
  <1>5. CASE ReadPolicy
    <2>1. Listing' = Listing /\ Alive' = Alive /\ DOMAIN Listing = Alive
      BY <1>1 DEF Listing, Alive, Since
    <2>2. Findings(Listing, policy)' = Findings(Listing, policy)
      BY <1>1, <2>1 DEF Findings
    <2>3. Spread(Alive, policy)' = Spread(Alive, policy)
      BY <1>1, <2>1 DEF Spread, Checked, Skips
    <2>4. listed = Listing /\ pc' = "clear"
      BY <1>5 DEF ReadPolicy, Compute, Fresh
    <2>5. /\ used' = policy /\ findings' = Findings(Listing, policy)
          /\ spread' = Spread(DOMAIN Listing, policy)
      BY <1>5, <2>4 DEF ReadPolicy, Compute
    <2> QED
      BY <1>1, <2>1, <2>2, <2>3, <2>4, <2>5 DEF Fresh
  <1>6. CASE \/ Clear \/ ClearViolations \/ TurnToViolations \/ ClearVersions \/ ClearTags \/ PassEnds
    BY <1>6, FreshKept
       DEF Clear, ClearViolations, TurnToViolations, ClearVersions, ClearTags, PassEnds
  <1>7. CASE \E c \in todo : SetFinding(c) \/ SetViolation(c) \/ SetVersions(c)
    BY <1>7, FreshKept DEF SetFinding, SetViolation, SetVersions
  <1>8. CASE \E k \in DOMAIN spread : SetTags(k)
    BY <1>8, FreshKept DEF SetTags
  <1>9. ~PassFails /\ ~ReadFails /\ ~Restart
    BY <1>2 DEF PassFails, ReadFails, Restart
  <1>10. ASSUME NEW p \in Pods PROVE ~PodCreated(p) /\ ~PodEnds(p) /\ ~PodStarts(p)
    <2>1. ~PodCreated(p) /\ ~PodEnds(p)
      BY <1>2 DEF PodCreated, PodEnds
    <2>2. ~PodStarts(p)
      BY <1>1 DEF PodStarts, TypeOK
    <2> QED
      BY <2>1, <2>2
  <1>11. \A r \in Policies : ~PolicyEdited(r)
    BY <1>2 DEF PolicyEdited
  <1>12. ~DayPasses
    BY <1>1, BoundsAssumption DEF DayPasses, TypeOK
  <1> QED
    BY <1>3, <1>4, <1>5, <1>6, <1>7, <1>8, <1>9, <1>10, <1>11, <1>12, NextIsStep DEF Step

\* From the start of a pass on, and from then on for ever, whenever the audit sleeps the
\* metrics say what they should, as long as the world is quiet and nothing fails: what
\* AuditSettles says but for its being reached.
THEOREM QuietPassesAreAccurate ==
    Spec => [](pc = "list" /\ [][UNCHANGED <<world, bounds>>]_vars => [](pc = "sleep" => Accurate))
  <1>1. pc = "list" => Fresh
    BY DEF Fresh
  <1>2. TypeOK /\ Fresh /\ [Next]_vars /\ [UNCHANGED <<world, bounds>>]_vars => Fresh'
    <2>1. ASSUME Fresh, UNCHANGED vars PROVE Fresh'
      BY <2>1, FreshKept DEF vars, world, results
    <2> QED
      BY <2>1, FreshStep
  <1>3. FreshIsAccurate /\ Fresh => (pc = "sleep" => Accurate)
    BY DEF FreshIsAccurate
  <1> QED
    BY <1>1, <1>2, <1>3, AuditTypeCorrect, FreshPassesAreAccurate, PTL DEF Spec
=============================================================================
