------------------------ MODULE PullCredentialsProofs ------------------------
(***************************************************************************)
(* Proofs about PullCredentials for every set of pods, secrets, registries *)
(* and worlds: every pod gets an answer, and a credential is judged by     *)
(* what its own registry says to its own token.                            *)
(***************************************************************************)
EXTENDS PullCredentials, FiniteSetTheorems, TLAPS

---------------------------------------------------------------------------
(* Listing a finite set in an order                                        *)

\* A set of natural numbers that is not empty has a least one.
LEMMA Least ==
    ASSUME NEW S \in SUBSET Nat, S # {}
    PROVE  \E n \in S : \A m \in S : n <= m
  <1>1. PICK n \in S : \A m \in S : <<m, n>> \notin OpToRel(<, Nat)
    BY NatLessThanWellFounded, WFMin
  <1>2. \A m \in S : ~(m < n)
    BY <1>1 DEF OpToRel
  <1> QED
    BY <1>2

\* A finite set that is not empty has a last element by a relation that is total
\* and transitive.
LEMMA LastElement ==
    ASSUME NEW S, IsFiniteSet(S), S # {}, NEW R,
           \A x, y \in S : <<x, y>> \in R \/ <<y, x>> \in R,
           \A x, y, z \in S : <<x, y>> \in R /\ <<y, z>> \in R => <<x, z>> \in R
    PROVE  \E m \in S : \A x \in S : <<x, m>> \in R
  <1> DEFINE Has(T) == \E m \in T : \A x \in T : <<x, m>> \in R
             Bad == {T \in SUBSET S : T # {} /\ ~Has(T)}
             Sizes == {Cardinality(T) : T \in Bad}
  <1> SUFFICES ASSUME Bad # {} PROVE FALSE
    OBVIOUS
  <1>1. \A T \in SUBSET S : IsFiniteSet(T) /\ Cardinality(T) \in Nat
    BY FS_Subset, FS_CardinalityType
  <1>2. PICK T \in Bad : \A U \in Bad : Cardinality(T) <= Cardinality(U)
    <2>1. Sizes \in SUBSET Nat /\ Sizes # {}
      BY <1>1
    <2>2. PICK n \in Sizes : \A m \in Sizes : n <= m
      <3> HIDE DEF Sizes
      <3> QED
        BY <2>1, Least
    <2> QED
      <3> HIDE DEF Has
      <3> QED
        BY <2>2
  <1>3. PICK e \in T : TRUE
    BY <1>2
  <1>4. T \ {e} \notin Bad
    <2>1. IsFiniteSet(T) /\ Cardinality(T) \in Nat
      BY <1>1, <1>2
    <2>2. Cardinality(T \ {e}) = Cardinality(T) - 1
      BY <1>3, <2>1, FS_RemoveElement
    <2> HIDE DEF Has
    <2> QED
      BY <1>2, <2>1, <2>2
  <1>5. CASE T \ {e} = {}
    <2>1. \A x \in T : <<x, e>> \in R
      BY <1>2, <1>3, <1>5
    <2> QED
      BY <1>2, <1>3, <2>1
  <1>6. CASE T \ {e} # {}
    <2>1. PICK m \in T \ {e} : \A x \in T \ {e} : <<x, m>> \in R
      BY <1>2, <1>4, <1>6
    <2>2. CASE <<e, m>> \in R
      BY <1>2, <2>1, <2>2
    <2>3. CASE <<m, e>> \in R
      <3>1. \A x \in T : <<x, e>> \in R
        BY <1>2, <1>3, <2>1, <2>3
      <3> QED
        BY <1>2, <1>3, <3>1
    <2> QED
      BY <1>2, <1>3, <2>1, <2>2, <2>3
  <1> QED
    BY <1>5, <1>6

\* Such a set can be listed in the order of the relation, each element once.
LEMMA OrderedListing ==
    ASSUME NEW S, IsFiniteSet(S), NEW R,
           \A x, y \in S : <<x, y>> \in R \/ <<y, x>> \in R,
           \A x, y, z \in S : <<x, y>> \in R /\ <<y, z>> \in R => <<x, z>> \in R
    PROVE  \E f \in Bijection(1 .. Cardinality(S), S) :
              \A j, k \in DOMAIN f : j < k => <<f[j], f[k]>> \in R
  <1> DEFINE Listed(T) == \E f \in Bijection(1 .. Cardinality(T), T) :
                              \A j, k \in 1 .. Cardinality(T) : j < k => <<f[j], f[k]>> \in R
             Bad == {T \in SUBSET S : ~Listed(T)}
             Sizes == {Cardinality(T) : T \in Bad}
  <1>1. \A T \in SUBSET S : IsFiniteSet(T) /\ Cardinality(T) \in Nat
    BY FS_Subset, FS_CardinalityType
  <1>2. ASSUME Bad # {} PROVE FALSE
    <2>1. PICK T \in Bad : \A U \in Bad : Cardinality(T) <= Cardinality(U)
      <3>1. Sizes \in SUBSET Nat /\ Sizes # {}
        <4> HIDE DEF Listed
        <4> QED
          BY <1>1, <1>2
      <3>2. PICK n \in Sizes : \A m \in Sizes : n <= m
        <4> HIDE DEF Sizes
        <4> QED
          BY <3>1, Least
      <3> QED
        <4> HIDE DEF Listed
        <4> QED
          BY <3>2
    <2>2. T \subseteq S /\ IsFiniteSet(T) /\ Cardinality(T) \in Nat
      BY <1>1, <2>1
    <2>3. CASE T = {}
      <3>1. Cardinality(T) = 0
        BY <2>3, FS_EmptySet
      <3>2. <<>> \in Bijection({}, {})
        BY DEF Bijection, Injection, Surjection, IsInjective
      <3>3. 1 .. Cardinality(T) = {}
        BY <3>1
      <3>4. Listed(T)
        BY <2>3, <3>2, <3>3
      <3> QED
        BY <2>1, <3>4
    <2>4. CASE T # {}
      <3> DEFINE n == Cardinality(T)
      <3>1. PICK m \in T : \A x \in T : <<x, m>> \in R
        <4>1. \A x, y \in T : <<x, y>> \in R \/ <<y, x>> \in R
          BY <2>2
        <4>2. \A x, y, z \in T : <<x, y>> \in R /\ <<y, z>> \in R => <<x, z>> \in R
          BY <2>2
        <4> QED
          BY <2>2, <2>4, <4>1, <4>2, LastElement
      <3>2. Cardinality(T \ {m}) = n - 1
        BY <2>2, <3>1, FS_RemoveElement
      <3>3. n \in Nat /\ n # 0
        BY <2>2, <2>4, FS_EmptySet
      <3>4. Listed(T \ {m})
        <4> HIDE DEF Listed
        <4> QED
          BY <2>1, <2>2, <3>2, <3>3
      <3>5. PICK f \in Bijection(1 .. n - 1, T \ {m}) :
               \A j, k \in 1 .. n - 1 : j < k => <<f[j], f[k]>> \in R
        BY <3>2, <3>4
      <3> HIDE DEF n
      <3> DEFINE g == [j \in 1 .. n |-> IF j = n THEN m ELSE f[j]]
      <3>6. /\ f \in [1 .. n - 1 -> T \ {m}]
            /\ \A j, k \in 1 .. n - 1 : f[j] = f[k] => j = k
            /\ \A x \in T \ {m} : \E j \in 1 .. n - 1 : f[j] = x
        BY <3>5 DEF Bijection, Injection, Surjection, IsInjective
      <3>7. \A j \in 1 .. n : j # n => j \in 1 .. n - 1
        BY <3>3
      <3>8. g[n] = m /\ n \in 1 .. n /\ \A j \in 1 .. n - 1 : j \in 1 .. n /\ j < n /\ g[j] = f[j]
        BY <3>3
      <3>9. g \in [1 .. n -> T]
        BY <3>1, <3>6, <3>7
      <3>10. \A j, k \in 1 .. n : g[j] = g[k] => j = k
        <4> HIDE DEF g
        <4> QED
          BY <3>6, <3>7, <3>8
      <3>11. \A x \in T : \E j \in 1 .. n : g[j] = x
        <4> HIDE DEF g
        <4> QED
          BY <3>6, <3>8
      <3>12. \A j, k \in 1 .. n : j < k => <<g[j], g[k]>> \in R
        <4> SUFFICES ASSUME NEW j \in 1 .. n, NEW k \in 1 .. n, j < k PROVE <<g[j], g[k]>> \in R
          OBVIOUS
        <4>1. j \in 1 .. n - 1
          BY <3>3
        <4>2. CASE k = n
          <5>1. g[j] \in T
            BY <3>9
          <5> QED
            BY <3>1, <3>8, <4>2, <5>1
        <4>3. CASE k # n
          BY <3>5, <3>7, <3>8, <4>1, <4>3
        <4> QED
          BY <4>2, <4>3
      <3>13. g \in Bijection(1 .. n, T)
        <4> HIDE DEF g
        <4> QED
          BY <3>9, <3>10, <3>11 DEF Bijection, Injection, Surjection, IsInjective
      <3>14. Listed(T)
        <4> HIDE DEF g
        <4> QED
          BY <3>12, <3>13 DEF n
      <3> QED
        BY <2>1, <3>14
    <2> QED
      BY <2>3, <2>4
  <1>3. Listed(S)
    <2> HIDE DEF Listed
    <2> QED
      BY <1>2
  <1> QED
    BY <1>3 DEF Bijection, Injection

---------------------------------------------------------------------------
(* The invariant                                                           *)

Replies == {"available", "not_found", "auth_failure", "network"}

\* What every world gives, and no step changes.
InputInv ==
    /\ \A p \in Pods : pods[p].image \in Images /\ pods[p].refs \in Seq(Names)
    /\ \A n \in Namespaces, s \in Names : vault[n][s] \in [Keys -> Tokens \union {None}]
    /\ Named \in [Images -> Spellings \union {Implicit}] /\ TestImage \in Images \union {None}
    /\ input.budget \in Nat

\* Nothing is left to inspect outside the inspection phase, and in it every pod's
\* inspection is still to be made or has been; no verdict precedes the probes.
AnsweredInv ==
    /\ pc # "probe" => verdict = {}
    /\ pc # "inspect" => todo = {}
    /\ pc = "inspect" => \A p \in Pods :
          InspectionOf(p) \in todo \/ \E r \in Replies : <<InspectionOf(p), r>> \in answer

CredentialsInv == InputInv /\ TypeOK /\ AnsweredInv

\* The steps of Next as a list.
Step ==
    \/ \E n \in Namespaces, s \in Names : ReadSecret(n, s)
    \/ PlanInspections \/ Report \/ NextCycle
    \/ \E k \in todo : Ask(k)
    \/ \E c \in toProbe : Probe(c)

\* Every step of the specification is in the list.
LEMMA NextIsStep == Next => Step
  BY DEF Next, Step

\* A failing call is counted within the bound.
LEMMA FaultBounded ==
    ASSUME CredentialsInv, Fault \/ NoFault, UNCHANGED input
    PROVE  faults' \in 0 .. input'.budget
  BY DEF CredentialsInv, InputInv, TypeOK, Fault, NoFault

\* Failing calls are only counted on.
LEMMA FaultCounted ==
    ASSUME CredentialsInv, Fault \/ NoFault, faults' = 0
    PROVE  faults = 0 /\ NoFault
  BY DEF CredentialsInv, InputInv, TypeOK, Fault, NoFault

\* A cycle starts with all there is to know about its world.
LEMMA InitInv == Init => CredentialsInv
  <1> SUFFICES ASSUME Init PROVE CredentialsInv
    OBVIOUS
  <1>1. PICK w \in Worlds : \E u \in w.pods, v \in w.vaults, r \in w.accepts, e \in w.exists :
          input = [pods |-> u, vault |-> v, accepts |-> r, exists |-> e, named |-> w.named,
                   ported |-> w.ported, test |-> w.test, budget |-> w.budget]
    BY DEF Init
  <1>2. PICK u \in w.pods, v \in w.vaults :
            /\ input.pods = u /\ input.vault = v /\ input.budget = w.budget
            /\ input.named = w.named /\ input.test = w.test
    BY <1>1
  <1>3. InputInv
    BY <1>2, CredentialsAssumption DEF InputInv, pods, vault, Named, TestImage
  <1>4. TypeOK
    BY <1>3 DEF Init, TypeOK, InputInv
  <1> QED
    BY <1>3, <1>4 DEF Init, CredentialsInv, AnsweredInv

\* Reading a secret adds credentials of the secret, and nothing is planned yet.
LEMMA ReadKeeps ==
    ASSUME CredentialsInv, NEW n \in Namespaces, NEW s \in Names, ReadSecret(n, s)
    PROVE  CredentialsInv'
  <1> USE DEF CredentialsInv
  <1>1. faults' \in 0 .. input'.budget
    BY FaultBounded DEF ReadSecret
  <1>2. Wanted' = Wanted /\ (\A m, t : Decoded(m, t)' = Decoded(m, t))
    BY DEF ReadSecret, Wanted, Decoded, pods, vault
  <1>3. Decoded(n, s) \subseteq UNION {Decoded(w[1], w[2]) : w \in Wanted}
    <2>1. <<n, s>> \in Wanted
      BY DEF ReadSecret, TypeOK
    <2> QED
      BY <2>1
  <1>4. creds' \subseteq UNION {Decoded(w[1], w[2])' : w \in Wanted'} /\ creds \subseteq creds'
    BY <1>2, <1>3 DEF ReadSecret, TypeOK
  <1>5. todo = {} /\ now = None
    BY DEF ReadSecret, AnsweredInv, TypeOK
  <1>6. TypeOK'
    BY <1>1, <1>2, <1>4, <1>5 DEF ReadSecret, TypeOK
  <1> QED
    BY <1>5, <1>6 DEF ReadSecret, AnsweredInv, InputInv, pods, vault, Named, TestImage

\* What the phases after reading leave as it is.
LEMMA SameInspections ==
    ASSUME UNCHANGED <<input, creds>>
    PROVE  /\ Wanted' = Wanted /\ (\A m, t : Decoded(m, t)' = Decoded(m, t))
           /\ \A p : InspectionOf(p)' = InspectionOf(p)
           /\ InputInv => InputInv'
  <1>1. /\ pods' = pods /\ vault' = vault /\ Named' = Named /\ TestImage' = TestImage
        /\ Registry' = Registry
    BY DEF pods, vault, Named, TestImage, Registry
  <1>2. Wanted' = Wanted /\ (\A m, t : Decoded(m, t)' = Decoded(m, t))
    BY <1>1 DEF Wanted, Decoded
  <1>3. \A n, i, s : Uses(n, i, s)' = Uses(n, i, s)
    BY <1>1 DEF Uses
  <1>4. \A n, i : Usable(n, i)' = Usable(n, i)
    BY <1>1, <1>3 DEF Usable, FromSecret
  <1>5. \A n, i : Candidates(n, i)' = Candidates(n, i)
    BY <1>3, <1>4 DEF Candidates, NoLater
  <1>6. \A n, i : Inspection(n, i)' = Inspection(n, i)
    BY <1>5 DEF Inspection
  <1> QED
    BY <1>1, <1>2, <1>6 DEF InspectionOf, InputInv

\* One answer of one candidate.
LEMMA AskKeeps ==
    ASSUME CredentialsInv, NEW k \in todo, Ask(k)
    PROVE  CredentialsInv'
  <1> USE DEF CredentialsInv
  <1>1. PICK reply \in Replies :
          /\ Fault \/ NoFault
          /\ \/ /\ refused + 1 < Len(k.asks)
                /\ now' = k /\ refused' = refused + 1 /\ UNCHANGED <<todo, answer>>
             \/ /\ answer' = answer \union {<<k, reply>>}
                /\ todo' = todo \ {k} /\ now' = None /\ refused' = 0
    BY DEF Ask, Replies, Reply
  <1>2. faults' \in 0 .. input'.budget
    BY <1>1, FaultBounded DEF Ask
  <1>3. /\ Wanted' = Wanted /\ (\A m, t : Decoded(m, t)' = Decoded(m, t))
        /\ \A p : InspectionOf(p)' = InspectionOf(p)
        /\ InputInv'
    BY SameInspections DEF Ask
  <1>4. /\ todo' \subseteq todo /\ now' \in todo' \union {None}
        /\ refused' \in Nat /\ (now' # None => refused' < Len(now'.asks))
    BY <1>1 DEF TypeOK
  <1>5. TypeOK'
    BY <1>2, <1>3, <1>4 DEF Ask, TypeOK
  <1>6. AnsweredInv'
    BY <1>1, <1>3 DEF Ask, AnsweredInv
  <1> QED
    BY <1>3, <1>5, <1>6

\* Every pod is reported with an answer that was given.
LEMMA ReportKeeps ==
    ASSUME CredentialsInv, Report
    PROVE  CredentialsInv'
  <1> USE DEF CredentialsInv
  <1>1. \A p \in Pods : \E r \in Replies : <<InspectionOf(p), r>> \in answer
    BY DEF Report, AnsweredInv
  <1>2. report' \in [Pods -> Replies]
    BY <1>1 DEF Report, Replies
  <1>3. /\ Wanted' = Wanted /\ (\A m, t : Decoded(m, t)' = Decoded(m, t))
        /\ \A p : InspectionOf(p)' = InspectionOf(p)
        /\ InputInv'
    BY SameInspections DEF Report
  <1>4. TypeOK'
    BY <1>2, <1>3 DEF Report, TypeOK, AnsweredInv, Replies
  <1> QED
    BY <1>3, <1>4 DEF Report, AnsweredInv

\* Planning the inspections leaves none out.
LEMMA PlanKeeps ==
    ASSUME CredentialsInv, PlanInspections
    PROVE  CredentialsInv'
  <1> USE DEF CredentialsInv
  <1>1. /\ Wanted' = Wanted /\ (\A m, t : Decoded(m, t)' = Decoded(m, t))
        /\ \A p : InspectionOf(p)' = InspectionOf(p)
        /\ InputInv'
    BY SameInspections DEF PlanInspections
  <1>2. now = None
    BY DEF PlanInspections, AnsweredInv, TypeOK
  <1>3. TypeOK'
    BY <1>1, <1>2 DEF PlanInspections, TypeOK
  <1> QED
    BY <1>1, <1>3 DEF PlanInspections, AnsweredInv

\* One credential probed.
LEMMA ProbeKeeps ==
    ASSUME CredentialsInv, NEW c \in toProbe, Probe(c)
    PROVE  CredentialsInv'
  <1> USE DEF CredentialsInv
  <1>1. PICK v \in BOOLEAN : verdict' = verdict \union {<<c, v>>} /\ (Fault \/ NoFault)
    BY DEF Probe, Listing, Valid
  <1>2. faults' \in 0 .. input'.budget
    BY <1>1, FaultBounded DEF Probe
  <1>3. /\ Wanted' = Wanted /\ (\A m, t : Decoded(m, t)' = Decoded(m, t))
        /\ \A p : InspectionOf(p)' = InspectionOf(p)
        /\ InputInv'
    BY SameInspections DEF Probe
  <1>4. \A w \in verdict' : w[1] \in creds' \ toProbe' /\ w[2] \in BOOLEAN
    BY <1>1 DEF Probe, TypeOK
  <1>5. TypeOK'
    BY <1>2, <1>3, <1>4 DEF Probe, TypeOK
  <1> QED
    BY <1>3, <1>5 DEF Probe, AnsweredInv

\* A new cycle starts as the first one did.
LEMMA NextCycleKeeps ==
    ASSUME CredentialsInv, NextCycle
    PROVE  CredentialsInv'
  <1> USE DEF CredentialsInv
  <1>1. InputInv' /\ Wanted' = Wanted
    BY DEF NextCycle, InputInv, Wanted, pods, vault, Named, TestImage
  <1>2. todo = {} /\ now = None
    BY DEF NextCycle, AnsweredInv, TypeOK
  <1>3. TypeOK'
    BY <1>1, <1>2 DEF NextCycle, TypeOK, InputInv
  <1> QED
    BY <1>1, <1>2, <1>3 DEF NextCycle, AnsweredInv

\* Every step keeps the invariant.
LEMMA StepInv == CredentialsInv /\ [Next]_vars => CredentialsInv'
  <1> SUFFICES ASSUME CredentialsInv, Step \/ UNCHANGED vars PROVE CredentialsInv'
    BY NextIsStep
  <1>1. CASE Step
    BY <1>1, ReadKeeps, PlanKeeps, AskKeeps, ReportKeeps, ProbeKeeps, NextCycleKeeps DEF Step
  <1>2. CASE UNCHANGED vars
    <2>1. /\ Wanted' = Wanted /\ (\A m, t : Decoded(m, t)' = Decoded(m, t))
          /\ \A p : InspectionOf(p)' = InspectionOf(p)
          /\ InputInv'
      BY <1>2, SameInspections DEF vars, CredentialsInv
    <2> QED
      BY <1>2, <2>1 DEF vars, CredentialsInv, TypeOK, AnsweredInv
  <1> QED
    BY <1>1, <1>2

\* The invariant holds throughout.
THEOREM CredentialsInvariance == Spec => []CredentialsInv
  BY InitInv, StepInv, PTL DEF Spec

\* Every variable keeps its type, and in particular every pod is reported with an
\* answer that was given: InspectionOf is the same when the inspections are planned
\* and when their answers are handed out.
THEOREM CredentialsTypeCorrect == Spec => []TypeOK
  <1>1. CredentialsInv => TypeOK
    BY DEF CredentialsInv
  <1> QED
    BY <1>1, CredentialsInvariance, PTL

\* Every credential is one of a secret that a pod of its namespace references.
LEMMA CredentialIs ==
    ASSUME TypeOK, NEW c \in creds
    PROVE  /\ \E p \in Pods : c.namespace = Home[p] /\ c.secret \in ToSet(pods[p].refs)
           /\ c.key \in Keys /\ c.token # None
           /\ c = [namespace |-> c.namespace, secret |-> c.secret, key |-> c.key,
                   token |-> vault[c.namespace][c.secret][c.key]]
  <1>1. PICK w \in Wanted : c \in Decoded(w[1], w[2])
    BY DEF TypeOK
  <1>2. PICK p \in Pods : \E s \in ToSet(pods[p].refs) : w = <<Home[p], s>>
    BY <1>1 DEF Wanted
  <1> QED
    BY <1>1, <1>2 DEF Decoded

---------------------------------------------------------------------------
(* Validity                                                                *)

\* The images a credential is judged by, as ValidityIsMeasured counts them.
Mine(c) ==
    LET own == {pods[p].image : p \in {p \in Pods : Home[p] = c.namespace /\
                                                c.secret \in ToSet(pods[p].refs)}}
        probed == IF TestImage = None THEN own ELSE {TestImage}
    IN  {i \in probed : Named[i] = Part[c.key]}

\* A verdict is right about what the registry says to the token.
Right(v) ==
    Mine(v[1]) # {} /\ Host[v[1].key] \notin Ported =>
        /\ (\A i \in Mine(v[1]) : v[1].token \in input.accepts[i]) => v[2]
        /\ faults = 0 /\ (\A i \in Mine(v[1]) : v[1].token \notin input.accepts[i]) => ~v[2]

\* An image of a credential's own namespace and secret, or the test image, is an image.
LEMMA MineAreImages ==
    ASSUME InputInv, NEW c
    PROVE  Mine(c) \subseteq Images
  BY DEF Mine, InputInv

\* Where there is an image that spells its registry as the key does, those that do are
\* the ones the probe takes, and it presents the token with each of them: what an image
\* spells is a host, neither a scheme nor left out.
LEMMA ProbedAreMine ==
    ASSUME InputInv, NEW c, c.key \in Keys, Mine(c) # {}
    PROVE  /\ ProbeImages(c) = Mine(c)
           /\ \A i \in Mine(c) : Registry[i] = Host[c.key] /\ Presented(c, i) = c.token
  <1>1. ASSUME NEW i \in Mine(c) PROVE Part[c.key] # Scheme /\ Registry[i] = Host[c.key]
    <2>1. Named[i] = Part[c.key]
      BY DEF Mine
    <2>2. i \in Images /\ Named[i] \in Spellings \union {Implicit}
      BY MineAreImages DEF InputInv
    <2>3. Part[c.key] \in Spellings \union {Scheme}
      BY CredentialsAssumption
    <2>4. Part[c.key] \in Spellings /\ Part[c.key] # Scheme /\ Named[i] # Implicit
      BY <2>1, <2>2, <2>3, CredentialsAssumption
    <2>5. Host[c.key] = At[Part[c.key]]
      BY <2>4, CredentialsAssumption
    <2> QED
      BY <2>1, <2>2, <2>4, <2>5 DEF Registry
  <1>2. ProbeImages(c) = Mine(c)
    <2>1. CASE TestImage = None
      BY <2>1 DEF Mine, ProbeImages, InputInv
    <2>2. CASE TestImage # None
      BY <2>2 DEF Mine, ProbeImages
    <2> QED
      BY <2>1, <2>2
  <1> QED
    BY <1>1, <1>2 DEF Presented

\* A probe comes to a verdict that is right.
LEMMA ProbeIsRight ==
    ASSUME CredentialsInv, NEW c \in toProbe, Probe(c)
    PROVE  \A v \in verdict' \ verdict : Right(v)'
  <1> USE DEF CredentialsInv
  <1> SUFFICES ASSUME NEW v \in verdict' \ verdict, Mine(v[1])' # {},
                      Host[v[1].key] \notin Ported'
               PROVE  /\ (\A i \in Mine(v[1])' : v[1].token \in input'.accepts[i]) => v[2]
                      /\ faults' = 0 /\ (\A i \in Mine(v[1])' : v[1].token \notin input'.accepts[i])
                            => ~v[2]
    BY DEF Right
  <1>1. input' = input /\ v[1] = c
    <2>1. PICK b : verdict' = verdict \union {<<c, b>>}
      BY DEF Probe
    <2> QED
      BY <2>1 DEF Probe
  <1>2. Mine(c)' = Mine(c) /\ Ported' = Ported
    BY <1>1 DEF Mine, pods, Named, TestImage, Ported
  <1>3. /\ ProbeImages(c) = Mine(c) /\ Mine(c) # {}
        /\ \A i \in Mine(c) : Registry[i] = Host[c.key] /\ Presented(c, i) = c.token
    <2>1. c.key \in Keys
      BY CredentialIs DEF TypeOK
    <2> QED
      BY <1>1, <1>2, <2>1, ProbedAreMine
  <1>4. PICK i \in Mine(c), outcome \in {"fine", "refused", "nothing", "unreachable"} :
           Listing(c, i, outcome) /\ verdict' = verdict \union {<<c, Valid(c, outcome)>>}
    BY <1>3 DEF Probe
  <1>5. v[2] = Valid(c, outcome)
    BY <1>4
  <1>6. Registry[i] \notin Ported
    BY <1>1, <1>2, <1>3, <1>4
  <1>7. ASSUME \A j \in Mine(c) : c.token \in input.accepts[j] PROVE Valid(c, outcome)
    <2>1. outcome # "refused"
      BY <1>3, <1>4, <1>6, <1>7 DEF Listing
    <2>2. Reply(i, Presented(c, i)) # "auth_failure"
      BY <1>3, <1>4, <1>7 DEF Reply
    <2> QED
      BY <1>3, <1>4, <2>1, <2>2 DEF Valid
  <1>8. ASSUME faults' = 0, \A j \in Mine(c) : c.token \notin input.accepts[j]
        PROVE  ~Valid(c, outcome)
    <2>1. ~Fault
      BY <1>8 DEF Fault, TypeOK, InputInv
    <2> QED
      BY <1>3, <1>4, <1>6, <1>8, <2>1 DEF Listing, Valid
  <1> QED
    BY <1>1, <1>2, <1>5, <1>7, <1>8

\* The verdicts there were stay right: failing calls are only counted on.
LEMMA VerdictsStayRight ==
    ASSUME CredentialsInv, [Next]_vars, NEW v \in verdict, Right(v), v \in verdict'
    PROVE  Right(v)'
  <1> USE DEF CredentialsInv
  <1>1. input' = input
    BY DEF Next, ReadSecret, PlanInspections, Ask, Report, Probe, NextCycle, vars
  <1>2. faults' = 0 => faults = 0
    <2>1. ~NextCycle
      BY DEF NextCycle
    <2>2. Fault \/ NoFault
      BY <2>1 DEF Next, ReadSecret, PlanInspections, Ask, Report, Probe, Listing, vars, NoFault
    <2> QED
      BY <2>2, FaultCounted
  <1>3. Mine(v[1])' = Mine(v[1]) /\ Ported' = Ported
    BY <1>1 DEF Mine, pods, Named, TestImage, Ported
  <1> QED
    BY <1>1, <1>2, <1>3 DEF Right

\* _check_credential_validity: a credential is judged by its own access, whatever
\* images there are and whatever calls fail.
THEOREM VerdictsAreRight == Spec => []ValidityIsMeasured
  <1> DEFINE AllRight == \A v \in verdict : Right(v)
  <1>1. Init => AllRight
    BY DEF Init
  <1>2. CredentialsInv /\ AllRight /\ [Next]_vars => AllRight'
    <2> SUFFICES ASSUME CredentialsInv, AllRight, [Next]_vars, NEW v \in verdict'
                 PROVE  Right(v)'
      BY DEF AllRight
    <2>1. CASE v \in verdict
      BY <2>1, VerdictsStayRight
    <2>2. CASE v \notin verdict
      <3>1. PICK c \in toProbe : Probe(c)
        BY <2>2 DEF Next, ReadSecret, PlanInspections, Ask, Report, NextCycle, vars
      <3> QED
        BY <2>2, <3>1, ProbeIsRight
    <2> QED
      BY <2>1, <2>2
  <1>3. AllRight => ValidityIsMeasured
    BY DEF Right, Mine, ValidityIsMeasured
  <1> QED
    BY <1>1, <1>2, <1>3, CredentialsInvariance, PTL DEF Spec

---------------------------------------------------------------------------
(* The answers                                                             *)

\* Whom inspection k asks as.
CallersOf(k) == IF k.asks = <<>> THEN {Anonymous} ELSE {k.asks[j][2] : j \in DOMAIN k.asks}

Served(k) == CallersOf(k) \intersect input.accepts[k.image] # {}

\* Answer r says of inspection k what the registry does: none is a network error
\* before a call failed.
Honest(k, r) ==
    /\ r \in Replies
    /\ r = "auth_failure" => ~Served(k)
    /\ r \in {"available", "not_found"} => Served(k) /\ (r = "available" <=> k.image \in input.exists)
    /\ faults = 0 => r # "network"

\* What was read is known unless a read failed.
KnownInv ==
    /\ pc # "read" => toRead = {}
    /\ faults = 0 => \A w \in Wanted \ toRead : Decoded(w[1], w[2]) \subseteq creds

\* The candidates passed over were refused.
RefusedInv ==
    /\ now = None => refused = 0
    /\ now # None => \A j \in 1 .. refused : now.asks[j][2] \notin input.accepts[now.image]

\* Answers are honest, and the pods are reported with those of their inspections.
HonestInv ==
    /\ \A w \in answer : Honest(w[1], w[2])
    /\ pc # "probe" => \A p \in Pods : report[p] = "nothing"
    /\ pc = "probe" => \A p \in Pods : Honest(InspectionOf(p), report[p])

AnswersInv == KnownInv /\ RefusedInv /\ HonestInv

\* The secrets used for an image of n are those its pods reference.
LEMMA UsedAreShared ==
    ASSUME InputInv, NEW n, NEW i, NEW s
    PROVE  Uses(n, i, s) # {} <=> s \in SharedSecrets(n, i)
  <1>1. ASSUME NEW u \in Uses(n, i, s) PROVE s \in SharedSecrets(n, i)
    <2>1. PICK j \in DOMAIN PodOrder : u \in {j} \X DOMAIN pods[PodOrder[j]].refs
      BY <1>1 DEF Uses
    <2>2. u[1] = j /\ u[2] \in DOMAIN pods[PodOrder[j]].refs
      BY <2>1
    <2>3. /\ Home[PodOrder[j]] = n /\ pods[PodOrder[j]].image = i
          /\ pods[PodOrder[j]].refs[u[2]] = s
      BY <2>2 DEF Uses
    <2>4. PodOrder[j] \in Pods /\ s \in ToSet(pods[PodOrder[j]].refs)
      BY <2>2, <2>3 DEF Pods, ToSet
    <2> QED
      BY <2>3, <2>4 DEF SharedSecrets
  <1>2. ASSUME s \in SharedSecrets(n, i) PROVE Uses(n, i, s) # {}
    <2>1. PICK p \in Pods : Home[p] = n /\ pods[p].image = i /\ s \in ToSet(pods[p].refs)
      BY <1>2 DEF SharedSecrets
    <2>2. PICK j \in DOMAIN PodOrder : p = PodOrder[j]
      BY DEF Pods, ToSet
    <2>3. PICK m \in DOMAIN pods[p].refs : pods[p].refs[m] = s
      BY <2>1 DEF ToSet
    <2>4. <<j, m>> \in Uses(n, i, s)
      BY <2>1, <2>2, <2>3 DEF Uses
    <2> QED
      BY <2>4
  <1> QED
    BY <1>1, <1>2

\* The credentials for an image are finitely many.
LEMMA UsableIsFinite ==
    ASSUME TypeOK, InputInv, NEW n, NEW i
    PROVE  IsFiniteSet(Usable(n, i))
  <1> DEFINE cred == [x \in Names \X Keys |->
                         [namespace |-> n, secret |-> x[1], key |-> x[2], token |-> vault[n][x[1]][x[2]]]]
             All == {cred[x] : x \in Names \X Keys}
  <1>1. IsFiniteSet(Names \X Keys)
    BY FS_Product, CredentialsAssumption
  <1>2. cred \in Surjection(Names \X Keys, All)
    BY DEF Surjection
  <1>3. IsFiniteSet(All)
    <2> HIDE DEF All, cred
    <2> QED
      BY <1>1, <1>2, FS_Surjection
  <1>4. Usable(n, i) \subseteq All
    <2> SUFFICES ASSUME NEW c \in Usable(n, i) PROVE c \in All
      OBVIOUS
    <2>1. c \in creds /\ c.namespace = n /\ c.secret \in Names
      BY DEF Usable, FromSecret
    <2>2. /\ c.key \in Keys
          /\ c = [namespace |-> n, secret |-> c.secret, key |-> c.key, token |-> vault[n][c.secret][c.key]]
      BY <2>1, CredentialIs
    <2>3. <<c.secret, c.key>> \in Names \X Keys /\ c = cred[<<c.secret, c.key>>]
      BY <2>1, <2>2
    <2> QED
      BY <2>3
  <1> QED
    BY <1>3, <1>4, FS_Subset

\* The order of first use is total and transitive.
LEMMA UseIsAnOrder ==
    ASSUME InputInv, NEW n, NEW i
    PROVE  LET S == Usable(n, i) R == NoLater(n, i)
           IN  /\ \A c, d \in S : <<c, d>> \in R \/ <<d, c>> \in R
               /\ \A c, d, e \in S : <<c, d>> \in R /\ <<d, e>> \in R => <<c, e>> \in R
  <1> DEFINE Before(u, v) == u[1] < v[1] \/ (u[1] = v[1] /\ u[2] <= v[2])
  <1>1. \A s : \A u \in Uses(n, i, s) : u[1] \in Nat /\ u[2] \in Nat
    <2> SUFFICES ASSUME NEW s, NEW u \in Uses(n, i, s) PROVE u[1] \in Nat /\ u[2] \in Nat
      OBVIOUS
    <2>1. PICK j \in DOMAIN PodOrder : u \in {j} \X DOMAIN pods[PodOrder[j]].refs
      BY DEF Uses
    <2>2. PodOrder[j] \in Pods /\ j \in Nat
      BY CredentialsAssumption DEF Pods, ToSet
    <2>3. pods[PodOrder[j]].refs \in Seq(Names)
      BY <2>2 DEF InputInv
    <2> QED
      BY <2>1, <2>2, <2>3
  <1>2. \A c, d \in Usable(n, i) : <<c, d>> \in NoLater(n, i) <=>
            \A v \in Uses(n, i, d.secret) : \E u \in Uses(n, i, c.secret) : Before(u, v)
    BY DEF NoLater
  <1>3. ASSUME NEW c \in Usable(n, i), NEW d \in Usable(n, i), <<c, d>> \notin NoLater(n, i)
        PROVE  <<d, c>> \in NoLater(n, i)
    <2>1. PICK v \in Uses(n, i, d.secret) : \A u \in Uses(n, i, c.secret) : ~Before(u, v)
      BY <1>2, <1>3
    <2>2. \A u \in Uses(n, i, c.secret) : Before(v, u)
      BY <1>1, <2>1
    <2> QED
      BY <1>2, <2>2
  <1>4. ASSUME NEW c \in Usable(n, i), NEW d \in Usable(n, i), NEW e \in Usable(n, i),
               <<c, d>> \in NoLater(n, i), <<d, e>> \in NoLater(n, i),
               NEW w \in Uses(n, i, e.secret)
        PROVE  \E u \in Uses(n, i, c.secret) : Before(u, w)
    <2>1. PICK v \in Uses(n, i, d.secret) : Before(v, w)
      BY <1>2, <1>4
    <2>2. PICK u \in Uses(n, i, c.secret) : Before(u, v)
      BY <1>2, <1>4
    <2> QED
      BY <1>1, <2>1, <2>2
  <1>5. \A c, d \in Usable(n, i) : <<c, d>> \in NoLater(n, i) \/ <<d, c>> \in NoLater(n, i)
    BY <1>3
  <1>6. \A c, d, e \in Usable(n, i) :
           <<c, d>> \in NoLater(n, i) /\ <<d, e>> \in NoLater(n, i) => <<c, e>> \in NoLater(n, i)
    BY <1>2, <1>4
  <1> QED
    BY <1>5, <1>6

\* build_image_credentials lists every credential there is for the image.
LEMMA CandidatesAreUsable ==
    ASSUME TypeOK, InputInv, NEW n, NEW i
    PROVE  Candidates(n, i) \in Bijection(1 .. Cardinality(Usable(n, i)), Usable(n, i))
  <1> DEFINE S == Usable(n, i)
             R == NoLater(n, i)
  <1>1. \E f \in Bijection(1 .. Cardinality(S), S) :
           \A j, k \in DOMAIN f : j < k => <<f[j], f[k]>> \in R
    <2>1. IsFiniteSet(S)
      BY UsableIsFinite
    <2>2. /\ \A c, d \in S : <<c, d>> \in R \/ <<d, c>> \in R
          /\ \A c, d, e \in S : <<c, d>> \in R /\ <<d, e>> \in R => <<c, e>> \in R
      BY UseIsAnOrder
    <2> HIDE DEF S, R
    <2> QED
      BY <2>1, <2>2, OrderedListing
  <1> HIDE DEF S, R
  <1>2. InOrder(S, R) \in Bijection(1 .. Cardinality(S), S)
    BY <1>1 DEF InOrder
  <1> QED
    BY <1>2 DEF Candidates, S, R

\* An inspection asks as the holders of the credentials for the image, or as nobody.
LEMMA CallersAre ==
    ASSUME CredentialsInv, NEW p \in Pods
    PROVE  LET k == InspectionOf(p)
               i == pods[p].image
           IN  /\ k \in Inspections /\ k.image = i
               /\ CallersOf(k) = AsCaller({c.token : c \in Usable(Home[p], i)})
  <1> DEFINE i == pods[p].image
             S == Usable(Home[p], i)
             f == Candidates(Home[p], i)
             asks == [j \in DOMAIN f |-> <<f[j].key, f[j].token>>]
  <1>1. InspectionOf(p) = [image |-> i, asks |-> asks]
    BY DEF InspectionOf, Inspection
  <1>2. Cardinality(S) \in Nat /\ (Cardinality(S) = 0 <=> S = {})
    BY UsableIsFinite, FS_CardinalityType, FS_EmptySet DEF CredentialsInv
  <1>3. /\ f \in [1 .. Cardinality(S) -> S]
        /\ \A c \in S : \E j \in 1 .. Cardinality(S) : f[j] = c
    BY CandidatesAreUsable DEF CredentialsInv, Bijection, Injection, Surjection
  <1>4. \A c \in S : c.key \in Keys /\ c.token \in Tokens
    <2> SUFFICES ASSUME NEW c \in S PROVE c.key \in Keys /\ c.token \in Tokens
      OBVIOUS
    <2>1. c \in creds /\ c.secret \in Names /\ c.namespace \in Namespaces
      BY CredentialsAssumption DEF Usable, FromSecret
    <2> QED
      BY <2>1, CredentialIs DEF CredentialsInv, InputInv
  <1> HIDE DEF S, f
  <1>5. asks \in [1 .. Cardinality(S) -> Keys \X Tokens]
    BY <1>3, <1>4
  <1>6. asks \in Seq(Keys \X Tokens) /\ Len(asks) = Cardinality(S)
    <2> HIDE DEF asks
    <2> QED
      BY <1>2, <1>5
  <1>7. asks = <<>> <=> S = {}
    <2> HIDE DEF asks
    <2> QED
      BY <1>2, <1>6
  <1>8. {asks[j][2] : j \in DOMAIN asks} = {c.token : c \in S}
    BY <1>2, <1>3
  <1>9. CallersOf([image |-> i, asks |-> asks]) = AsCaller({c.token : c \in S})
    <2> HIDE DEF asks
    <2>1. CASE S = {}
      BY <1>7, <2>1 DEF CallersOf, AsCaller
    <2>2. CASE S # {}
      BY <1>7, <1>8, <2>2 DEF CallersOf, AsCaller
    <2> QED
      BY <2>1, <2>2
  <1> QED
    BY <1>1, <1>6, <1>9 DEF S, Inspections, CredentialsInv, InputInv

\* Their tokens are those the namespace's own pull secrets hold for the registry:
\* no others, and all of them if every secret was read.
LEMMA TokensAre ==
    ASSUME CredentialsInv, KnownInv, NEW n, NEW i
    PROVE  LET tokens == {c.token : c \in Usable(n, i)}
               own == TokensOf(n, SharedSecrets(n, i), i)
           IN  /\ tokens \subseteq own
               /\ pc # "read" /\ faults = 0 => own \subseteq tokens
  <1> USE DEF CredentialsInv
  <1>1. ASSUME NEW c \in Usable(n, i) PROVE c.token \in TokensOf(n, SharedSecrets(n, i), i)
    <2>1. PICK s \in Names : Uses(n, i, s) # {} /\ c \in FromSecret(n, s, i)
      BY <1>1 DEF Usable
    <2>2. c \in creds /\ c.namespace = n /\ c.secret = s /\ Host[c.key] = Registry[i]
      BY <2>1 DEF FromSecret
    <2>3. c.key \in Keys /\ c.token # None /\ c.token = vault[n][s][c.key]
      BY <2>2, CredentialIs
    <2>4. s \in SharedSecrets(n, i)
      BY <2>1, UsedAreShared
    <2> QED
      BY <2>2, <2>3, <2>4 DEF TokensOf
  <1>2. ASSUME pc # "read", faults = 0, NEW t \in TokensOf(n, SharedSecrets(n, i), i)
        PROVE  \E c \in Usable(n, i) : c.token = t
    <2>1. PICK s \in SharedSecrets(n, i), k \in Keys :
             Host[k] = Registry[i] /\ t = vault[n][s][k] /\ t # None
      BY DEF TokensOf
    <2>2. PICK p \in Pods : Home[p] = n /\ s \in ToSet(pods[p].refs)
      BY <2>1 DEF SharedSecrets
    <2>3. <<n, s>> \in Wanted
      BY <2>2 DEF Wanted
    <2>4. s \in Names
      BY <2>2 DEF InputInv, ToSet
    <2> DEFINE c == [namespace |-> n, secret |-> s, key |-> k, token |-> vault[n][s][k]]
    <2>5. c \in creds
      BY <1>2, <2>1, <2>3 DEF KnownInv, Decoded
    <2>6. c \in FromSecret(n, s, i) /\ Uses(n, i, s) # {}
      BY <2>1, <2>5, UsedAreShared DEF FromSecret
    <2> QED
      BY <2>1, <2>4, <2>6 DEF Usable
  <1> QED
    BY <1>1, <1>2

\* An honest answer stays one: the registry does not change.
LEMMA StaysHonest ==
    ASSUME NEW k, NEW r, Honest(k, r), UNCHANGED input, faults' = 0 => faults = 0
    PROVE  Honest(k, r)'
  BY DEF Honest, Served

\* Reading a secret leaves it known, or counts a failing call.
LEMMA ReadKnows ==
    ASSUME CredentialsInv, AnswersInv, NEW n \in Namespaces, NEW s \in Names, ReadSecret(n, s)
    PROVE  AnswersInv'
  <1> USE DEF CredentialsInv, AnswersInv
  <1>1. Wanted' = Wanted /\ (\A m, t : Decoded(m, t)' = Decoded(m, t))
    BY DEF ReadSecret, Wanted, Decoded, pods, vault
  <1>2. faults' = 0 => faults = 0 /\ creds' = creds \union Decoded(n, s)
    <2>1. Fault \/ (NoFault /\ creds' = creds \union Decoded(n, s))
      BY DEF ReadSecret
    <2>2. faults' = 0 => faults = 0 /\ ~Fault
      BY <2>1, FaultCounted DEF Fault, NoFault, TypeOK, InputInv
    <2> QED
      BY <2>1, <2>2
  <1>3. KnownInv'
    BY <1>1, <1>2 DEF ReadSecret, KnownInv
  <1>4. HonestInv'
    <2>1. \A w \in answer' : Honest(w[1], w[2])'
      BY <1>2, StaysHonest DEF ReadSecret, HonestInv
    <2> QED
      BY <2>1 DEF ReadSecret, HonestInv
  <1> QED
    BY <1>3, <1>4 DEF ReadSecret, RefusedInv

\* _inspect_with_candidates: an answer is what the registry says to one of the
\* candidates, and a refusal what it says to all of them.
LEMMA AskIsHonest ==
    ASSUME CredentialsInv, AnswersInv, NEW k \in todo, Ask(k)
    PROVE  AnswersInv'
  <1> USE DEF CredentialsInv, AnswersInv
  <1> DEFINE caller == IF k.asks = <<>> THEN Anonymous ELSE k.asks[refused + 1][2]
  <1>1. PICK p \in Pods : k = InspectionOf(p)
    BY DEF TypeOK
  <1>2. k # None /\ k.asks \in Seq(Keys \X Tokens)
    BY <1>1, CallersAre, CredentialsAssumption DEF Inspections
  <1>3. /\ refused \in Nat /\ (k.asks # <<>> => refused + 1 \in DOMAIN k.asks)
        /\ \A j \in 1 .. refused : k.asks[j][2] \notin input.accepts[k.image]
    <2>1. CASE now = None
      BY <1>2, <2>1 DEF TypeOK, RefusedInv
    <2>2. CASE now # None
      BY <1>2, <2>2 DEF TypeOK, RefusedInv, Ask
    <2> QED
      BY <2>1, <2>2
  <1>4. caller \in CallersOf(k)
    BY <1>3 DEF CallersOf
  <1>5. PICK reply \in {Reply(k.image, caller), "network"} :
          /\ IF reply = "network" THEN Fault ELSE NoFault
          /\ IF reply = "auth_failure" /\ refused + 1 < Len(k.asks)
                THEN now' = k /\ refused' = refused + 1 /\ UNCHANGED <<todo, answer>>
                ELSE /\ answer' = answer \union {<<k, reply>>}
                     /\ todo' = todo \ {k} /\ now' = None /\ refused' = 0
    BY DEF Ask
  <1>6. reply = "auth_failure" => caller \notin input.accepts[k.image]
    BY <1>5 DEF Reply
  <1>7. faults' = 0 => faults = 0 /\ reply # "network"
    BY <1>5, FaultCounted DEF Fault, TypeOK, InputInv
  <1>8. \A w \in answer : Honest(w[1], w[2])'
    BY <1>7, StaysHonest DEF Ask, HonestInv
  <1>9. /\ Wanted' = Wanted /\ (\A m, t : Decoded(m, t)' = Decoded(m, t))
        /\ \A q : InspectionOf(q)' = InspectionOf(q)
    BY SameInspections DEF Ask
  <1>10. KnownInv'
    BY <1>7, <1>9 DEF Ask, KnownInv
  <1>11. CASE reply = "auth_failure" /\ refused + 1 < Len(k.asks)
    <2>1. now' = k /\ refused' = refused + 1 /\ answer' = answer
      BY <1>5, <1>11
    <2>2. k.asks # <<>>
      BY <1>3, <1>11
    <2>3. \A j \in 1 .. refused + 1 : k.asks[j][2] \notin input.accepts[k.image]
      BY <1>3, <1>6, <1>11, <2>2
    <2>4. RefusedInv'
      BY <1>2, <2>1, <2>3 DEF Ask, RefusedInv
    <2>5. HonestInv'
      BY <1>8, <2>1 DEF Ask, HonestInv
    <2> QED
      BY <1>10, <2>4, <2>5
  <1>12. CASE ~(reply = "auth_failure" /\ refused + 1 < Len(k.asks))
    <2>1. answer' = answer \union {<<k, reply>>} /\ now' = None /\ refused' = 0
      BY <1>5, <1>12
    <2>2. reply = "auth_failure" => ~Served(k)
      <3> SUFFICES ASSUME reply = "auth_failure", NEW t \in CallersOf(k)
                   PROVE  t \notin input.accepts[k.image]
        BY DEF Served
      <3>1. CASE k.asks = <<>>
        BY <1>6, <3>1 DEF CallersOf
      <3>2. CASE k.asks # <<>>
        <4>1. PICK j \in DOMAIN k.asks : t = k.asks[j][2]
          BY <3>2 DEF CallersOf
        <4>2. j \in 1 .. refused \/ j = refused + 1
          BY <1>2, <1>3, <1>12, <4>1
        <4> QED
          BY <1>3, <1>6, <3>2, <4>1, <4>2
      <3> QED
        BY <3>1, <3>2
    <2>3. reply \in {"available", "not_found"} =>
             Served(k) /\ (reply = "available" <=> k.image \in input.exists)
      BY <1>4, <1>5 DEF Reply, Served
    <2>4. reply \in Replies
      BY <1>5 DEF Reply, Replies
    <2>5. Honest(k, reply)'
      BY <1>7, <2>2, <2>3, <2>4 DEF Ask, Honest, Served
    <2>6. \A w \in answer' : Honest(w[1], w[2])'
      BY <1>8, <2>1, <2>5
    <2>7. HonestInv'
      BY <2>6 DEF Ask, HonestInv
    <2>8. RefusedInv'
      BY <2>1 DEF RefusedInv, TypeOK
    <2> QED
      BY <1>10, <2>7, <2>8
  <1> QED
    BY <1>11, <1>12

\* check_availability: every pod is reported with an honest answer.
LEMMA ReportIsHonest ==
    ASSUME CredentialsInv, AnswersInv, Report
    PROVE  AnswersInv'
  <1> USE DEF CredentialsInv, AnswersInv
  <1>1. /\ Wanted' = Wanted /\ (\A m, t : Decoded(m, t)' = Decoded(m, t))
        /\ \A q : InspectionOf(q)' = InspectionOf(q)
    BY SameInspections DEF Report
  <1>2. ASSUME NEW p \in Pods PROVE Honest(InspectionOf(p), report'[p])
    <2>1. \E r \in Replies : <<InspectionOf(p), r>> \in answer
      BY DEF Report, AnsweredInv
    <2>2. <<InspectionOf(p), report'[p]>> \in answer
      BY <2>1 DEF Report, Replies
    <2> QED
      BY <2>2 DEF HonestInv
  <1>3. \A p \in Pods : Honest(InspectionOf(p), report[p])'
    BY <1>1, <1>2 DEF Report, Honest, Served
  <1>4. HonestInv'
    BY <1>3 DEF Report, HonestInv, Honest, Served
  <1> QED
    BY <1>1, <1>4 DEF Report, KnownInv, RefusedInv

\* Every step keeps the answers honest.
LEMMA StepIsHonest == CredentialsInv /\ AnswersInv /\ [Next]_vars => AnswersInv'
  <1> SUFFICES ASSUME CredentialsInv, AnswersInv, Step \/ UNCHANGED vars PROVE AnswersInv'
    BY NextIsStep
  <1> USE DEF CredentialsInv, AnswersInv
  <1>1. ASSUME UNCHANGED <<input, creds, toRead, now, refused, answer, report>>,
               pc' = pc \/ (pc = "read" /\ pc' = "inspect" /\ toRead = {}),
               faults' = 0 => faults = 0
        PROVE  AnswersInv'
    <2>1. /\ Wanted' = Wanted /\ (\A m, t : Decoded(m, t)' = Decoded(m, t))
          /\ \A q : InspectionOf(q)' = InspectionOf(q)
      BY <1>1, SameInspections
    <2>2. \A w \in answer : Honest(w[1], w[2])'
      BY <1>1, StaysHonest DEF HonestInv
    <2>3. pc = "probe" => \A p \in Pods : Honest(InspectionOf(p), report[p])'
      BY <1>1, <2>1 DEF HonestInv, Honest, Served
    <2>4. HonestInv'
      BY <1>1, <2>2, <2>3 DEF HonestInv
    <2>5. KnownInv' /\ RefusedInv'
      BY <1>1, <2>1 DEF KnownInv, RefusedInv
    <2> QED
      BY <2>4, <2>5
  <1>2. CASE UNCHANGED vars
    BY <1>1, <1>2 DEF vars
  <1>3. CASE PlanInspections
    BY <1>1, <1>3 DEF PlanInspections
  <1>4. ASSUME NEW c \in toProbe, Probe(c) PROVE AnswersInv'
    <2>1. Fault \/ NoFault
      BY <1>4 DEF Probe, Listing
    <2> QED
      BY <1>1, <1>4, <2>1, FaultCounted DEF Probe
  <1>5. CASE NextCycle
    <2>1. Wanted' = Wanted
      BY <1>5 DEF NextCycle, Wanted, pods
    <2>2. now = None
      BY <1>5 DEF NextCycle, AnsweredInv, TypeOK
    <2> QED
      BY <1>5, <2>1, <2>2 DEF NextCycle, KnownInv, RefusedInv, HonestInv
  <1> QED
    BY <1>2, <1>3, <1>4, <1>5, ReadKnows, AskIsHonest, ReportIsHonest DEF Step

\* The answers are honest throughout.
THEOREM AnswersAreHonest == Spec => [](CredentialsInv /\ AnswersInv)
  <1>1. Init => AnswersInv
    BY DEF Init, AnswersInv, KnownInv, RefusedInv, HonestInv
  <1> QED
    BY <1>1, StepIsHonest, CredentialsInvariance, PTL DEF Spec

\* check_availability over plan_inspections: in a cycle without failing calls a pod
\* is reported as if its image had been asked for with every pull secret of its own
\* namespace's pods with the image and with no other, whoever shares the inspection.
THEOREM SharingIsExact == Spec => []ReportsAreExact
  <1>1. CredentialsInv /\ AnswersInv => ReportsAreExact
    <2> SUFFICES ASSUME CredentialsInv, AnswersInv, pc = "probe", faults = 0, NEW p \in Pods
                 PROVE  LET i == pods[p].image
                            callers == AsCaller(TokensOf(Home[p], SharedSecrets(Home[p], i), i))
                        IN  report[p] =
                              IF callers \intersect input.accepts[i] = {} THEN "auth_failure"
                              ELSE IF i \in input.exists THEN "available"
                              ELSE "not_found"
      BY DEF ReportsAreExact
    <2> DEFINE i == pods[p].image
               own == TokensOf(Home[p], SharedSecrets(Home[p], i), i)
    <2>1. own = {c.token : c \in Usable(Home[p], i)}
      BY TokensAre DEF AnswersInv
    <2>2. InspectionOf(p).image = i /\ CallersOf(InspectionOf(p)) = AsCaller(own)
      BY <2>1, CallersAre
    <2>3. Honest(InspectionOf(p), report[p])
      BY DEF AnswersInv, HonestInv
    <2> HIDE DEF own
    <2> QED
      BY <2>2, <2>3 DEF Honest, Served, Replies, own
  <1> QED
    BY <1>1, AnswersAreHonest, PTL

\* Whatever calls fail, an image reported missing is missing and one reported
\* available is there, served to a credential of the namespace or to anyone.
THEOREM ClaimsAreTrue == Spec => []NoFalseClaims
  <1>1. CredentialsInv /\ AnswersInv => NoFalseClaims
    <2> SUFFICES ASSUME CredentialsInv, AnswersInv, NEW p \in Pods
                 PROVE  LET i == pods[p].image
                            callers == TokensOf(Home[p], SharedSecrets(Home[p], i), i)
                                          \union {Anonymous}
                        IN  /\ report[p] = "not_found" => i \notin input.exists
                            /\ report[p] = "available" =>
                                  i \in input.exists /\ callers \intersect input.accepts[i] # {}
      BY DEF NoFalseClaims
    <2> DEFINE i == pods[p].image
               own == TokensOf(Home[p], SharedSecrets(Home[p], i), i)
    <2>1. CASE pc # "probe"
      BY <2>1 DEF AnswersInv, HonestInv
    <2>2. CASE pc = "probe"
      <3>1. {c.token : c \in Usable(Home[p], i)} \subseteq own
        BY TokensAre DEF AnswersInv
      <3>2. CallersOf(InspectionOf(p)) \subseteq own \union {Anonymous}
        BY <3>1, CallersAre DEF AsCaller
      <3>3. InspectionOf(p).image = i
        BY CallersAre
      <3>4. Honest(InspectionOf(p), report[p])
        BY <2>2 DEF AnswersInv, HonestInv
      <3> HIDE DEF own
      <3> QED
        BY <3>2, <3>3, <3>4 DEF Honest, Served, own
    <2> QED
      BY <2>1, <2>2
  <1> QED
    BY <1>1, AnswersAreHonest, PTL
=============================================================================
