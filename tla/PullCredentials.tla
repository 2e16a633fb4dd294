-------------------------- MODULE PullCredentials --------------------------
(***************************************************************************)
(* Whose credentials answer for which image: within one cycle the checker  *)
(* reads the pull secrets the pods reference, derives an ordered list of   *)
(* candidates for every image of every namespace, inspects each distinct   *)
(* (image, candidates) pair once, shares the answer, and then probes each  *)
(* credential itself.                                                      *)
(*                                                                         *)
(* A pod has one image here.  The registries' answers are a table that the *)
(* cycle does not change; calls to them and to the API server may fail.    *)
(***************************************************************************)
EXTENDS Naturals, Sequences, FiniteSets, SequencesExt

CONSTANTS
    Namespaces, Images, Names, Tokens, Keys, Registries,
    Spellings,      \* the ways to write the host of a registry
    At,             \* At[h]: the registry that h is a spelling of
    Implicit,       \* what an image of Docker Hub without a host counts as spelled
    Scheme,         \* "https:", or "http:"
    PodOrder,       \* the pods, in the order of the list
    Home,           \* Home[p]: the namespace of p
    Host,           \* Host[k]: the registry that key k of a secret's auths is for
    Part,           \* Part[k]: k up to its first slash, Scheme if k is a URL
    Hub,            \* Docker Hub
    Anonymous,      \* asking without a token
    None,
    Worlds          \* what the cycle may meet, see CredentialsAssumption

Pods == ToSet(PodOrder)
Callers == Tokens \union {Anonymous}

\* An image and the keys and tokens to ask for it with, in order.
Inspections == [image : Images, asks : Seq(Keys \X Tokens)]

ASSUME CredentialsAssumption ==
    /\ IsFiniteSet(Names) /\ IsFiniteSet(Keys)
    /\ PodOrder \in Seq(Pods) /\ Home \in [Pods -> Namespaces]
    /\ Hub \in Registries /\ Host \in [Keys -> Registries]
    /\ At \in [Spellings -> Registries] /\ Part \in [Keys -> Spellings \union {Scheme}]
    /\ {Scheme, Implicit} \intersect Spellings = {} /\ Scheme # Implicit
    /\ \A k \in Keys : Part[k] # Scheme => Host[k] = At[Part[k]]
    /\ Anonymous \notin Tokens /\ None \notin Callers \union Inspections
    /\ \A w \in Worlds :
          \* an image and pull secrets for each pod; what each secret holds
          /\ \A u \in w.pods, p \in Pods : u[p].image \in Images /\ u[p].refs \in Seq(Names)
          /\ \A v \in w.vaults, n \in Namespaces, s \in Names :
                v[n][s] \in [Keys -> Tokens \union {None}]
          \* whom the registries serve each image, what they have; how the images
          \* spell their registries, and which of these have a port
          /\ \A r \in w.accepts : r \in [Images -> SUBSET Callers]
          /\ w.exists \subseteq SUBSET Images
          /\ w.named \in [Images -> Spellings \union {Implicit}] /\ w.ported \subseteq Registries
          \* CREDENTIAL_TEST_IMAGE; a bound on the failing calls of a cycle
          /\ w.test \in Images \union {None} /\ w.budget \in Nat

VARIABLES
    input,      \* what the cycle meets
    pc,
    toRead,     \* (namespace, secret) pairs still to be read
    creds,      \* the resolved credentials
    todo,       \* inspections still to be made
    now,        \* the inspection under way, or None
    refused,    \* how many of its candidates were refused
    answer,     \* the inspections made: pairs of inspection and answer
    report,     \* report[p]: what is published for p
    toProbe,    \* credentials still to be probed
    verdict,    \* the credentials probed: pairs of credential and validity
    faults

vars == <<input, pc, toRead, creds, todo, now, refused, answer, report, toProbe, verdict, faults>>

pods == input.pods
vault == input.vault
Named == input.named
Ported == input.ported
TestImage == input.test

\* _normalize_registry_host: the registry of each image, however it is spelled.
Registry == [i \in Images |-> IF Named[i] = Implicit THEN Hub ELSE At[Named[i]]]

NoFault == UNCHANGED faults
Fault == faults < input.budget /\ faults' = faults + 1

\* The secrets the pods reference, each in the pod's own namespace.
Wanted == UNION {{<<Home[p], s>> : s \in ToSet(pods[p].refs)} : p \in Pods}

\* What a readable secret yields, one credential per registry it names.
Decoded(n, s) ==
    {[namespace |-> n, secret |-> s, key |-> k, token |-> vault[n][s][k]] :
        k \in {k \in Keys : vault[n][s][k] # None}}

---------------------------------------------------------------------------
(* Candidates                                                              *)

\* Where the pods of n with image i name secret s: the pod and the place in its list.
Uses(n, i, s) ==
    {u \in UNION {{j} \X DOMAIN pods[PodOrder[j]].refs : j \in DOMAIN PodOrder} :
        LET p == PodOrder[u[1]]
        IN  Home[p] = n /\ pods[p].image = i /\ pods[p].refs[u[2]] = s}

\* A variant: secrets are told apart by their names only.
FromAnywhere(n, s, i) ==
    {c \in creds : c.secret = s /\ Host[c.key] = Registry[i]}

\* The credentials of secret s in n for the registry of image i.
FromSecret(n, s, i) ==
    {c \in creds : c.namespace = n /\ c.secret = s /\ Host[c.key] = Registry[i]}

\* The credentials an image of n is asked for with.
Usable(n, i) == UNION {FromSecret(n, s, i) : s \in {s \in Names : Uses(n, i, s) # {}}}

\* The pairs of them whose first has a secret that comes up no later than the second's.
NoLater(n, i) ==
    {w \in Usable(n, i) \X Usable(n, i) :
        \A v \in Uses(n, i, w[2].secret) : \E u \in Uses(n, i, w[1].secret) :
            u[1] < v[1] \/ (u[1] = v[1] /\ u[2] <= v[2])}

\* The members of S, each once, in the order of the relation R.
InOrder(S, R) ==
    CHOOSE f \in Bijection(1 .. Cardinality(S), S) :
        \A j, m \in DOMAIN f : j < m => <<f[j], f[m]>> \in R

\* build_image_credentials: in the order in which the secrets come up.
Candidates(n, i) == InOrder(Usable(n, i), NoLater(n, i))

\* A variant: inspections are told apart by the image only.
ByImage(n, i) ==
    LET m == CHOOSE m \in Namespaces : \E p \in Pods : Home[p] = m /\ pods[p].image = i
    IN  [image |-> i, asks |-> [j \in DOMAIN Candidates(m, i) |->
                                   <<Candidates(m, i)[j].key, Candidates(m, i)[j].token>>]]

\* _dedupe_key: the image and what its candidates are, not where they are from.
Inspection(n, i) ==
    LET candidates == Candidates(n, i)
    IN  [image |-> i, asks |-> [j \in DOMAIN candidates |->
                                   <<candidates[j].key, candidates[j].token>>]]

InspectionOf(p) == Inspection(Home[p], pods[p].image)

---------------------------------------------------------------------------
(* The cycle                                                               *)

\* What the registry answers about image i to one who presents token t.
Reply(i, t) ==
    IF t \notin input.accepts[i] THEN "auth_failure"
    ELSE IF i \in input.exists THEN "available"
    ELSE "not_found"

\* resolve_all_credentials: a secret that cannot be read is passed over.
ReadSecret(n, s) ==
    /\ pc = "read" /\ <<n, s>> \in toRead
    /\ toRead' = toRead \ {<<n, s>>}
    /\ \/ creds' = creds \union Decoded(n, s) /\ NoFault
       \/ Fault /\ UNCHANGED creds
    /\ UNCHANGED <<input, pc, todo, now, refused, answer, report, toProbe, verdict>>

PlanInspections ==
    /\ pc = "read" /\ toRead = {}
    /\ pc' = "inspect" /\ todo' = {InspectionOf(p) : p \in Pods}
    /\ UNCHANGED <<input, toRead, creds, now, refused, answer, report, toProbe, verdict, faults>>

\* One inspection with one candidate, or with none if there are none.  Only an
\* auth failure moves on to the next; a call that fails answers "network".
Ask(k) ==
    /\ pc = "inspect" /\ k \in todo /\ now \in {None, k}
    /\ \E reply \in {Reply(k.image, IF k.asks = <<>> THEN Anonymous ELSE k.asks[refused + 1][2]),
                     "network"} :
          /\ IF reply = "network" THEN Fault ELSE NoFault
          /\ IF reply = "auth_failure" /\ refused + 1 < Len(k.asks)
                THEN now' = k /\ refused' = refused + 1 /\ UNCHANGED <<todo, answer>>
                ELSE /\ answer' = answer \union {<<k, reply>>}
                     /\ todo' = todo \ {k} /\ now' = None /\ refused' = 0
    /\ UNCHANGED <<input, pc, toRead, creds, report, toProbe, verdict>>

\* Every pod gets the answer of its inspection.
Report ==
    /\ pc = "inspect" /\ todo = {}
    /\ pc' = "probe" /\ toProbe' = creds
    /\ report' = [p \in Pods |-> CHOOSE r \in {"available", "not_found", "auth_failure", "network"} :
                                    <<InspectionOf(p), r>> \in answer]
    /\ UNCHANGED <<input, toRead, creds, todo, now, refused, answer, verdict, faults>>

---------------------------------------------------------------------------
(* _check_credential_validity                                              *)

\* A variant: images of any namespace whose pods reference a secret of the name.
ImagesAnywhere(c) ==
    {i \in Images : /\ \E p \in Pods : c.secret \in ToSet(pods[p].refs) /\ pods[p].image = i
                    /\ Named[i] = Part[c.key]}

\* The images to probe with: of pods of the namespace that reference the secret,
\* those that spell their registry as the key does up to its first slash.  No image
\* matches a key that is a URL, whatever its registry; one of Docker Hub without a
\* host matches no key.
ProbeImages(c) ==
    IF TestImage # None THEN {TestImage}
    ELSE {i \in Images :
            /\ \E p \in Pods : /\ Home[p] = c.namespace /\ c.secret \in ToSet(pods[p].refs)
                               /\ pods[p].image = i
            /\ Named[i] = Part[c.key]}

\* The token is filed under the key up to its first slash, and reaches the registry
\* if that is one of its spellings.
Presented(c, i) ==
    IF Part[c.key] # Scheme /\ Host[c.key] = Registry[i] THEN c.token ELSE Anonymous

\* list-tags of image i: refused, fine, or telling nothing; or the registry is not
\* to be reached by any call.  The part of the name before the first colon is asked
\* about: with a port that is another repository.
Listing(c, i, outcome) ==
    \/ /\ Registry[i] \notin Ported /\ NoFault
       /\ outcome = IF Presented(c, i) \in input.accepts[i] THEN "fine" ELSE "refused"
    \/ Registry[i] \in Ported /\ outcome \in {"refused", "nothing"} /\ NoFault
    \/ outcome \in {"nothing", "unreachable"} /\ Fault

\* A listing that tells nothing is decided by inspecting all the images; only an
\* auth failure of every one of them counts against the credential.
Valid(c, outcome) ==
    \/ outcome \in {"fine", "unreachable"}
    \/ /\ outcome = "nothing"
       /\ \E i \in ProbeImages(c) : Reply(i, Presented(c, i)) # "auth_failure"

\* A variant: a probed credential is probed again.
ProbedAgain(c) ==
    /\ pc = "probe" /\ c \in toProbe
    /\ verdict' = verdict \union {<<c, FALSE>>}
    /\ UNCHANGED <<input, pc, toRead, creds, todo, now, refused, answer, report, toProbe, faults>>

\* Without an image to probe with the credential is not probed, and invalid.
Probe(c) ==
    /\ pc = "probe" /\ c \in toProbe
    /\ toProbe' = toProbe \ {c}
    /\ \/ ProbeImages(c) = {} /\ verdict' = verdict \union {<<c, FALSE>>} /\ NoFault
       \/ \E i \in ProbeImages(c), outcome \in {"fine", "refused", "nothing", "unreachable"} :
             Listing(c, i, outcome) /\ verdict' = verdict \union {<<c, Valid(c, outcome)>>}
    /\ UNCHANGED <<input, pc, toRead, creds, todo, now, refused, answer, report>>

\* The next cycle begins.
NextCycle ==
    /\ pc = "probe" /\ toProbe = {}
    /\ pc' = "read" /\ toRead' = Wanted
    /\ creds' = {} /\ answer' = {} /\ verdict' = {}
    /\ report' = [p \in Pods |-> "nothing"]
    /\ faults' = 0
    /\ UNCHANGED <<input, todo, now, refused, toProbe>>

---------------------------------------------------------------------------
(* The specification                                                       *)

Init ==
    /\ \E w \in Worlds : \E u \in w.pods, v \in w.vaults, r \in w.accepts, e \in w.exists :
          input = [pods |-> u, vault |-> v, accepts |-> r, exists |-> e, named |-> w.named,
                   ported |-> w.ported, test |-> w.test, budget |-> w.budget]
    /\ pc = "read" /\ toRead = Wanted
    /\ creds = {} /\ todo = {} /\ now = None /\ refused = 0 /\ answer = {}
    /\ report = [p \in Pods |-> "nothing"]
    /\ toProbe = {} /\ verdict = {}
    /\ faults = 0

Next ==
    \/ \E n \in Namespaces, s \in Names : ReadSecret(n, s)
    \/ PlanInspections
    \/ \E k \in todo : Ask(k)
    \/ Report
    \/ \E c \in toProbe : Probe(c)
    \/ NextCycle

Spec == Init /\ [][Next]_vars

---------------------------------------------------------------------------
(* Properties                                                              *)

\* Every variable has its type, and credentials are those of referenced secrets.
TypeOK ==
    /\ pc \in {"read", "inspect", "probe"}
    /\ toRead \subseteq Wanted
    /\ creds \subseteq UNION {Decoded(w[1], w[2]) : w \in Wanted}
    /\ todo \subseteq {InspectionOf(p) : p \in Pods} /\ now \in todo \union {None}
    /\ refused \in Nat /\ (now # None => refused < Len(now.asks))
    /\ report \in [Pods -> {"nothing", "available", "not_found", "auth_failure", "network"}]
    /\ toProbe \subseteq creds
    /\ \A v \in verdict : v[1] \in creds \ toProbe /\ v[2] \in BOOLEAN
    /\ faults \in 0 .. input.budget

\* The tokens in the secrets S of namespace n for the registry of image i.
TokensOf(n, S, i) ==
    {vault[n][s][k] : s \in S, k \in {k \in Keys : Host[k] = Registry[i]}} \ {None}

\* Whom one who may use the tokens T would be for the registry.
AsCaller(T) == IF T = {} THEN {Anonymous} ELSE T

\* All the pull secrets that pods of n with image i reference.
SharedSecrets(n, i) ==
    UNION {ToSet(pods[p].refs) : p \in {p \in Pods : Home[p] = n /\ pods[p].image = i}}

\* Sharing answers is sound: in a cycle without failing calls every pod is
\* reported as if its image had been asked for with each pull secret of its own
\* namespace's pods with that image, and with no other credential.
ReportsAreExact ==
    pc = "probe" /\ faults = 0 =>
        \A p \in Pods :
            LET i == pods[p].image
                callers == AsCaller(TokensOf(Home[p], SharedSecrets(Home[p], i), i))
            IN  report[p] =
                  IF callers \intersect input.accepts[i] = {} THEN "auth_failure"
                  ELSE IF i \in input.exists THEN "available"
                  ELSE "not_found"

\* Failing calls never make a false claim about the registry's content: an image
\* reported missing is missing, one reported available is there and was served
\* to a credential of the pod's namespace or to anyone.
NoFalseClaims ==
    \A p \in Pods :
        LET i == pods[p].image
            callers == TokensOf(Home[p], SharedSecrets(Home[p], i), i) \union {Anonymous}
        IN  /\ report[p] = "not_found" => i \notin input.exists
            /\ report[p] = "available" =>
                  i \in input.exists /\ callers \intersect input.accepts[i] # {}

\* A credential is judged by its own access: where there is an image to probe with
\* that spells the registry as its key does, without a port, it is valid if all those
\* images are served to it, whatever call failed, and invalid if none is, if no call
\* failed.  Other credentials are not judged by their access: InvalidMeansRefused.
ValidityIsMeasured ==
    \A v \in verdict :
        LET c == v[1]
            own == {pods[p].image : p \in {p \in Pods : Home[p] = c.namespace /\
                                                        c.secret \in ToSet(pods[p].refs)}}
            probed == IF TestImage = None THEN own ELSE {TestImage}
            mine == {i \in probed : Named[i] = Part[c.key]}
        IN  mine # {} /\ Host[c.key] \notin Ported =>
              /\ (\A i \in mine : c.token \in input.accepts[i]) => v[2]
              /\ faults = 0 /\ (\A i \in mine : c.token \notin input.accepts[i]) => ~v[2]

\* "Only marks credentials invalid on authentication failures": where pods of its
\* namespace run images of its registry with it, an invalid credential is refused
\* by the registry for one of these images.
InvalidMeansRefused ==
    \A v \in verdict :
        LET c == v[1]
            own == {pods[p].image : p \in {p \in Pods : Home[p] = c.namespace /\
                                                        c.secret \in ToSet(pods[p].refs)}}
            mine == {i \in own : Registry[i] = Host[c.key]}
        IN  mine # {} /\ ~v[2] => \E i \in mine : c.token \notin input.accepts[i]
=============================================================================
