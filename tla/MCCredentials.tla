---------------------------- MODULE MCCredentials ----------------------------
(* Small instances of PullCredentials for TLC. *)
EXTENDS PullCredentials, TLC

CONSTANTS a, b, x, y, z, app, web, s, t, k, l, reg, hub,
          regHost, hubHost, regKey, regUrl, hubKey, hubUrl

TwoNamespaces == {a, b}
TwoImages == {app, web}
TwoNames == {s, t}
TwoTokens == {k, l}
FourKeys == {regKey, regUrl, hubKey, hubUrl}

\* Two pods in namespace a and one in b.
ThreePods == <<x, y, z>>
HomeOfThree == (x :> a) @@ (y :> a) @@ (z :> b)

\* A private registry and Docker Hub, and a key for each that is its host and one
\* that is a URL.
BothRegistries == {reg, hub}
BothHosts == {regHost, hubHost}
RegistryAt == (regHost :> reg) @@ (hubHost :> hub)
Hosts == (regKey :> reg) @@ (regUrl :> reg) @@ (hubKey :> hub) @@ (hubUrl :> hub)
Parts == (regKey :> regHost) @@ (regUrl :> Scheme) @@ (hubKey :> hubHost) @@ (hubUrl :> Scheme)

\* Image app is of the private registry, image web of Docker Hub, without a host or
\* with one, or of the former too.
Mixed == (app :> regHost) @@ (web :> Implicit)
BothSpelled == (app :> regHost) @@ (web :> hubHost)
BothPrivate == (app :> regHost) @@ (web :> regHost)

Pod(image, refs) == [image |-> image, refs |-> refs]
RefLists == {<<>>, <<s>>, <<t>>, <<s, t>>, <<t, s>>}

\* The second pod of a has either image, the others have app.
MixedWorkloads ==
    {(x :> Pod(app, rx)) @@ (y :> Pod(image, ry)) @@ (z :> Pod(app, rz)) :
        rx \in RefLists, ry \in {<<>>, <<s>>, <<t>>, <<t, s>>}, image \in {app, web},
        rz \in {<<s>>, <<t, s>>}}
SomeWorkloads ==
    {(x :> Pod(app, rx)) @@ (y :> Pod(image, <<t>>)) @@ (z :> Pod(web, <<s>>)) :
        rx \in RefLists, image \in {app, web}}
FewWorkloads ==
    {(x :> Pod(app, <<s>>)) @@ (y :> Pod(image, ry)) @@ (z :> Pod(app, <<s>>)) :
        image \in {app, web}, ry \in {<<s>>, <<t>>}}

\* What a secret holds: f for the keys of f, and nothing for the others.
Secret(f) == [key \in FourKeys |-> IF key \in DOMAIN f THEN f[key] ELSE None]
Nothing == Secret(<<>>)
VaultOf(as, at, bs, bt) ==
    (a :> ((s :> as) @@ (t :> at))) @@ (b :> ((s :> bs) @@ (t :> bt)))

\* The same name holds different tokens in the two namespaces, or one token is
\* in several secrets; a secret may be for two registries, or unreadable.
MixedVaults ==
    {VaultOf(as, at, bs, Secret(regKey :> k)) :
        as \in {Secret(regKey :> k), Secret((regKey :> l) @@ (hubUrl :> l))},
        at \in {Secret(regKey :> l), Nothing},
        bs \in {Secret(regKey :> k), Secret(regKey :> l)}}

\* A registry is a URL in one secret and a host in another.
UrlVaults ==
    {VaultOf(as, at, Secret((regUrl :> l) @@ (hubKey :> k)), Nothing) :
        as \in {Secret(regUrl :> k), Secret((regKey :> l) @@ (hubUrl :> l))},
        at \in {Secret(hubKey :> l), Secret((regKey :> k) @@ (hubKey :> l))}}

Accepts == {(app :> forApp) @@ (web :> forWeb) :
                forApp \in {{}, {k}, {l}, {k, l, Anonymous}}, forWeb \in {{l}, {Anonymous}}}

World(workloads, vaults, named, ported, test, budget) ==
    [pods |-> workloads, vaults |-> vaults, accepts |-> Accepts, exists |-> {{app, web}, {}},
     named |-> named, ported |-> ported, test |-> test, budget |-> budget]

\* Many workloads with no failing call; few with failing calls and a port; a
\* configured test image; registries that are URLs, and Docker Hub as a host.
AllWorlds == {World(MixedWorkloads, MixedVaults, Mixed, {}, None, 0),
              World(FewWorkloads, MixedVaults, Mixed, {reg}, None, 2),
              World(SomeWorkloads, MixedVaults, BothPrivate, {}, app, 1),
              World(SomeWorkloads, UrlVaults, BothSpelled, {}, None, 1),
              World(FewWorkloads, UrlVaults, Mixed, {}, app, 1)}

\* Secrets whose keys are URLs and hosts, and no failing call.
QuietWorld == {World(FewWorkloads, UrlVaults, Mixed, {}, None, 0)}
=============================================================================
