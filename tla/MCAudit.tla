------------------------------- MODULE MCAudit -------------------------------
(* A small cluster for ClusterAudit, checked by TLC. *)
EXTENDS ClusterAudit, TLC

AllWords == {"number", "latest", "alpine", "slim", "rc", "corp"}
Platforms == {"alpine", "slim"}
TheHosts == {"quay.io", "corp:5000"}

Version(n, rest) == [kind |-> "version", id |-> n, rest |-> rest]
Word(word) == [kind |-> "word", id |-> 0, rest |-> <<word>>]
Digest == [kind |-> "digest", id |-> 1, rest |-> <<>>]
Img(path, tag) == [path |-> path, tag |-> tag, digest |-> NoTag]

\* The docstring of _parse_registry, example by example.
ASSUME
    LET Reg(path) == <<ParseRegistry(path).registry, ParseRegistry(path).name>>
    IN /\ Reg(<<"nginx">>) = <<"docker.io", <<"library", "nginx">>>>
       /\ Reg(<<"myuser", "myapp">>) = <<"docker.io", <<"myuser", "myapp">>>>
       /\ Reg(<<"quay.io", "myorg", "myapp">>) = <<"quay.io", <<"myorg", "myapp">>>>
       /\ Reg(<<"corp:5000", "app">>) = <<"corp:5000", <<"app">>>>

\* Two pods of prod and two of dev.  nginx runs in three versions, app in up to
\* three; a tag that is stable only by its platforms; a digest beside a tag and
\* alone; an image with no tag; pods that opt out of one check or both.
FourPods == {"web", "edge", "job", "tool"}
TwoNamespaces == {"prod", "dev"}
Workloads ==
    ("web"  :> [namespace |-> "prod", skips |-> {},
                images |-> <<Img(<<"nginx">>, Version(1, <<"number", "alpine", "slim">>)),
                             Img(<<"corp:5000", "app">>, NoTag)>>]) @@
    ("edge" :> [namespace |-> "dev", skips |-> {},
                images |-> <<Img(<<"library", "nginx">>, Version(2, <<"rc", "alpine">>)),
                             [Img(<<"corp:5000", "app">>, NoTag) EXCEPT !.digest = Digest]>>]) @@
    ("job"  :> [namespace |-> "dev", skips |-> {"prerelease"},
                images |-> <<Img(<<"nginx">>, Word("rc"))>>]) @@
    ("tool" :> [namespace |-> "prod", skips |-> Checks,
                images |-> <<[Img(<<"corp:5000", "app">>, Version(1, <<>>)) EXCEPT !.digest = Digest]>>])

AllButJob == FourPods \ {"job"}

Pol(age, suffixes, honours, threshold) ==
    [maxAge |-> age, suffixes |-> suffixes, honours |-> honours, threshold |-> threshold]
Default == Pol(1, {}, FALSE, 2)
TwoPolicies == {Default, Pol(0, {"corp"}, TRUE, 1)}
=============================================================================
