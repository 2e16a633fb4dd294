------------------------------ MODULE ImageTags ------------------------------
(***************************************************************************)
(* What the cluster audit reads from the name of an image: its registry,   *)
(* its name there and its tag, and whether that tag is a pre-release one.  *)
(*                                                                         *)
(* A path is the sequence of the parts between slashes.  A tag is kept as  *)
(* what the regular expressions tell of it: whether it is a digest or      *)
(* starts with a version, and the rest, cut at its separators into words;  *)
(* digits glued to a platform's name (alpine3.18) are part of its word.    *)
(***************************************************************************)
EXTENDS Integers, Sequences

CONSTANTS
    Hosts,          \* parts with a dot or a port: they name a registry
    Words,          \* what tags are made of, one of them for any number
    Number, LatestWord,
    BuiltInSuffixes \* _DEFAULT_STABLE_SUFFIXES

ASSUME TagsAssumption ==
    /\ Number \in Words /\ LatestWord \in Words \ {Number} /\ BuiltInSuffixes \subseteq Words \ {Number}

Kinds == {"none", "digest", "version", "word"}

\* "none" is a part the image's name does not have; id tells tags of one form apart.
Tags == [kind : Kinds, id : Nat, rest : Seq(Words)]
NoTag == [kind |-> "none", id |-> 0, rest |-> <<>>]

Latest == [kind |-> "word", id |-> 0, rest |-> <<LatestWord>>]  \* an image that names none

\* _parse_registry: Docker Hub unless the first part names a host; an image of
\* one part is one of the Hub's own.
ParseRegistry(path) ==
    CASE Len(path) = 1 -> [registry |-> "docker.io", name |-> <<"library">> \o path]
      [] Len(path) > 1 /\ Head(path) \in Hosts -> [registry |-> Head(path), name |-> Tail(path)]
      [] OTHER -> [registry |-> "docker.io", name |-> path]

\* _parse_image: a tag counts before a digest beside it.
TagOf(image) ==
    CASE image.tag # NoTag -> image.tag
      [] image.tag = NoTag /\ image.digest # NoTag -> image.digest
      [] OTHER -> Latest

\* An empty list of suffixes is falsy: the built-in one takes its place.
Suffixes(given) == IF given = {} THEN BuiltInSuffixes ELSE given

\* A variant: one platform is stripped, and no more.
KeptButOne(rest, suffixes) ==
    IF rest # <<>> /\ rest[Len(rest)] \in suffixes THEN Len(rest) - 1 ELSE Len(rest)

\* How much of the rest is left when platforms are stripped from its end until
\* nothing changes.
Kept(rest, suffixes) ==
    CHOOSE n \in 0 .. Len(rest) :
        /\ \A i \in n + 1 .. Len(rest) : rest[i] \in suffixes
        /\ n > 0 => rest[n] \notin suffixes

\* <platform>[-v]<version> and nothing else.
PlatformVersion(rest, suffixes) ==
    Len(rest) = 2 /\ rest[1] \in suffixes /\ rest[2] = Number

\* is_prerelease_tag: after a version, at most one more number may be left.
IsPrerelease(tag, given) ==
    LET suffixes == Suffixes(given)
        n == Kept(tag.rest, suffixes)
    IN CASE tag.kind = "digest" -> FALSE
         [] tag.kind = "version" -> n > 0 /\ ~(n = 1 /\ tag.rest[1] = Number)
         [] OTHER -> ~PlatformVersion(tag.rest, suffixes)
=============================================================================
