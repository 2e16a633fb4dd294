------------------------------ MODULE MCGrants ------------------------------
(* Small instances of CentralGrants for TLC. *)
EXTENDS CentralGrants, TLC

CONSTANT a

One == {a}
NoOwnPolicy == [n \in Namespaces |-> "none"]

ConfigOf(mode, scope, labels) ==
    [mode |-> mode, scope |-> [n \in Namespaces |-> scope], labels |-> labels, account |-> 1]

\* Secret access tightened or taken away, a release with other labels, checkers
\* disabled, another mode.
Turned == {ConfigOf("central", "all", 1), ConfigOf("central", "some", 1),
           ConfigOf("central", "all", 2), ConfigOf("central", "nothing", 1),
           ConfigOf("centralDisabled", "all", 1), ConfigOf("perNamespace", "all", 1)}
=============================================================================
