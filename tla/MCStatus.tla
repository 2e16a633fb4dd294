------------------------------ MODULE MCStatus ------------------------------
(* Small instances of ReconcileStatus for TLC. *)
EXTENDS ReconcileStatus, TLC

CONSTANTS a, b

Two == {a, b}
NoOwnPolicy == [n \in Namespaces |-> "none"]
OnlyB == {b}
=============================================================================
