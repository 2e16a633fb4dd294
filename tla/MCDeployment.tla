---------------------------- MODULE MCDeployment ----------------------------
(* A small instance of CheckerDeployment for TLC. *)
EXTENDS CheckerDeployment

CONSTANTS a, b, old, new

Two == {a, b}
OldAndNew == {old, new}
=============================================================================
