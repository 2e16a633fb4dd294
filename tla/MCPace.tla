------------------------------- MODULE MCPace -------------------------------
(* A small instance of PacedCycle for TLC. *)
EXTENDS PacedCycle

\* Work that costs nothing, that fits into the interval and that overruns it.
SomeCosts == {0, 1, 2, 5}
=============================================================================
