--------------------------- MODULE MCReservedTurn ---------------------------
(* ReservedTurn for TLC: its constants are small numbers.                  *)
EXTENDS ReservedTurn
=============================================================================
