--------------------------- MODULE MCProgramSlot ---------------------------
(***************************************************************************)
(* Small instances of ProgramSlot: two corners of the rotation, a and b,   *)
(* and a view v that is started by hand or by its own timer.               *)
(***************************************************************************)
EXTENDS ProgramSlot, TLC

CONSTANTS a, b, v
=============================================================================
