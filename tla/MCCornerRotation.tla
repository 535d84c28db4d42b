-------------------------- MODULE MCCornerRotation --------------------------
(***************************************************************************)
(* Small instances of CornerRotation: corners a and b of one state file,   *)
(* numbered automatic slots, and the operator's requests m and n.           *)
(***************************************************************************)
EXTENDS CornerRotation, TLC

CONSTANTS a, b, m, n

MCReq == 1..MaxSlot \cup Manual
=============================================================================
