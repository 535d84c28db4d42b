----------------------------- MODULE Programme -----------------------------
(***************************************************************************)
(* What the slot promises the corners: one of them at a time has the       *)
(* programme, from the beginning of its run until the run is over or is    *)
(* given up, and between two of them it is free.                           *)
(***************************************************************************)
CONSTANTS Corner, NoCorner

VARIABLE onAir

Init == onAir = NoCorner

Take(c) == onAir = NoCorner /\ onAir' = c
Give    == onAir # NoCorner /\ onAir' = NoCorner

Next == Give \/ \E c \in Corner : Take(c)

Spec == Init /\ [][Next]_onAir
=============================================================================
