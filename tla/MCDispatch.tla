----------------------------- MODULE MCDispatch -----------------------------
(***************************************************************************)
(* Small instances of Dispatch: comment workers c1, c2, c3 and the radio   *)
(* worker r1, which share the agent "open"; "api" takes no provider lock.  *)
(***************************************************************************)
EXTENDS Dispatch, TLC

CONSTANTS c1, c2, c3, r1

MCLane  == [w \in Worker |-> IF w = r1 THEN "radio" ELSE "comment"]
MCChain == [w \in Worker |-> IF w = r1 THEN <<"open", "api">> ELSE <<"open">>]
=============================================================================
