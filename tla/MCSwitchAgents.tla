--------------------------- MODULE MCSwitchAgents ---------------------------
(***************************************************************************)
(* Small instances of SwitchAgents.  A request id is named for what it     *)
(* asks.                                                                   *)
(***************************************************************************)
EXTENDS SwitchAgents, TLC

CONSTANTS d1, d2

Asks == [startA |-> <<"start", "A">>, toB |-> <<"switch", "B">>,
         restart |-> <<"restart", "none">>, stop |-> <<"stop", "none">>]

MCOpOf   == [r \in Req |-> Asks[r][1]]
MCGoalOf == [r \in Req |-> Asks[r][2]]
=============================================================================
