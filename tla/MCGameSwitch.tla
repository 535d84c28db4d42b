---------------------------- MODULE MCGameSwitch ----------------------------
(***************************************************************************)
(* Small instances of GameSwitch.  A request id is named for what it asks. *)
(***************************************************************************)
EXTENDS GameSwitch, TLC

CONSTANTS d1, d2

Asks ==
  [startA |-> <<"start", "A">>, startB |-> <<"start", "B">>,
   toA |-> <<"switch", "A">>, toB |-> <<"switch", "B">>, toB2 |-> <<"switch", "B">>,
   restart |-> <<"restart", "none">>, rotate |-> <<"rotate", "none">>,
   stop |-> <<"stop", "none">>, stop2 |-> <<"stop", "none">>]

MCOpOf   == [r \in Req |-> Asks[r][1]]
MCGoalOf == [r \in Req |-> Asks[r][2]]

DriverSymmetry == Permutations({d1, d2})
=============================================================================
