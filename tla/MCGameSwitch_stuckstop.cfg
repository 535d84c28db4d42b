\* A stop that dies while it is being accepted, and whose game exits.
SPECIFICATION FairSpec
CONSTANTS
  d1 = d1
  d2 = d2
  Driver = {d1}
  NoDriver = NoDriver
  Req = {"stop"}
  Games = {"A", "B"}
  NoReq = "none"
  NoGame = "none"
  OpOf <- MCOpOf
  GoalOf <- MCGoalOf
  BoundaryGames = {"A"}
  StopBoundaryGames = {}
  CappedReq = {}
  StartGame = "A"
  MaxGen = 5
  MaxFaults = 2
PROPERTIES
  InFlightEnds
