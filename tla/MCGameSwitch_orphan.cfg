\* A drain given up by another entry that dies before it answers the request.
SPECIFICATION FairSpec
CONSTANTS
  d1 = d1
  d2 = d2
  Driver = {d1, d2}
  NoDriver = NoDriver
  Req = {"toB", "toA"}
  Games = {"A", "B"}
  NoReq = "none"
  NoGame = "none"
  OpOf <- MCOpOf
  GoalOf <- MCGoalOf
  BoundaryGames = {"A"}
  StopBoundaryGames = {}
  CappedReq = {}
  StartGame = "A"
  MaxGen = 5
  MaxFaults = 2
PROPERTIES
  InFlightEnds
