\* A queued stop that finds no active game in an interrupted switch.
SPECIFICATION Spec
CONSTANTS
  d1 = d1
  d2 = d2
  Driver = {d1}
  NoDriver = NoDriver
  Req = {"toB", "stop"}
  Games = {"A", "B"}
  NoReq = "none"
  NoGame = "none"
  OpOf <- MCOpOf
  GoalOf <- MCGoalOf
  BoundaryGames = {}
  StopBoundaryGames = {}
  CappedReq = {}
  StartGame = "A"
  MaxGen = 5
  MaxFaults = 3
PROPERTIES
  StopMeansStopped
