\* An uncommitted start repeated after its commit.
SPECIFICATION Spec
CONSTANTS
  d1 = d1
  d2 = d2
  Driver = {d1}
  NoDriver = NoDriver
  Req = {"startA", "startB"}
  Games = {"A", "B"}
  NoReq = "none"
  NoGame = "none"
  OpOf <- MCOpOf
  GoalOf <- MCGoalOf
  BoundaryGames = {}
  StopBoundaryGames = {}
  CappedReq = {}
  StartGame = "none"
  MaxGen = 5
  MaxFaults = 4
PROPERTIES
  CommittedNotRepeated
