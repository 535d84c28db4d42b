\* A recovery whose restore fails again.
SPECIFICATION Spec
CONSTANTS
  d1 = d1
  d2 = d2
  Driver = {d1}
  NoDriver = NoDriver
  Req = {"toB"}
  Games = {"A", "B"}
  NoReq = "none"
  NoGame = "none"
  OpOf <- MCOpOf
  GoalOf <- MCGoalOf
  BoundaryGames = {"A"}
  StopBoundaryGames = {}
  CappedReq = {}
  StartGame = "A"
  MaxGen = 5
  MaxFaults = 3
PROPERTIES
  FailedRestoreLeavesFailed
