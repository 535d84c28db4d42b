\* A queued start behind a game that stays on air.
SPECIFICATION FairSpec
CONSTANTS
  d1 = d1
  d2 = d2
  Driver = {d1, d2}
  NoDriver = NoDriver
  Req = {"startB", "toB"}
  Games = {"A", "B"}
  NoReq = "none"
  NoGame = "none"
  OpOf <- MCOpOf
  GoalOf <- MCGoalOf
  BoundaryGames = {"A"}
  StopBoundaryGames = {}
  CappedReq = {}
  StartGame = "A"
  MaxGen = 5
  MaxFaults = 1
PROPERTIES
  QueuedServed
