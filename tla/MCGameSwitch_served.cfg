\* Fair drivers, two switches, one of which queues.
SPECIFICATION FairSpec
CONSTANTS
  d1 = d1
  d2 = d2
  Driver = {d1, d2}
  NoDriver = NoDriver
  Req = {"toB", "toA"}
  Games = {"A", "B"}
  NoReq = "none"
  NoGame = "none"
  OpOf <- MCOpOf
  GoalOf <- MCGoalOf
  BoundaryGames = {"A"}
  StopBoundaryGames = {}
  CappedReq = {}
  StartGame = "A"
  MaxGen = 5
  MaxFaults = 1
PROPERTIES
  QueuedServed
  InFlightEnds
  Settles
