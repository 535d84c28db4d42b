\* Generations taken by a restore while a request waits.
SPECIFICATION Spec
CONSTANTS
  d1 = d1
  d2 = d2
  Driver = {d1, d2}
  NoDriver = NoDriver
  Req = {"toB", "toA"}
  Games = {"A", "B"}
  NoReq = "none"
  NoGame = "none"
  OpOf <- MCOpOf
  GoalOf <- MCGoalOf
  BoundaryGames = {"A"}
  StopBoundaryGames = {}
  CappedReq = {}
  StartGame = "A"
  MaxGen = 6
  MaxFaults = 4
INVARIANTS
  GenerationsFresh
