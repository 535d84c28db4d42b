\* From no game: start, restart and the requests answered without a run.
SPECIFICATION AgentsSpec
CONSTANTS
  d1 = d1
  d2 = d2
  Driver = {d1}
  NoDriver = NoDriver
  Req = {"startA", "restart", "toB", "stop"}
  Games = {"A", "B"}
  NoReq = "none"
  NoGame = "none"
  OpOf <- MCOpOf
  GoalOf <- MCGoalOf
  BoundaryGames = {"A"}
  StopBoundaryGames = {"A"}
  CappedReq = {}
  StartGame = "none"
  MaxGen = 6
  MaxFaults = 3
INVARIANTS
  StartsAlone
  NoOrphanGame
  RetireesProvable
  CommitsHonoured
  RecoverableIdentity
  ActsOnAir
  AgentReady
PROPERTIES
  NotRepeated
  ReceiptsFinal
