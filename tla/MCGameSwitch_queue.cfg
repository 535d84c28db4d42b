\* Rotation, a request with a hard deadline, and a stop with a boundary.
SPECIFICATION Spec
CONSTANTS
  d1 = d1
  d2 = d2
  Driver = {d1, d2}
  NoDriver = NoDriver
  Req = {"rotate", "toB", "stop"}
  Games = {"A", "B"}
  NoReq = "none"
  NoGame = "none"
  OpOf <- MCOpOf
  GoalOf <- MCGoalOf
  BoundaryGames = {"A"}
  StopBoundaryGames = {"A"}
  CappedReq = {"rotate"}
  StartGame = "A"
  MaxGen = 5
  MaxFaults = 2
SYMMETRY DriverSymmetry
INVARIANTS
  TypeOK
  CanonicalValid
  OneGameOnAir
  DriverOwnsCanonical
  OneInFlight
PROPERTIES
  FifoOrder
