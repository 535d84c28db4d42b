\* A worker dies, and others keep a lock longer than stale_sec.
SPECIFICATION Spec
CONSTANTS
  c1 = c1
  c2 = c2
  c3 = c3
  r1 = r1
  Worker = {c1, c2, c3}
  NoOne = NoOne
  Lane <- MCLane
  Chain <- MCChain
  Agents = {"open"}
  Lanes = {"comment", "radio"}
  OpenAgents = {"open"}
  Hurried = {}
  Patient = {c1}
  Mortal = {c1}
  Slow = {c2, c3}
INVARIANTS
  NothingLeft
CHECK_DEADLOCK FALSE
