\* A back-off recorded while another process removes the one that has passed.
SPECIFICATION Spec
CONSTANTS
  c1 = c1
  c2 = c2
  c3 = c3
  r1 = r1
  Worker = {c1, c2}
  NoOne = NoOne
  Lane <- MCLane
  Chain <- MCChain
  Agents = {"open"}
  Lanes = {"comment", "radio"}
  OpenAgents = {"open"}
  Hurried = {}
  Patient = {c1, c2}
  Mortal = {}
  Slow = {}
INVARIANTS
  BackoffKept
CHECK_DEADLOCK FALSE
