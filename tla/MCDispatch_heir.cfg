\* A worker dies at any step; one other process is left to reap its locks.
SPECIFICATION FairSpec
CONSTANTS
  c1 = c1
  c2 = c2
  c3 = c3
  r1 = r1
  Worker = {c1, r1}
  NoOne = NoOne
  Lane <- MCLane
  Chain <- MCChain
  Agents = {"open", "api"}
  Lanes = {"comment", "radio"}
  OpenAgents = {"open"}
  Hurried = {r1}
  Patient = {c1, r1}
  Mortal = {c1, r1}
  Slow = {}
CHECK_DEADLOCK FALSE
INVARIANTS
  TypeOK
  OneHolder
PROPERTIES
  DispatchEnds
