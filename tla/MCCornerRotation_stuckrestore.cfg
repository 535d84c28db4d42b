\* A restore that somebody else finishes.
SPECIFICATION FairSpec
CONSTANTS
  a = a
  b = b
  m = m
  n = n
  Corner = {a}
  Base = base
  NoReq = noreq
  Req <- MCReq
  Manual = {}
  Pausable = {}
  MaxSlot = 1
  Tries = 0
  Cool = 0
  CanBreak = FALSE
  Crashes = 0
  Stops = 0
PROPERTIES
  RestoreFinished
CHECK_DEADLOCK FALSE
