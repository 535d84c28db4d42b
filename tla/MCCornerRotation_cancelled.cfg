\* A timed request that is cancelled while its import is interrupted.
SPECIFICATION Spec
CONSTANTS
  a = a
  b = b
  m = m
  n = n
  Corner = {a, b}
  Base = base
  NoReq = noreq
  Req <- MCReq
  Manual = {m}
  Pausable = {}
  MaxSlot = 0
  Tries = 0
  Cool = 0
  CanBreak = FALSE
  Crashes = 1
  Stops = 0
PROPERTIES
  CancelledNeverRuns
CHECK_DEADLOCK FALSE
