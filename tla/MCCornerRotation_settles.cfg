\* A manual and an automatic reservation under a timer that fires again.
SPECIFICATION FairSpec
CONSTANTS
  a = a
  b = b
  m = m
  n = n
  Corner = {a, b}
  Base = base
  NoReq = noreq
  Req <- MCReq
  Manual = {m}
  Pausable = {}
  MaxSlot = 1
  Tries = 1
  Cool = 0
  CanBreak = FALSE
  Crashes = 0
  Stops = 0
PROPERTIES
  ReservationSettled
CHECK_DEADLOCK FALSE
