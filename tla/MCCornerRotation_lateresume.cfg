\* A holder that dies between its state file and its switch request.
SPECIFICATION FairSpec
CONSTANTS
  a = a
  b = b
  m = m
  n = n
  Corner = {a}
  Base = base
  NoReq = noreq
  Req <- MCReq
  Manual = {}
  Pausable = {}
  MaxSlot = 1
  Tries = 0
  Cool = 0
  CanBreak = FALSE
  Crashes = 1
  Stops = 0
PROPERTIES
  ReservationSettled
CHECK_DEADLOCK FALSE
