\* A stop asked for while one corner follows another.
SPECIFICATION Spec
CONSTANTS
  a = a
  b = b
  m = m
  n = n
  Corner = {a, b}
  Base = base
  NoReq = noreq
  Req <- MCReq
  Manual = {}
  Pausable = {}
  MaxSlot = 2
  Tries = 0
  Cool = 0
  CanBreak = FALSE
  Crashes = 0
  Stops = 1
PROPERTIES
  StopNotCarriedOver
CHECK_DEADLOCK FALSE
