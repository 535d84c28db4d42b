\* Two manual requests; a pause, a stop and a death.
SPECIFICATION Spec
CONSTANTS
  a = a
  b = b
  m = m
  n = n
  Corner = {a}
  Base = base
  NoReq = noreq
  Req <- MCReq
  Manual = {m, n}
  Pausable = {a}
  MaxSlot = 0
  Tries = 0
  Cool = 0
  CanBreak = FALSE
  Crashes = 1
  Stops = 1
INVARIANTS
  ManualKept
  OneManual
CHECK_DEADLOCK FALSE
