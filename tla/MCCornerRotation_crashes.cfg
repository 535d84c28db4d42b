\* Two automatic reservations, whose holder may die once.
SPECIFICATION Spec
CONSTANTS
  a = a
  b = b
  m = m
  n = n
  Corner = {a, b}
  Base = base
  NoReq = noreq
  Req <- MCReq
  Manual = {}
  Pausable = {}
  MaxSlot = 2
  Tries = 1
  Cool = 2
  CanBreak = TRUE
  Crashes = 1
  Stops = 0
INVARIANTS
  TypeOK
  OnAirAccounted
  RunReserved
PROPERTIES
  CooldownRespected
CHECK_DEADLOCK FALSE
