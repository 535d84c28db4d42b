\* A waiter that is killed and does not come back.
SPECIFICATION FairSpec
CONSTANTS
  a = a
  b = b
  v = v
  NoCorner = nobody
  Corner = {a, v}
  Returning = {a}
  Polite = {}
  Views = {v}
  Mortal = {v}
  MaxAsks = 2
  Kills = 1
PROPERTIES
  TurnComes
CHECK_DEADLOCK FALSE
