\* A corner of the rotation and a view; either may be killed.
SPECIFICATION FairSpec
CONSTANTS
  a = a
  b = b
  v = v
  NoCorner = nobody
  Corner = {a, v}
  Returning = {a, v}
  Polite = {v}
  Views = {v}
  Mortal = {a, v}
  MaxAsks = 2
  Kills = 1
INVARIANTS
  TypeOK
  RegistryTells
PROPERTIES
  NotOvertaken
  OneProgramme
  Served
CHECK_DEADLOCK FALSE
