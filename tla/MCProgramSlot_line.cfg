\* Three in line: two corners of the rotation and a view.
SPECIFICATION Spec
CONSTANTS
  a = a
  b = b
  v = v
  NoCorner = nobody
  Corner = {a, b, v}
  Returning = {a, b}
  Polite = {v}
  Views = {v}
  Mortal = {a, b, v}
  MaxAsks = 3
  Kills = 1
INVARIANTS
  TypeOK
  RegistryTells
PROPERTIES
  NotOvertaken
  OneProgramme
CHECK_DEADLOCK FALSE
