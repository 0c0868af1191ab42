SPECIFICATION Spec
CONSTANTS
  Servers = {s1}
  Plans = {a}
  Objects = {x, y}
  MaxEdits = 0
  MaxCrashes = 0
  NoPlan = NoPlan
  NoObject = NoObject
INVARIANT ChangeIsAccountedFor
CHECK_DEADLOCK FALSE
