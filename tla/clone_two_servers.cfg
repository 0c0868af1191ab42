SPECIFICATION FairSpec
CONSTANTS
  Servers = {s1, s2}
  Plans = {a}
  Objects = {x, y}
  MaxEdits = 1
  MaxCrashes = 0
  NoPlan = NoPlan
  NoObject = NoObject
INVARIANT PreparedIsComplete
PROPERTY EveryCallReturns
CHECK_DEADLOCK FALSE
