SPECIFICATION Spec
CONSTANTS
  Servers = {s1}
  Plans = {a, b}
  Objects = {x, y}
  MaxEdits = 2
  MaxCrashes = 1
  NoPlan = NoPlan
  NoObject = NoObject
SYMMETRY Symmetry
INVARIANTS TypeOK BackupOutlivesChange
PROPERTIES SettlesTruthfully LoadsOnlyFreshPlan FollowsLifecycle
CHECK_DEADLOCK FALSE
