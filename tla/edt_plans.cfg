SPECIFICATION Spec
CONSTANTS
  Calls = {c1, c2}
  Names = {A, B, A1}
  Started = {A}
  NoObject = NoObject
  TTL = 1
  MaxPlans = 2
  MaxEdits = 1
  MaxTime = 2
SYMMETRY Symmetry
INVARIANT TypeOK
PROPERTIES AttachedOnce ApplyIsExact
CHECK_DEADLOCK FALSE
