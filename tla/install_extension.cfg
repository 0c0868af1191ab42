SPECIFICATION Spec
CONSTANTS
  Platforms <- MCPlatforms
  None = none
  MaxInstalls = 3
INVARIANTS TypeOK SucceedsWherePossible NoMoreThanNeeded
CHECK_DEADLOCK FALSE
