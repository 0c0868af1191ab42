SPECIFICATION FairSpec
CONSTANTS
  Procs = {p1, p2}
  Pool = 2
  Files <- MCFiles
  Texts = {text, empty}
  Empty = empty
  None = none
  MaxEdits = 2
  MaxOpens = 2
INVARIANTS TypeOK CacheIsSound IndexIsCurrent
PROPERTIES OpenReturns
CHECK_DEADLOCK FALSE
