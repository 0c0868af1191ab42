SPECIFICATION Spec
CONSTANTS
  Calls = {c1, c2}
  Paths <- MCPaths
  u = u
  v = v
  Empty = Empty
  Contents = {u, v, Empty}
  Absent = Absent
  Torn = Torn
  NoDir = NoDir
  Starts <- MCStarts
  EditValues = {v, Absent}
  MaxEdits = 1
  Seconds = {t1, t2}
  MaxPlans = 1
  MaxMerges = 2
SYMMETRY Symmetry
INVARIANTS TypeOK HandledAsAsked
PROPERTY CompletedAsAskedAndUndoable
CHECK_DEADLOCK FALSE
