SPECIFICATION Spec
CONSTANTS
  Calls = {c1, c2}
  Dirs = {d1, d2}
  Originals = {o1, o2}
  Nothing = Nothing
  Torn = Torn
  Presets <- MCPresets
  Logs <- MCLogs
  TopLevel = {"a.log"}
  Lines <- MCLines
  Garbage <- MCGarbage
  StartLogs <- MCStartLogs
  Requests <- MCRequests
  DefaultLimit = 2
  MaxLimit = 3
  MaxCalls = 3
  MaxEdits = 1
  MaxLogged = 1
  MaxKills = 1
SYMMETRY Symmetry
INVARIANTS TypeOK OriginalIsKept AnalysisIsLongest
CHECK_DEADLOCK FALSE
