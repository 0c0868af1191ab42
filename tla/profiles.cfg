SPECIFICATION ProfilesSpec
CONSTANTS
  Calls = {c1, c2}
  Ids = {"base", "base_test", "shop"}
  Longer <- MCLonger
  Flags <- MCFlags
  NoJob = NoJob
  Bridges = {TRUE, FALSE}
  Keys = {"k1", "k2"}
  StartText <- MCStartText
  MaxCalls = 3
  MaxEdits = 1
SYMMETRY Symmetry
INVARIANTS ProfilesTypeOK RegisteredIsServed
PROPERTY NothingIsLost
CHECK_DEADLOCK FALSE
