SPECIFICATION Spec
CONSTANTS
  Calls = {c1, c2}
  a = a
  m = m
  n = n
  Break = Break
  Words = {a, m, n}
  MethodWords <- MCMethodWords
  NoText = NoText
  Texts <- MCTexts
  Requests <- MCRequests
  PageSize = 1
  MaxPages = 2
  MaxSize = 5
  MaxEdits = 2
  MaxCalls = 2
SYMMETRY Symmetry
INVARIANT TypeOK
PROPERTIES WritesWhatWasAsked OverwritesWithCare
CHECK_DEADLOCK FALSE
