SPECIFICATION FairSpec
CONSTANTS
  s1 = s1
  s2 = s2
  s3 = s3
  Sessions = {s1, s2, s3}
  Port <- MCPort
  Callers = {c1, c2}
  None = none
  MaxCalls = 2
INVARIANTS BridgeTypeOK CarriedOutWhereMeant OutcomeIsTrue StoppedIsForgotten
PROPERTIES CallReturns
CHECK_DEADLOCK FALSE
