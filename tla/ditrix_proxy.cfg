SPECIFICATION FairSpec
CONSTANTS
  c1 = c1
  c2 = c2
  Calls = {c1, c2}
  Offers <- MCOffers
  Operations <- MCOperations
  Requests <- MCRequests
  MaxAttempts = 2
  MaxPages = 2
  MaxBuilds = 2
INVARIANTS TypeOK RegistryIsSound StaysInProject AsAnnounced OutcomeIsTrue
PROPERTY CallReturns
CHECK_DEADLOCK FALSE
