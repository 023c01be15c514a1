SPECIFICATION FairSpec
CONSTANTS
  u1 = u1 u2 = u2 b1 = b1 b2 = b2 mock = mock autologica = autologica
  Users <- MCUsers
  Branches <- MCBranches
  Adapters <- MCAdapters
  Implemented <- MCImplemented
  MaxAttempts = 3
  MaxRequests = 3
INVARIANTS  StatusIsBacked
PROPERTIES RequestEnds
CHECK_DEADLOCK FALSE
