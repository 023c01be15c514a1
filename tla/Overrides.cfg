SPECIFICATION FairSpec
CONSTANTS
  m1 = m1 m2 = m2 w1 = w1 w2 = w2 b1 = b1
  Managers <- MCManagers
  Workers <- MCWorkers
  Branches <- MCBranches
  TenantWide = TenantWide
  Run = Run
  NoRun = NoRun
  MaxDay = 1
  MaxRequests = 3
  MaxFailures = 1
INVARIANTS OnePersistentPerBranch AcceptedIsUsed DeletedWasNotified
PROPERTIES CleanupIsInvisible ExpiredIsRemoved
CHECK_DEADLOCK FALSE
