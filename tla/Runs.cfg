SPECIFICATION FairRunSpec
CONSTANTS
  b1 = b1 m = m w1 = w1 web = web
  Branches <- MCBranches
  NumParts = 2
  Dates = {1, 2}
  RecIds = {1, 2, 3, 4}
  Users = {m}
  Gerentes = {}
  Scope <- MCScope
  Manager <- MCManager
  Coordinator <- MCCoordinator
  Supplier = Supplier
  NoUser = NoUser
  NoRec = NoRec
  NoJob = NoJob
  Workers = {w1}
  WebProcs = {web}
  MaxAttempts = 2
  MaxAudit = 1
CONSTRAINTS Bound KeysInOrder
INVARIANTS OneRecommendationPerRun RecordedRunIsComplete
PROPERTY TaskEnds
CHECK_DEADLOCK FALSE
