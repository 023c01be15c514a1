SPECIFICATION Spec
CONSTANTS
  b1 = b1 b2 = b2 c1 = c1 c2 = c2 g = g m = m
  Branches <- MCBranches
  NumParts = 1
  Dates = {1}
  RecIds = {1, 2}
  Users = {g, m}
  Gerentes <- MCGerentes
  Scope <- MCScope
  Manager <- MCManager
  Coordinator <- MCCoordinator
  Supplier = Supplier
  NoUser = NoUser
  NoRec = NoRec
  MaxAudit = 2
CONSTRAINTS Bound KeysInOrder
INVARIANTS TypeOK UniquePending DecisionAudited OrderedWasApproved
PROPERTY OrderedLostOnlyToStale
CHECK_DEADLOCK FALSE
