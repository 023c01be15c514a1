SPECIFICATION Spec
CONSTANTS
  NumParts = 2
  Branches = {b1}
  Workers = {w1}
  Shells = {shell}
  MaxAttempts = 2
  MaxTime = 3
  MonthLength = 2
  Recent = 1
  NoJob = NoJob
INVARIANTS OneResultPerPart RecordedPassIsComplete
CONSTRAINT OnePartHasBranchRows
CHECK_DEADLOCK FALSE
