SPECIFICATION Spec
CONSTANTS
  dc = dc a = a b = b
  Branches <- MCBranches
  Centers <- MCCenters
  Parent <- MCParent
  Velocity <- MCVelocity
  Cover = 2
  Lead = 1
  Quantities <- MCQuantities
  MaxSyncs = 1
  NoBranch = NoBranch
  NoOrder = NoOrder
  NoJob = NoJob
INVARIANTS SourceIsNotShort
 
CHECK_DEADLOCK FALSE
