SPECIFICATION SalesSpec
CONSTANTS
  dc = dc b1 = b1
  Sellers <- MCSellers
  FirstDay <- MCFirstDay
  Entries = 12
  Window = 12
  Profiles <- MCProfiles
  FirstDays <- MCFirstDays
  Ages <- MCAges
  Partial <- MCPartial
  Waits <- MCWaits
  MaxWaits = 2
  MaxImports = 2
INVARIANTS SafeImportIsExact  RisingIsAboveMean
PROPERTIES StageOnlyAges
CHECK_DEADLOCK FALSE
