SPECIFICATION FairSpec
CONSTANTS
  o1 = o1 o2 = o2
  Orders <- MCOrders
  Qty <- MCQty
  Months = 2
  Syncers = {s}
  Clerks = {c}
  FirstStock = 1
  MaxDay = 1
  MaxChanges = 2
  MaxFailures = 1
  NoOrder = NoOrder
  NoLevel = NoLevel
INVARIANTS OneMovementPerDate CreditedOnce
PROPERTY LevelIsRefreshed
CHECK_DEADLOCK FALSE
