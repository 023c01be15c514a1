SPECIFICATION FairSpec
CONSTANTS
  first = first second = second override = override
  Events <- MCEvents
  Atomic <- MCAtomic
  Key <- MCKey
  Undeliverable = {override}
  Dispatchers = {d1, d2}
  Batch = 2
  MaxHours = 1
  MaxFailures = 1
  MaxRefusals = 1
  NotSent = NotSent
INVARIANTS NotifyTypeOK SentWasMailed MailedOnce ThrottledHourly
PROPERTY PendingIsMailed
