SPECIFICATION SubscriptionSpec
CONSTANTS
  Renewals = {"r1", "r2"}
  Topups = {}
  ConsolePages = {"disable"}
  Base = 1
  MaxTime = 0
  MaxExpire = 1
  MaxFaults = 0
INVARIANTS
  PaidIsAlwaysKept
CHECK_DEADLOCK FALSE
