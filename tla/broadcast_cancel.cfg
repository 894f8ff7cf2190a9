SPECIFICATION BroadcastFairSpec
CONSTANTS
  Senders = {"s1"}
  Jobs = {"j1"}
  Audience = {1, 2, 3}
  Batch = 2
  MaxFaults = 0
  MaxChanges = 1
PROPERTIES
  CancelTakesEffect
CHECK_DEADLOCK FALSE
