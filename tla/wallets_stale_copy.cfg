SPECIFICATION WalletSpec
CONSTANTS
  People = {"alice", "bob"}
  Desks = {"s1", "s2"}
  Operations = {"spend", "credit"}
  MaxDeals = 3
INVARIANTS
  BalanceIsAlwaysBooked
CHECK_DEADLOCK FALSE
