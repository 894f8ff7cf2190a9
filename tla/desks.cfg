SPECIFICATION DesksSpec
CONSTANTS
  d1 = d1
  d2 = d2
  u1 = u1
  u2 = u2
  Workers <- TwoDesks
  Users <- OneUser
  Tickets = {1, 2}
  MaxMessages = 2
  MaxBreaks = 1
  People <- TwoPeople
  Desks <- TwoDesks
  Operations <- AllOperations
  MaxDeals = 3
INVARIANTS
  DesksTypeOK
  TicketsAgree
  BalanceIsBooked
  GiftsAreCounted
PROPERTIES
  DesksEnd
  ClosedIsLeftAlone
CHECK_DEADLOCK FALSE
