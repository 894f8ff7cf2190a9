SPECIFICATION Spec
CONSTANTS
  alice = alice
  bob = bob
  nobody = nobody
  NoUser <- nobody
  Users <- OneUser
  Invoices <- TwoInvoices
  Sessions <- NoSession
  Purposes <- Tariff
  Price <- Price2
  InitBalance <- Amply
  Inviter <- NobodyInvited
  InviterBonus = 1
  InvitedBonus = 1
  PollLimit = 2
  Faults <- OnlyPanel
INVARIANTS
  ChargedOnce
CHECK_DEADLOCK FALSE
