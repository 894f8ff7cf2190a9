SPECIFICATION Spec
CONSTANTS
  alice = alice
  bob = bob
  nobody = nobody
  NoUser <- nobody
  Users <- OneUser
  Invoices <- OneInvoice
  Sessions <- NoSession
  Purposes <- Tariff
  Price <- Price2
  InitBalance <- Partly
  Inviter <- NobodyInvited
  InviterBonus = 1
  InvitedBonus = 1
  PollLimit = 2
  Faults <- NoFault
INVARIANTS
  CancelledWasNotPaid
CHECK_DEADLOCK FALSE
