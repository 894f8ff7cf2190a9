SPECIFICATION Spec
CONSTANTS
  alice = alice
  bob = bob
  nobody = nobody
  NoUser <- nobody
  Users <- OneUser
  Invoices <- TwoInvoices
  Sessions <- OneSession
  Purposes <- Tariff
  Price <- Price2
  InitBalance <- Partly
  Inviter <- NobodyInvited
  InviterBonus = 1
  InvitedBonus = 1
  PollLimit = 2
  Faults <- OnlyPanel
INVARIANTS
  TypeOK
  PaidBeforeService
  LedgerExplainsBalance
  ProviderAmountMatches
  OneLivePerClick
CHECK_DEADLOCK FALSE
