SPECIFICATION FairSpec
CONSTANTS
  alice = alice
  bob = bob
  nobody = nobody
  NoUser <- nobody
  Users <- MCUsers
  Invoices <- TwoInvoices
  Sessions <- NoSession
  Purposes <- TariffAndTopup
  Price <- Price2
  InitBalance <- Partly
  Inviter <- BobInvitedAlice
  InviterBonus = 1
  InvitedBonus = 1
  PollLimit = 1
  Faults <- ProviderAndCrash
INVARIANTS
  AllOrNothing
  MoneyIsConserved
PROPERTIES
  PaidIsSettled
  SettledIsFinal
CHECK_DEADLOCK FALSE
