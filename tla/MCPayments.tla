----------------------------- MODULE MCPayments -----------------------------
(* Instances of Payments for TLC: alice was invited by bob, and can pay all or *)
(* part of what she buys from her balance.                                     *)
EXTENDS Payments

CONSTANTS alice, bob, nobody

MCUsers == {alice, bob}
OneUser == {alice}
OneInvoice == {1}
TwoInvoices == {1, 2}
NoSession == {}
OneSession == {"console"}

Tariff == {"tariff"}
TariffAndTopup == {"tariff", "balance_topup"}
Price2 == [p \in Purposes |-> 2]

\* enough for a part of a price of 2, or for two of them
Partly == [u \in Users |-> IF u = alice THEN 1 ELSE 0]
Amply == [u \in Users |-> IF u = alice THEN 4 ELSE 0]

BobInvitedAlice == [u \in Users |-> IF u = alice THEN bob ELSE nobody]
NobodyInvited == [u \in Users |-> nobody]

ProviderAndCrash == {"provider", "crash"}
OnlyPanel == {"panel"}
NoFault == {}
=============================================================================
