----------------------------- MODULE ManualReset -----------------------------
(***************************************************************************)
(* The paid traffic reset: confirm_reset_traffic in src/app/handlers/vpn.py *)
(* and reset_traffic_paid in src/app/services/subscriptions.py, beside the *)
(* other writers of the same balance.                                      *)
(*                                                                         *)
(* get_or_create_user loads the user before it locks the row, and a locking *)
(* SELECT does not refresh an object the session already holds.  What      *)
(* follows works on the balance loaded first, and writes it back whole.    *)
(* The row stays locked from the lock to the commit, so that part is one   *)
(* action; the panel is called inside it and is not rolled back.           *)
(***************************************************************************)
EXTENDS Integers

CONSTANTS Sessions,     \* concurrent clicks of one user
          Price,
          InitBalance,
          Amounts,      \* what the other writers add or take
          MaxWrites,    \* the bound on their writes
          MaxResets     \* the bound on the calls of the panel

ASSUME PriceAssumption == Price \in Nat \ {0}
ASSUME BalanceAssumption == InitBalance \in Nat
ASSUME AmountsAssumption == Amounts \subseteq Nat \ {0}
ASSUME BoundsAssumption == MaxWrites \in Nat /\ MaxResets \in Nat

VARIABLES
  wallet,  \* users.balance
  ledger,  \* the sum of the user's transactions rows
  charges, \* how many of them are charges for a reset
  resets,  \* panel: how often the usage was reset
  copy,    \* per session, the balance it loaded, or Unread
  writes   \* writes of the others so far

resetVars == <<wallet, ledger, charges, resets, copy, writes>>

Unread == -1

ResetInit ==
  /\ wallet = InitBalance
  /\ ledger = 0
  /\ charges = 0
  /\ resets = 0
  /\ copy = [s \in Sessions |-> Unread]
  /\ writes = 0

Clicked(s) == copy[s] # Unread
Done(s) == copy' = [copy EXCEPT ![s] = Unread]

\* get_or_create_user, up to its plain SELECT
LoadUser(s) ==
  /\ ~Clicked(s)
  /\ copy' = [copy EXCEPT ![s] = wallet]
  /\ UNCHANGED <<wallet, ledger, charges, resets, writes>>

\* not enough on the balance, or the panel failed before it did anything
GiveUp(s) ==
  /\ Clicked(s)
  /\ Done(s)
  /\ UNCHANGED <<wallet, ledger, charges, resets, writes>>

\* mutant: the charge is committed whether or not the panel did the reset
ChargeFirst(s) ==
  /\ Clicked(s)
  /\ copy[s] >= Price
  /\ resets < MaxResets
  /\ resets' \in {resets, resets + 1}
  /\ wallet' = copy[s] - Price
  /\ ledger' = ledger - Price
  /\ charges' = charges + 1
  /\ Done(s)
  /\ UNCHANGED writes

\* mutant: the balance is not compared with the price
ResetUnchecked(s) ==
  /\ Clicked(s)
  /\ resets < MaxResets
  /\ resets' = resets + 1
  /\ wallet' = copy[s] - Price
  /\ ledger' = ledger - Price
  /\ charges' = charges + 1
  /\ Done(s)
  /\ UNCHANGED writes

\* reset_traffic_paid, to its commit
ResetTrafficPaid(s) ==
  /\ Clicked(s)
  /\ copy[s] >= Price
  /\ resets < MaxResets
  /\ resets' = resets + 1
  /\ wallet' = copy[s] - Price
  /\ ledger' = ledger - Price
  /\ charges' = charges + 1
  /\ Done(s)
  /\ UNCHANGED writes

\* the panel did the reset, then its answer, the process or the commit was lost
ResetIsRolledBack(s) ==
  /\ Clicked(s)
  /\ copy[s] >= Price
  /\ resets < MaxResets
  /\ resets' = resets + 1
  /\ Done(s)
  /\ UNCHANGED <<wallet, ledger, charges, writes>>

\* top-ups, bonuses and charges of invoices: they read the row under its lock
OthersWrite(d) ==
  /\ writes < MaxWrites
  /\ wallet + d >= 0
  /\ writes' = writes + 1
  /\ wallet' = wallet + d
  /\ ledger' = ledger + d
  /\ UNCHANGED <<charges, resets, copy>>

ResetNext ==
  \/ \E s \in Sessions :
       LoadUser(s) \/ GiveUp(s) \/ ResetTrafficPaid(s) \/ ResetIsRolledBack(s)
  \/ \E a \in Amounts : OthersWrite(a) \/ OthersWrite(-a)

ResetSpec == ResetInit /\ [][ResetNext]_resetVars

-----------------------------------------------------------------------------
\* Type invariant: the stale write never leaves a negative balance.
ResetTypeOK ==
  /\ wallet \in Nat
  /\ ledger \in Int
  /\ charges \in Nat
  /\ resets \in 0..MaxResets
  /\ copy \in [Sessions -> Nat \cup {Unread}]
  /\ writes \in 0..MaxWrites

\* Nobody is charged for a reset that the panel did not do.
ChargedOnlyForResets == charges <= resets

\* What the comment on the locks says of concurrent clicks: the balance is written
\* off safely, so what is left is what the transactions rows add up to.
WriteOffIsSafe == wallet = InitBalance + ledger
=============================================================================
