------------------------------ MODULE Payments ------------------------------
(***************************************************************************)
(* The invoice engine: PaymentService in                                   *)
(* src/app/services/payment_engine.py with the bot handlers, the webhook,  *)
(* the polling job and the web console that call it, and the external      *)
(* payment provider and VPN panel it talks to.                             *)
(*                                                                         *)
(* Every operation locks its invoice row, then the user row, and holds     *)
(* both until its transaction ends, so a locked operation is one action:   *)
(* what it may do is the choice of how its transaction ends.               *)
(*   - the webhook, the polling job and the console drop the session when  *)
(*     an exception is raised: the transaction is rolled back;             *)
(*   - the bot handlers catch the exception and return, and                *)
(*     DbSessionMiddleware then COMMITS what had been done before it.      *)
(* Calls to the panel are outside the transaction: what they did stays.    *)
(* The console reads the invoice before it locks it, and SQLAlchemy does   *)
(* not refresh a loaded object, so it works on the copy it read first.     *)
(*                                                                         *)
(* A purpose stands for how the engine treats it: device_topup is charged  *)
(* and applied like topup.  A provider transaction is named after its      *)
(* invoice: the engine refuses to bind a second one.                       *)
(***************************************************************************)
EXTENDS Integers, FiniteSets, FiniteSetsExt

CONSTANTS Users, NoUser,
          Invoices,      \* invoice ids, a finite set of numbers: the bound on creations
          Sessions,      \* concurrent console requests
          Purposes,      \* purposes that are bought
          Price,         \* [Purposes -> price]
          InitBalance,   \* [Users -> balance]
          Inviter,       \* [Users -> who invited the user, or NoUser]
          InviterBonus, InvitedBonus,
          PollLimit,     \* how many pending invoices the polling job reads (100)
          Faults         \* what the environment may do wrong: provider, panel, crash

AllPurposes == {"tariff", "topup", "balance_topup"}
Statuses == {"pending", "applying", "consumed", "cancelled"}

ASSUME UsersAssumption == NoUser \notin Users /\ IsFiniteSet(Users)
ASSUME InvoicesAssumption == Invoices \subseteq Nat /\ IsFiniteSet(Invoices)
ASSUME PurposesAssumption == Purposes \subseteq AllPurposes
ASSUME PriceAssumption == Price \in [Purposes -> Nat \ {0}]
ASSUME BalanceAssumption == InitBalance \in [Users -> Nat]
ASSUME InviterAssumption == Inviter \in [Users -> Users \cup {NoUser}]
ASSUME NobodyInvitesSelf == \A u \in Users : Inviter[u] # u
ASSUME BonusAssumption == InviterBonus \in Nat /\ InvitedBonus \in Nat
ASSUME PollLimitAssumption == PollLimit \in Nat \ {0}
ASSUME FaultsAssumption == Faults \subseteq {"provider", "panel", "crash"}

VARIABLES
  inv,        \* invoices: status, owner, purpose, amount, balance_used, has external id
  keyed,      \* invoices whose idempotency_key a click in this minute would collide with
  wallet,     \* users.balance
  ledger,     \* per user, the sum of the transactions rows that concern the balance
  firstPaid,  \* users with first_paid_at
  activated,  \* invited users whose referral is_activated
  rows,       \* per invoice: balance debits, balance credits, outbox receipts
  approved,   \* invoices with an approve_invoice audit row
  prov,       \* provider: status of the transaction of each invoice
  provAmount, \* provider: the amount it asks for
  collected,  \* provider: transactions for which money was received
  notices,    \* status reports on their way: webhooks and polled snapshots
  served,     \* panel: invoices for which the service was provided
  view        \* console requests: the invoice read before the lock

money == <<wallet, ledger, firstPaid, activated>>
provider == <<prov, provAmount, collected, notices>>
vars == <<inv, keyed, money, rows, approved, provider, served, view>>

Invoice == [st : Statuses \cup {"none"}, user : Users \cup {NoUser},
            purpose : AllPurposes \cup {"none"}, amt : Nat, bal : Nat, ext : BOOLEAN]
NoInvoice == [st |-> "none", user |-> NoUser, purpose |-> "none",
              amt |-> 0, bal |-> 0, ext |-> FALSE]
Payable(v) == v.amt - v.bal
Idle == [kind |-> "idle", id |-> 0, copy |-> NoInvoice, seen |-> "none"]

Init ==
  /\ inv = [i \in Invoices |-> NoInvoice]
  /\ keyed = {}
  /\ wallet = InitBalance
  /\ ledger = [u \in Users |-> 0]
  /\ firstPaid = {}
  /\ activated = {}
  /\ rows = [i \in Invoices |-> [debits |-> 0, credits |-> 0, receipts |-> 0]]
  /\ approved = {}
  /\ prov = [i \in Invoices |-> "none"]
  /\ provAmount = [i \in Invoices |-> 0]
  /\ collected = {}
  /\ notices = {}
  /\ served = {}
  /\ view = [s \in Sessions |-> Idle]

-----------------------------------------------------------------------------
(* _consume_paid_invoice, on the copy v of invoice i that the session holds *)

\* subtract_balance never goes below zero
Subtract(b, x) == IF b > x THEN b - x ELSE 0

\* mutant: the balance is not checked again when the invoice is consumed
BalanceIsTrusted(v) == TRUE
BalanceCovers(v) == v.bal <= wallet[v.user]

FirstTariff(v) == v.purpose = "tariff" /\ v.user \notin firstPaid

Activates(v) ==
  /\ FirstTariff(v)
  /\ Inviter[v.user] # NoUser
  /\ v.user \notin activated

\* what the invoice adds to the balance of u: a top-up, and both referral bonuses
Gain(u, v) ==
  (IF u = v.user /\ v.purpose = "balance_topup" THEN Payable(v) ELSE 0)
  + (IF Activates(v) /\ u = Inviter[v.user] THEN InviterBonus ELSE 0)
  + (IF Activates(v) /\ u = v.user THEN InvitedBonus ELSE 0)

Spend(u, v) == IF u = v.user THEN v.bal ELSE 0

\* mutant: _grant_bonus does not set is_activated
ChargeForgetsReferral(i, v) ==
  /\ wallet' = [u \in Users |-> Subtract(wallet[u], Spend(u, v)) + Gain(u, v)]
  /\ ledger' = [u \in Users |-> ledger[u] - Spend(u, v) + Gain(u, v)]
  /\ firstPaid' = IF FirstTariff(v) THEN firstPaid \cup {v.user} ELSE firstPaid
  /\ UNCHANGED activated

Charge(i, v) ==
  /\ wallet' = [u \in Users |-> Subtract(wallet[u], Spend(u, v)) + Gain(u, v)]
  /\ ledger' = [u \in Users |-> ledger[u] - Spend(u, v) + Gain(u, v)]
  /\ firstPaid' = IF FirstTariff(v) THEN firstPaid \cup {v.user} ELSE firstPaid
  /\ activated' = IF Activates(v) THEN activated \cup {v.user} ELSE activated

DebitRow(v) == IF v.bal > 0 THEN 1 ELSE 0
CreditRow(v) == IF v.purpose = "balance_topup" /\ Payable(v) > 0 THEN 1 ELSE 0

\* mutant: the outbox message has no correlation_key
RecordAnnouncesAgain(i, v, receipt) ==
  rows' = [rows EXCEPT ![i] =
             [debits |-> @.debits + DebitRow(v),
              credits |-> @.credits + CreditRow(v),
              receipts |-> @.receipts + receipt]]

\* the transactions rows; receipt = 1 also enqueues the outbox message, whose
\* correlation_key is unique
Record(i, v, receipt) ==
  rows' = [rows EXCEPT ![i] =
             [debits |-> @.debits + DebitRow(v),
              credits |-> @.credits + CreditRow(v),
              receipts |-> IF @.receipts = 0 THEN receipt ELSE @.receipts]]

UsesPanel(v) == v.purpose # "balance_topup"
Serve(i, v) == served' = IF UsesPanel(v) THEN served \cup {i} ELSE served
SetStatus(i, st) == inv' = [inv EXCEPT ![i].st = st]

Settle(i, v) ==
  /\ BalanceCovers(v)
  /\ Charge(i, v)
  /\ Record(i, v, 1)
  /\ Serve(i, v)
  /\ SetStatus(i, "consumed")

\* The balance no longer covers the invoice.  The bot's transaction commits the
\* applying mark; elsewhere it is rolled back, which changes nothing.
RefusedInBot(i, v) ==
  /\ ~BalanceCovers(v)
  /\ SetStatus(i, "applying")
  /\ UNCHANGED <<money, rows, served>>

\* The panel answers with an error, having done the work or not.
PanelFails(i, v) ==
  /\ "panel" \in Faults
  /\ UsesPanel(v)
  /\ BalanceCovers(v)
  /\ Serve(i, v) \/ UNCHANGED served

PanelFailsInBot(i, v) ==
  /\ PanelFails(i, v)
  /\ Charge(i, v)
  /\ Record(i, v, 0)
  /\ SetStatus(i, "applying")

PanelFailsRolledBack(i, v) ==
  /\ PanelFails(i, v)
  /\ UNCHANGED <<inv, money, rows>>

\* mutant: the charge is committed before the panel is called
CrashAfterCharge(i, v) ==
  /\ "crash" \in Faults
  /\ UsesPanel(v)
  /\ BalanceCovers(v)
  /\ Charge(i, v)
  /\ Record(i, v, 0)
  /\ SetStatus(i, "applying")
  /\ UNCHANGED served

\* The process dies, or the commit fails, after the panel did the work.
CrashAfterService(i, v) ==
  /\ "crash" \in Faults
  /\ UsesPanel(v)
  /\ BalanceCovers(v)
  /\ Serve(i, v)
  /\ UNCHANGED <<inv, money, rows>>

ConsumeInBot(i) ==
  LET v == inv[i] IN
  Settle(i, v) \/ RefusedInBot(i, v) \/ PanelFailsInBot(i, v) \/ CrashAfterService(i, v)

RolledBack(i, v) == PanelFailsRolledBack(i, v) \/ CrashAfterService(i, v)

-----------------------------------------------------------------------------
(* The handlers of the bot                                                 *)

Unused == {i \in Invoices : inv[i].st = "none"}
Fresh(i) == i \in Unused /\ \A j \in Unused : i <= j
NewInvoice(v, bal, ext) == [v EXCEPT !.st = "pending", !.bal = bal, !.ext = ext]

\* _refresh_provider_invoice for a row that asks for amount: nothing to pay,
\* a transaction is created, or the provider fails and the bot commits anyway
Ask(i, amount, ext) ==
  \/ /\ amount = 0
     /\ ext = FALSE
     /\ UNCHANGED provider
  \/ /\ amount > 0
     /\ ext = TRUE
     /\ prov' = [prov EXCEPT ![i] = "pending"]
     /\ provAmount' = [provAmount EXCEPT ![i] = amount]
     /\ UNCHANGED <<collected, notices>>
  \/ /\ amount > 0
     /\ "provider" \in Faults
     /\ ext = FALSE
     /\ UNCHANGED provider

\* the unique index on idempotency_key: the same purchase in the same minute
Duplicates(u, p) == {j \in keyed : inv[j].user = u /\ inv[j].purpose = p}

\* create_*_invoice
CreateInvoice(u, p) ==
  /\ Duplicates(u, p) = {}
  /\ \E i \in Invoices, ext \in BOOLEAN :
       /\ Fresh(i)
       /\ Ask(i, Price[p], ext)
       /\ inv' = [inv EXCEPT ![i] = [st |-> "pending", user |-> u, purpose |-> p,
                                     amt |-> Price[p], bal |-> 0, ext |-> ext]]
       /\ keyed' = keyed \cup {i}
  /\ UNCHANGED <<money, rows, approved, served, view>>

\* the next bucket of the idempotency key
NextMinute ==
  /\ keyed # {}
  /\ keyed' = {}
  /\ UNCHANGED <<inv, money, rows, approved, provider, served, view>>

Smaller(a, b) == IF a <= b THEN a ELSE b
ToggledBalance(v) == IF v.bal > 0 THEN 0 ELSE Smaller(wallet[v.user], v.amt)

\* mutant: the link is kept when the amount changes
RecalculateUnderLink(i) ==
  /\ inv[i].ext
  /\ inv' = [inv EXCEPT ![i].bal = ToggledBalance(inv[i])]
  /\ UNCHANGED <<keyed, provider>>

\* toggle_balance when the payer already has a payment link: the invoice is
\* replaced by a clone without a key
Reissue(i) ==
  LET v == inv[i] nb == ToggledBalance(v) IN
  /\ v.ext
  /\ nb # v.bal
  /\ \E k \in Invoices, ext \in BOOLEAN :
       /\ Fresh(k)
       /\ Ask(k, v.amt - nb, ext)
       /\ inv' = [inv EXCEPT ![i].st = "cancelled", ![k] = NewInvoice(v, nb, ext)]
  /\ keyed' = keyed \ {i}

Recalculate(i) ==
  LET v == inv[i] nb == ToggledBalance(v) IN
  /\ ~v.ext
  /\ \E ext \in BOOLEAN :
       /\ Ask(i, v.amt - nb, ext)
       /\ inv' = [inv EXCEPT ![i] = NewInvoice(v, nb, ext)]
  /\ UNCHANGED keyed

ToggleBalance(i) ==
  /\ inv[i].st = "pending"
  /\ inv[i].purpose # "balance_topup"
  /\ Reissue(i) \/ Recalculate(i)
  /\ UNCHANGED <<money, rows, approved, served, view>>

\* mutant: the key of a cancelled invoice is not released
CancelKeepsKey(i) ==
  /\ SetStatus(i, "cancelled")
  /\ UNCHANGED <<keyed, money, rows, served>>

Cancel(i) ==
  /\ SetStatus(i, "cancelled")
  /\ keyed' = keyed \ {i}
  /\ UNCHANGED <<money, rows, served>>

\* _process_locked_invoice asks for a payment link the invoice does not have yet,
\* and refuses: a transaction that was just created is not paid
AskForLink(i) ==
  /\ inv[i].st = "pending"
  /\ ~inv[i].ext
  /\ Payable(inv[i]) > 0
  /\ Ask(i, Payable(inv[i]), TRUE)
  /\ inv' = [inv EXCEPT ![i].ext = TRUE]
  /\ UNCHANGED <<keyed, money, rows, served>>

\* mutant: a payment link is taken for a payment
MayConsumeUnpaid(i) ==
  \/ inv[i].st = "applying"
  \/ inv[i].st = "pending" /\ Payable(inv[i]) = 0
  \/ inv[i].st = "pending" /\ inv[i].ext

\* _process_locked_invoice, when the bot asks for the provider's status itself
MayConsume(i) ==
  \/ inv[i].st = "applying"
  \/ inv[i].st = "pending" /\ Payable(inv[i]) = 0
  \/ inv[i].st = "pending" /\ inv[i].ext /\ prov[i] = "paid"

LearnsCancelled(i) == inv[i].st = "pending" /\ inv[i].ext /\ prov[i] = "cancelled"

\* process_invoice_for_user, under the confirm button
ConfirmInvoice(i) ==
  /\ \/ AskForLink(i)
     \/ /\ LearnsCancelled(i)
        /\ Cancel(i)
        /\ UNCHANGED provider
     \/ /\ MayConsume(i)
        /\ ConsumeInBot(i)
        /\ UNCHANGED <<keyed, provider>>
  /\ UNCHANGED <<approved, view>>

\* cancel_invoice, under the cancel button
CancelInvoice(i) ==
  /\ inv[i].st = "pending"
  /\ Cancel(i)
  /\ UNCHANGED <<approved, provider, view>>

-----------------------------------------------------------------------------
(* process_provider_callback, on the copy v of invoice i: the webhook and the *)
(* polling job read it under the lock (v = inv[i]), the console before it.    *)

\* mutant: a late payment revives a cancelled invoice
OpenOrCancelled(v) == v.st \in {"pending", "applying", "cancelled"}

Open(v) == v.st \in {"pending", "applying"}

CallbackCancels(i, v, status) ==
  /\ Open(v)
  /\ status = "cancelled"
  /\ Cancel(i)

CallbackConsumes(v, status) ==
  \/ Open(v) /\ status = "paid"
  \/ v.st = "applying" /\ status = "pending"

CallbackSettles(i, v, status) ==
  /\ CallbackConsumes(v, status)
  /\ Settle(i, v)
  /\ UNCHANGED keyed

CallbackFails(i, v, status) ==
  /\ CallbackConsumes(v, status)
  /\ RolledBack(i, v)
  /\ UNCHANGED keyed

Callback(i, v, status) ==
  CallbackCancels(i, v, status) \/ CallbackSettles(i, v, status) \/ CallbackFails(i, v, status)

ProviderCallback(n) ==
  /\ n \in notices
  /\ inv[n.id].ext
  /\ Callback(n.id, inv[n.id], n.status)
  /\ UNCHANGED <<approved, provider, view>>

\* list_pending_by_provider: the oldest PollLimit of the pending invoices that have a
\* link; ids grow with the date of creation
Linked(i) == inv[i].st = "pending" /\ inv[i].ext
Behind(i) == Cardinality({j \in Invoices : j < i /\ Linked(j)}) >= PollLimit

\* mutant: only invoices of the current minute are polled
PollRecent(i) ==
  /\ i \in keyed
  /\ Linked(i) /\ ~Behind(i)
  /\ prov[i] \in {"paid", "cancelled"}
  /\ notices' = notices \cup {[id |-> i, status |-> prov[i]]}
  /\ UNCHANGED <<inv, keyed, money, rows, approved, prov, provAmount, collected, served, view>>

\* process_pending_platega_invoices: the status it fetched for an invoice of the list.
\* What it fetches for one that has left the list since is like a webhook.
PollPending(i) ==
  /\ Linked(i) /\ ~Behind(i)
  /\ prov[i] \in {"paid", "cancelled"}
  /\ notices' = notices \cup {[id |-> i, status |-> prov[i]]}
  /\ UNCHANGED <<inv, keyed, money, rows, approved, prov, provAmount, collected, served, view>>

-----------------------------------------------------------------------------
(* The payment provider                                                    *)

MoveProvider(i, from, to) ==
  /\ prov[i] = from
  /\ prov' = [prov EXCEPT ![i] = to]
  /\ UNCHANGED <<inv, keyed, money, rows, approved, provAmount, notices, served, view>>

Pay(i) == MoveProvider(i, "pending", "paid") /\ collected' = collected \cup {i}
Expire(i) == MoveProvider(i, "pending", "cancelled") /\ UNCHANGED collected
Chargeback(i) == MoveProvider(i, "paid", "cancelled") /\ UNCHANGED collected

\* a webhook: it may arrive late, again, or never
SendWebhook(i) ==
  /\ prov[i] # "none"
  /\ notices' = notices \cup {[id |-> i, status |-> prov[i]]}
  /\ UNCHANGED <<inv, keyed, money, rows, approved, prov, provAmount, collected, served, view>>

-----------------------------------------------------------------------------
(* The web console                                                         *)

Console == {"approve", "cancel", "refresh"}

\* admin_invoice_approve, _cancel, _refresh: the read before the lock
OpenConsole(s, i, kind) ==
  /\ view[s] = Idle
  /\ inv[i].st # "none"
  /\ kind = "refresh" => inv[i].ext
  /\ view' = [view EXCEPT ![s] = [kind |-> kind, id |-> i, copy |-> inv[i], seen |-> "none"]]
  /\ UNCHANGED <<inv, keyed, money, rows, approved, provider, served>>

CloseConsole(s) == view' = [view EXCEPT ![s] = Idle]

\* admin_invoice_refresh asks the provider before it locks the invoice
Diagnose(s) ==
  /\ view[s].kind = "refresh"
  /\ view[s].seen = "none"
  /\ view' = [view EXCEPT ![s].seen = prov[view[s].id]]
  /\ UNCHANGED <<inv, keyed, money, rows, approved, provider, served>>

\* the request ends without effect: refused, or the process dies
GiveUp(s) ==
  /\ view[s] # Idle
  /\ CloseConsole(s)
  /\ UNCHANGED <<inv, keyed, money, rows, approved, provider, served>>

RefreshAsAdmin(s) ==
  /\ view[s].seen \in {"paid", "cancelled"}
  /\ Callback(view[s].id, view[s].copy, view[s].seen)
  /\ CloseConsole(s)
  /\ UNCHANGED <<approved, provider>>

MayApprove(v) == v.st \notin {"cancelled", "consumed"}
MayCancel(v) == v.st \notin {"cancelled", "consumed", "applying"}

\* approve_invoice_as_admin
ApproveAsAdmin(s) ==
  LET i == view[s].id v == view[s].copy IN
  /\ view[s].kind = "approve"
  /\ MayApprove(v)
  /\ \/ Settle(i, v) /\ approved' = approved \cup {i}
     \/ RolledBack(i, v) /\ UNCHANGED approved
  /\ CloseConsole(s)
  /\ UNCHANGED <<keyed, provider>>

\* cancel_invoice_as_admin
CancelAsAdmin(s) ==
  /\ view[s].kind = "cancel"
  /\ MayCancel(view[s].copy)
  /\ Cancel(view[s].id)
  /\ CloseConsole(s)
  /\ UNCHANGED <<approved, provider>>

\* admin_invoices_bulk_cancel_stale reads the pending invoices under their locks;
\* the cutoff date is the newest invoice it takes
CancelStale(newest) ==
  LET stale == {i \in Invoices : i <= newest /\ inv[i].st = "pending"} IN
  /\ stale # {}
  /\ inv' = [i \in Invoices |->
               IF i \in stale THEN [inv[i] EXCEPT !.st = "cancelled"] ELSE inv[i]]
  /\ keyed' = keyed \ stale
  /\ UNCHANGED <<money, rows, approved, provider, served, view>>

-----------------------------------------------------------------------------
Bot ==
  \/ \E u \in Users, p \in Purposes : CreateInvoice(u, p)
  \/ \E i \in Invoices : ToggleBalance(i) \/ ConfirmInvoice(i) \/ CancelInvoice(i)

Provider == \E i \in Invoices : Pay(i) \/ Expire(i) \/ Chargeback(i) \/ SendWebhook(i)

Jobs ==
  \/ \E i \in Invoices : PollPending(i)
  \/ \E n \in notices : ProviderCallback(n)

Admin ==
  \E s \in Sessions :
    \/ \E i \in Invoices, kind \in Console : OpenConsole(s, i, kind)
    \/ Diagnose(s) \/ GiveUp(s)
    \/ RefreshAsAdmin(s) \/ ApproveAsAdmin(s) \/ CancelAsAdmin(s)

Cleanup == \E newest \in Invoices : CancelStale(newest)

Next == Cleanup \/ Bot \/ NextMinute \/ Provider \/ Jobs \/ Admin

Spec == Init /\ [][Next]_vars

-----------------------------------------------------------------------------
(* Properties                                                              *)

ViewType == [kind : Console \cup {"idle"}, id : Invoices \cup {0}, copy : Invoice,
             seen : {"none", "pending", "paid", "cancelled"}]

\* Type invariant.
TypeOK ==
  /\ inv \in [Invoices -> Invoice]
  /\ keyed \subseteq Invoices
  /\ wallet \in [Users -> Nat]
  /\ ledger \in [Users -> Int]
  /\ firstPaid \subseteq Users
  /\ activated \subseteq Users
  /\ rows \in [Invoices -> [debits : Nat, credits : Nat, receipts : 0..1]]
  /\ approved \subseteq Invoices
  /\ prov \in [Invoices -> {"none", "pending", "paid", "cancelled"}]
  /\ provAmount \in [Invoices -> Nat]
  /\ collected \subseteq Invoices
  /\ notices \subseteq [id : Invoices, status : {"pending", "paid", "cancelled"}]
  /\ served \subseteq Invoices
  /\ view \in [Sessions -> ViewType]

\* No invoice is being applied or consumed unless its money came in: the provider
\* collected it, the balance covers all of it, or an admin vouched for it.
PaidBeforeService ==
  \A i \in Invoices :
    inv[i].st \in {"applying", "consumed"} =>
      i \in collected \cup approved \/ Payable(inv[i]) = 0

\* The provider asks for exactly what the invoice says is left to pay, through
\* every toggle of the balance: a link is never reused for another amount.
ProviderAmountMatches ==
  \A i \in Invoices :
    inv[i].ext => prov[i] # "none" /\ provAmount[i] = Payable(inv[i])

\* The balance is the sum of the transactions shown to the user: subtract_balance
\* clamps at zero, so a charge that was not covered would lose the difference.
LedgerExplainsBalance == \A u \in Users : wallet[u] = InitBalance[u] + ledger[u]

\* Two clicks in one minute never leave two invoices, and a cancelled invoice
\* never keeps the key that would refuse the next click.
OneLivePerClick ==
  \A i \in keyed :
    /\ inv[i].st # "cancelled"
    /\ \A j \in keyed \ {i} : <<inv[i].user, inv[i].purpose>> # <<inv[j].user, inv[j].purpose>>

Moved(i) == rows[i].credits * Payable(inv[i]) - rows[i].debits * inv[i].bal

\* What the users hold is what they started with, plus what the recorded top-ups
\* brought, minus what the recorded debits took, plus one bonus per activated
\* referral: no path charges, credits or rewards without its row, or twice.
MoneyIsConserved ==
  MapThenSumSet(LAMBDA u : wallet[u] - InitBalance[u], Users)
    = MapThenSumSet(Moved, Invoices) + Cardinality(activated) * (InviterBonus + InvitedBonus)

Entitled(i) == UsesPanel(inv[i]) => i \in served

\* An invoice that is consumed was charged, credited, served and announced exactly
\* once; one that is not has left no trace on the balance: whatever the order of
\* confirmations, webhooks, polls and deaths of the process.
AllOrNothing ==
  \A i \in Invoices :
    IF inv[i].st = "consumed"
    THEN /\ Entitled(i)
         /\ rows[i] = [debits |-> DebitRow(inv[i]), credits |-> CreditRow(inv[i]), receipts |-> 1]
    ELSE rows[i] = [debits |-> 0, credits |-> 0, receipts |-> 0]

\* Without console requests on one invoice, an invoice that is consumed or cancelled never changes
\* again: no late webhook, poll or click moves it.
SettledIsFinal ==
  [][\A i \in Invoices : inv[i].st \in {"consumed", "cancelled"} => inv'[i] = inv[i]]_vars

PollingSettles(i) ==
  /\ inv[i].st = "pending"
  /\ \E n \in notices :
       /\ n.id = i
       /\ inv[i].ext
       /\ CallbackSettles(i, inv[i], n.status) \/ CallbackCancels(i, inv[i], n.status)
  /\ UNCHANGED <<approved, provider, view>>

\* The job runs for ever and goes through its list, and its processing of an invoice
\* that stays pending is not cut off every time.  Nobody has to press a button or send
\* a webhook, and the provider need not end the transactions nobody pays.
FairSpec ==
  /\ Spec
  /\ \A i \in Invoices : WF_vars(PollPending(i)) /\ WF_vars(PollingSettles(i))

Due(i) == prov[i] = "paid" /\ Linked(i)

\* Polling alone brings every paid invoice to its end, unless the balance meant to
\* cover the rest is gone, or PollLimit older invoices stay pending for ever before
\* it: those the job reads every time, and never the newer one.
PaidIsSettled ==
  \A i \in Invoices :
    Due(i) ~> \/ inv[i].st \in {"consumed", "cancelled"}
              \/ inv[i].st # "none" /\ ~BalanceCovers(inv[i])
              \/ []Behind(i)

\* What the documents say of double clicks and repeated callbacks: an invoice is
\* charged to the balance once.
ChargedOnce == \A i \in Invoices : rows[i].debits <= 1

\* What the comment on the bulk cancellation says, that a pending invoice can safely
\* be cancelled: nothing the provider keeps the money for ends up cancelled.
CancelledWasNotPaid ==
  \A i \in Invoices :
    inv[i].st = "cancelled" /\ i \in collected => prov[i] = "cancelled"

\* What approve_invoice_as_admin checks before it acts: a cancelled invoice stays so.
CancelledIsNotApproved ==
  [][\A i \in Invoices : inv[i].st = "cancelled" => inv'[i].st = "cancelled"]_vars
=============================================================================
