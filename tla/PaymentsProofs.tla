--------------------------- MODULE PaymentsProofs ---------------------------
(***************************************************************************)
(* Theorems about the invoice engine, for any number of users, invoices    *)
(* and console requests, any prices and bonuses, and every fault.          *)
(*                                                                         *)
(* None of the properties is inductive: a console request acts on the copy *)
(* it read long ago, and a webhook on a status that was true once.  What   *)
(* makes them safe is what such a memory still guarantees: a copy is of an *)
(* invoice that exists and never asks for more balance than the price, and *)
(* "paid" was said only of a transaction that collected money.             *)
(***************************************************************************)
EXTENDS Payments, Sums, TLAPS

Sound(v) ==
  /\ v \in Invoice
  /\ v.bal <= v.amt
  /\ v.st # "none" => v.user \in Users

InvOK == inv \in [Invoices -> Invoice] /\ \A i \in Invoices : Sound(inv[i])

MoneyOK ==
  /\ wallet \in [Users -> Nat]
  /\ ledger \in [Users -> Int]
  /\ firstPaid \subseteq Users
  /\ activated \subseteq Users
  /\ LedgerExplainsBalance

RowsOK == rows \in [Invoices -> [debits : Nat, credits : Nat, receipts : 0..1]]

SetsOK == keyed \subseteq Invoices /\ approved \subseteq Invoices /\ served \subseteq Invoices

ProvOK ==
  /\ prov \in [Invoices -> {"none", "pending", "paid", "cancelled"}]
  /\ provAmount \in [Invoices -> Nat]
  /\ collected \subseteq Invoices
  /\ notices \subseteq [id : Invoices, status : {"pending", "paid", "cancelled"}]
  /\ \A i \in Invoices : prov[i] = "paid" => i \in collected
  /\ \A n \in notices : n.status = "paid" => n.id \in collected

ViewOK ==
  /\ view \in [Sessions -> ViewType]
  /\ \A s \in Sessions :
       /\ Sound(view[s].copy)
       /\ view[s].kind # "idle" => /\ view[s].id \in Invoices
                                   /\ view[s].copy.st # "none"
                                   /\ inv[view[s].id].st # "none"
       /\ view[s].seen # "none" => view[s].kind = "refresh"
       /\ view[s].seen = "paid" => view[s].id \in collected

IInv ==
  /\ InvOK /\ MoneyOK /\ RowsOK /\ SetsOK /\ ProvOK /\ ViewOK
  /\ PaidBeforeService /\ ProviderAmountMatches

LEMMA InvGivesTypes == IInv => TypeOK
  BY DEF IInv, TypeOK, InvOK, MoneyOK, RowsOK, SetsOK, ProvOK, ViewOK

LEMMA NoInvoiceSound == Sound(NoInvoice)
  BY DEF Sound, NoInvoice, Invoice, Statuses, AllPurposes

LEMMA IdleFits == Idle \in ViewType /\ Sound(Idle.copy)
  BY NoInvoiceSound DEF Idle, ViewType, Sound

LEMMA InitInv == Init => IInv
<1> SUFFICES ASSUME Init PROVE IInv
  OBVIOUS
<1> USE DEF Init
<1>1. InvOK
  BY NoInvoiceSound DEF InvOK, Sound
<1>2. MoneyOK
  BY BalanceAssumption DEF MoneyOK, LedgerExplainsBalance
<1>3. RowsOK /\ SetsOK
  BY DEF RowsOK, SetsOK
<1>4. ProvOK
  BY DEF ProvOK
<1>5. ViewOK
  BY IdleFits DEF ViewOK, Idle
<1>6. PaidBeforeService /\ ProviderAmountMatches
  BY DEF PaidBeforeService, ProviderAmountMatches, NoInvoice
<1> QED
  BY <1>1, <1>2, <1>3, <1>4, <1>5, <1>6 DEF IInv

-----------------------------------------------------------------------------
(* Consumption                                                             *)

\* What an invoice brings is never negative: it never uses more than its price.
LEMMA GainType ==
  ASSUME NEW v, Sound(v), NEW u
  PROVE Gain(u, v) \in Nat
<1>1. Payable(v) \in Nat
  BY DEF Sound, Payable, Invoice
<1> QED
  BY <1>1, BonusAssumption DEF Gain

\* A charge that the balance covers is explained by its rows.
LEMMA ChargeMoney ==
  ASSUME MoneyOK, NEW v, Sound(v), v.st # "none", NEW i, BalanceCovers(v), Charge(i, v)
  PROVE MoneyOK'
<1> USE DEF MoneyOK, Charge
<1>1. v.user \in Users /\ v.bal \in Nat /\ v.bal <= wallet[v.user]
  BY DEF Sound, Invoice, BalanceCovers
<1>2. \A u \in Users : Subtract(wallet[u], Spend(u, v)) \in Nat
                       /\ Subtract(wallet[u], Spend(u, v)) = wallet[u] - Spend(u, v)
                       /\ Spend(u, v) \in Nat
  BY <1>1 DEF Subtract, Spend
<1>3. \A u \in Users : Gain(u, v) \in Nat
  BY GainType
<1>4. /\ \A u \in Users : wallet'[u] = wallet[u] - Spend(u, v) + Gain(u, v)
      /\ \A u \in Users : ledger'[u] = ledger[u] - Spend(u, v) + Gain(u, v)
  BY <1>2, <1>3
<1>5. wallet' \in [Users -> Nat] /\ ledger' \in [Users -> Int]
  BY <1>2, <1>3
<1>6. LedgerExplainsBalance'
  BY <1>2, <1>3, <1>4, BalanceAssumption DEF LedgerExplainsBalance
<1>7. firstPaid' \subseteq Users /\ activated' \subseteq Users
  BY <1>1
<1> QED
  BY <1>5, <1>6, <1>7

LEMMA RecordType ==
  ASSUME RowsOK, NEW v, NEW i \in Invoices, NEW r \in 0..1, Record(i, v, r)
  PROVE RowsOK'
<1>1. DebitRow(v) \in Nat /\ CreditRow(v) \in Nat
  BY DEF DebitRow, CreditRow
<1> QED
  BY <1>1 DEF RowsOK, Record

Outcome(i, v) ==
  Settle(i, v) \/ RefusedInBot(i, v) \/ PanelFailsInBot(i, v) \/ RolledBack(i, v)

LEMMA OutcomeEffects ==
  ASSUME MoneyOK, RowsOK, served \subseteq Invoices,
         NEW i \in Invoices, NEW v, Sound(v), v.st # "none", Outcome(i, v)
  PROVE MoneyOK' /\ RowsOK' /\ (served \subseteq Invoices)'
<1>1. CASE Settle(i, v)
  BY <1>1, ChargeMoney, RecordType DEF Settle, Serve
<1>2. CASE RefusedInBot(i, v)
  BY <1>2 DEF RefusedInBot, money, MoneyOK, RowsOK, LedgerExplainsBalance
<1>3. CASE PanelFailsInBot(i, v)
  BY <1>3, ChargeMoney, RecordType DEF PanelFailsInBot, PanelFails, Serve
<1>4. CASE RolledBack(i, v)
  BY <1>4 DEF RolledBack, PanelFailsRolledBack, PanelFails, CrashAfterService, Serve,
              money, MoneyOK, RowsOK, LedgerExplainsBalance
<1> QED
  BY <1>1, <1>2, <1>3, <1>4 DEF Outcome

-----------------------------------------------------------------------------
(* Steps that only change the status of an invoice, and what the console   *)
(* remembers across any step                                               *)

LEMMA StatusStep ==
  ASSUME InvOK, NEW i \in Invoices, inv[i].st # "none", NEW st \in Statuses, SetStatus(i, st)
  PROVE /\ InvOK'
        /\ \A j \in Invoices :
             /\ inv'[j].st = IF j = i THEN st ELSE inv[j].st
             /\ inv'[j].ext = inv[j].ext
             /\ Payable(inv'[j]) = Payable(inv[j])
<1>1. inv' \in [Invoices -> Invoice]
  BY DEF InvOK, SetStatus, Invoice
<1>2. \A j \in Invoices :
        /\ inv'[j].st = IF j = i THEN st ELSE inv[j].st
        /\ inv'[j].user = inv[j].user
        /\ inv'[j].amt = inv[j].amt
        /\ inv'[j].bal = inv[j].bal
        /\ inv'[j].ext = inv[j].ext
  BY DEF InvOK, SetStatus, Invoice
<1>3. \A j \in Invoices : Sound(inv'[j])
  BY <1>1, <1>2 DEF InvOK, Sound
<1> QED
  BY <1>1, <1>2, <1>3 DEF InvOK, Payable

LEMMA NewStatusIsReal == "none" \notin Statuses
  BY DEF Statuses

LEMMA ViewKept ==
  ASSUME ViewOK, UNCHANGED view, collected \subseteq collected',
         \A j \in Invoices : inv[j].st # "none" => inv'[j].st # "none"
  PROVE ViewOK'
  BY DEF ViewOK, ViewType

LEMMA ViewClosed ==
  ASSUME ViewOK, NEW s \in Sessions, CloseConsole(s), collected \subseteq collected',
         \A j \in Invoices : inv[j].st # "none" => inv'[j].st # "none"
  PROVE ViewOK'
<1>1. \A t \in Sessions : view'[t] = IF t = s THEN Idle ELSE view[t]
  BY DEF ViewOK, CloseConsole
<1>2. view' \in [Sessions -> ViewType]
  BY IdleFits DEF ViewOK, CloseConsole
<1> QED
  BY <1>1, <1>2, IdleFits DEF ViewOK, Idle

\* What a change of status alone leaves to check.
LEMMA StatusOnly ==
  ASSUME IInv, NEW i \in Invoices, inv[i].st # "none", NEW st \in Statuses, SetStatus(i, st),
         MoneyOK', RowsOK', SetsOK', approved \subseteq approved', UNCHANGED provider,
         st \in {"applying", "consumed"} => i \in collected \cup approved' \/ Payable(inv[i]) = 0,
         UNCHANGED view \/ \E s \in Sessions : CloseConsole(s)
  PROVE IInv'
<1> USE DEF IInv, provider
<1>1. /\ InvOK'
      /\ \A j \in Invoices :
           /\ inv'[j].st = IF j = i THEN st ELSE inv[j].st
           /\ inv'[j].ext = inv[j].ext
           /\ Payable(inv'[j]) = Payable(inv[j])
  BY StatusStep
<1>2. ProvOK'
  BY DEF ProvOK
<1>3. \A j \in Invoices : inv[j].st # "none" => inv'[j].st # "none"
  BY <1>1, NewStatusIsReal
<1>4. ViewOK'
  BY <1>3, ViewKept, ViewClosed
<1>5. PaidBeforeService'
  BY <1>1 DEF PaidBeforeService
<1>6. ProviderAmountMatches'
  BY <1>1 DEF ProviderAmountMatches
<1> QED
  BY <1>1, <1>2, <1>4, <1>5, <1>6

LEMMA CancelInv ==
  ASSUME IInv, NEW i \in Invoices, inv[i].st # "none", Cancel(i),
         UNCHANGED <<approved, provider>>,
         UNCHANGED view \/ \E s \in Sessions : CloseConsole(s)
  PROVE IInv'
<1>1. SetStatus(i, "cancelled") /\ "cancelled" \in Statuses
  BY DEF Cancel, Statuses
<1>2. MoneyOK' /\ RowsOK' /\ SetsOK'
  BY DEF IInv, Cancel, money, MoneyOK, RowsOK, SetsOK, LedgerExplainsBalance
<1> QED
  BY <1>1, <1>2, StatusOnly

\* Nothing but money, rows and the panel's work: a transaction that was rolled back.
LEMMA RolledBackInv ==
  ASSUME IInv, NEW i \in Invoices, NEW v, Sound(v), v.st # "none", RolledBack(i, v),
         UNCHANGED <<keyed, approved, provider>>,
         UNCHANGED view \/ \E s \in Sessions : CloseConsole(s)
  PROVE IInv'
<1> USE DEF IInv
<1>1. MoneyOK' /\ RowsOK' /\ (served \subseteq Invoices)'
  BY OutcomeEffects DEF Outcome, SetsOK
<1>2. UNCHANGED inv
  BY DEF RolledBack, PanelFailsRolledBack, CrashAfterService
<1>3. InvOK' /\ SetsOK' /\ ProvOK'
  BY <1>1, <1>2 DEF InvOK, SetsOK, ProvOK, provider
<1>4. ViewOK'
  BY <1>2, ViewKept, ViewClosed DEF provider
<1>5. PaidBeforeService' /\ ProviderAmountMatches'
  BY <1>2 DEF PaidBeforeService, ProviderAmountMatches, provider
<1> QED
  BY <1>1, <1>3, <1>4, <1>5

LEMMA ConsumeInv ==
  ASSUME IInv, NEW i \in Invoices, inv[i].st # "none", NEW v, Sound(v), v.st # "none",
         Settle(i, v) \/ RefusedInBot(i, v) \/ PanelFailsInBot(i, v),
         approved' \subseteq Invoices, approved \subseteq approved', UNCHANGED <<keyed, provider>>,
         i \in collected \cup approved' \/ Payable(inv[i]) = 0,
         UNCHANGED view \/ \E s \in Sessions : CloseConsole(s)
  PROVE IInv'
<1>1. MoneyOK' /\ RowsOK' /\ (served \subseteq Invoices)'
  BY OutcomeEffects DEF IInv, Outcome, SetsOK
<1>2. SetsOK'
  BY <1>1 DEF IInv, SetsOK
<1>3. PICK st \in {"applying", "consumed"} : SetStatus(i, st)
  BY DEF Settle, RefusedInBot, PanelFailsInBot
<1>4. st \in Statuses
  BY DEF Statuses
<1> QED
  BY <1>1, <1>2, <1>3, <1>4, StatusOnly

-----------------------------------------------------------------------------
(* The handlers                                                            *)

\* What asking the provider for a link does to its side.
LEMMA AskEffects ==
  ASSUME ProvOK, NEW i \in Invoices, NEW amount \in Nat, NEW ext \in BOOLEAN, Ask(i, amount, ext)
  PROVE /\ ProvOK'
        /\ collected' = collected
        /\ \A j \in Invoices \ {i} : prov'[j] = prov[j] /\ provAmount'[j] = provAmount[j]
        /\ ext => prov'[i] # "none" /\ provAmount'[i] = amount
<1>1. CASE UNCHANGED provider /\ ext = FALSE
  BY <1>1 DEF provider, ProvOK
<1>2. CASE /\ ext = TRUE
           /\ prov' = [prov EXCEPT ![i] = "pending"]
           /\ provAmount' = [provAmount EXCEPT ![i] = amount]
           /\ UNCHANGED <<collected, notices>>
  BY <1>2 DEF ProvOK
<1> QED
  BY <1>1, <1>2 DEF Ask

\* A row written whole, pending, with the amount the provider was asked for.
LEMMA WriteInvoice ==
  ASSUME InvOK, ProvOK, PaidBeforeService, ProviderAmountMatches,
         NEW i \in Invoices, NEW v, Sound(v), v.st = "pending",
         NEW w \in [Invoices -> Invoice],
         \A j \in Invoices : Sound(w[j]) /\ (w[j].ext => inv[j].ext)
                             /\ Payable(w[j]) = Payable(inv[j])
                             /\ w[j].st \in {inv[j].st, "cancelled"},
         v.ext \in BOOLEAN, Ask(i, Payable(v), v.ext),
         inv' = [w EXCEPT ![i] = v], UNCHANGED approved
  PROVE InvOK' /\ ProvOK' /\ PaidBeforeService' /\ ProviderAmountMatches'
<1>1. Payable(v) \in Nat
  BY DEF Sound, Invoice, Payable
<1>2. /\ ProvOK'
      /\ collected' = collected
      /\ \A j \in Invoices \ {i} : prov'[j] = prov[j] /\ provAmount'[j] = provAmount[j]
      /\ v.ext => prov'[i] # "none" /\ provAmount'[i] = Payable(v)
  BY <1>1, AskEffects
<1>3. \A j \in Invoices : inv'[j] = IF j = i THEN v ELSE w[j]
  OBVIOUS
<1>4. InvOK'
  BY <1>3 DEF InvOK, Sound
<1>5. PaidBeforeService'
  BY <1>2, <1>3 DEF PaidBeforeService
<1>6. ProviderAmountMatches'
  BY <1>2, <1>3 DEF ProviderAmountMatches
<1> QED
  BY <1>2, <1>4, <1>5, <1>6

LEMMA RestKept ==
  ASSUME IInv, UNCHANGED <<money, rows, approved, served, view>>, keyed' \subseteq Invoices,
         collected \subseteq collected',
         InvOK', ProvOK', PaidBeforeService', ProviderAmountMatches',
         \A j \in Invoices : inv[j].st # "none" => inv'[j].st # "none"
  PROVE IInv'
<1> USE DEF IInv
<1>1. MoneyOK' /\ RowsOK' /\ SetsOK'
  BY DEF MoneyOK, RowsOK, SetsOK, money, LedgerExplainsBalance
<1>2. ViewOK'
  BY ViewKept
<1> QED
  BY <1>1, <1>2

LEMMA CreateInv ==
  ASSUME IInv, NEW u \in Users, NEW p \in Purposes, CreateInvoice(u, p)
  PROVE IInv'
<1> USE DEF IInv
<1>1. PICK i \in Invoices, ext \in BOOLEAN :
        /\ Ask(i, Price[p], ext)
        /\ inv' = [inv EXCEPT ![i] = [st |-> "pending", user |-> u, purpose |-> p,
                                      amt |-> Price[p], bal |-> 0, ext |-> ext]]
        /\ keyed' = keyed \cup {i}
  BY DEF CreateInvoice
<1> DEFINE v == [st |-> "pending", user |-> u, purpose |-> p,
                 amt |-> Price[p], bal |-> 0, ext |-> ext]
<1>2. Sound(v) /\ v.st = "pending" /\ v.ext = ext /\ Payable(v) = Price[p]
  BY PriceAssumption, PurposesAssumption DEF Sound, Invoice, Statuses, Payable
<1>3. inv' = [inv EXCEPT ![i] = v]
  BY <1>1
<1> HIDE DEF v
<1>4. /\ InvOK' /\ ProvOK' /\ PaidBeforeService' /\ ProviderAmountMatches'
      /\ collected' = collected
  <2>1. UNCHANGED approved
    BY DEF CreateInvoice
  <2>2. Ask(i, Payable(v), v.ext) /\ v.ext \in BOOLEAN
    BY <1>1, <1>2
  <2>3. collected' = collected
    BY <1>1 DEF Ask, provider
  <2> QED
    BY <1>2, <1>3, <2>1, <2>2, <2>3, WriteInvoice DEF InvOK
<1>5. \A j \in Invoices : inv[j].st # "none" => inv'[j].st # "none"
  BY <1>2, <1>3 DEF InvOK
<1>6. keyed' \subseteq Invoices /\ UNCHANGED <<money, rows, approved, served, view>>
  BY <1>1 DEF SetsOK, CreateInvoice
<1> QED
  BY <1>4, <1>5, <1>6, RestKept

\* The balance a toggle asks for never exceeds the price.
LEMMA ToggledSound ==
  ASSUME IInv, NEW i \in Invoices, inv[i].st # "none", NEW ext \in BOOLEAN
  PROVE LET v == NewInvoice(inv[i], ToggledBalance(inv[i]), ext)
        IN  /\ Sound(v) /\ v.st = "pending" /\ v.ext = ext
            /\ Payable(v) = inv[i].amt - ToggledBalance(inv[i])
<1> DEFINE b == ToggledBalance(inv[i])
<1>1. Sound(inv[i]) /\ inv[i] \in Invoice
  BY DEF IInv, InvOK
<1>2. b \in Nat /\ b <= inv[i].amt
  BY <1>1 DEF IInv, MoneyOK, Sound, Invoice, ToggledBalance, Smaller
<1> HIDE DEF b
<1> DEFINE v == NewInvoice(inv[i], b, ext)
<1>3. /\ v \in Invoice
      /\ v.st = "pending" /\ v.ext = ext /\ v.bal = b
      /\ v.user = inv[i].user /\ v.amt = inv[i].amt
  BY <1>1, <1>2 DEF NewInvoice, Invoice, Statuses
<1>4. /\ Sound(NewInvoice(inv[i], b, ext))
      /\ NewInvoice(inv[i], b, ext).st = "pending"
      /\ NewInvoice(inv[i], b, ext).ext = ext
      /\ Payable(NewInvoice(inv[i], b, ext)) = inv[i].amt - b
  BY <1>1, <1>2, <1>3 DEF Sound, Payable
<1> QED
  BY <1>4 DEF b

LEMMA ToggleInv ==
  ASSUME IInv, NEW i \in Invoices, ToggleBalance(i)
  PROVE IInv'
<1> USE DEF IInv
<1>1. inv[i].st = "pending" /\ UNCHANGED <<money, rows, approved, served, view>>
  BY DEF ToggleBalance
<1>2. CASE Reissue(i)
  <2>1. PICK k \in Invoices, ext \in BOOLEAN :
          /\ Fresh(k)
          /\ Ask(k, inv[i].amt - ToggledBalance(inv[i]), ext)
          /\ inv' = [inv EXCEPT ![i].st = "cancelled",
                                ![k] = NewInvoice(inv[i], ToggledBalance(inv[i]), ext)]
    BY <1>2 DEF Reissue
  <2> DEFINE v == NewInvoice(inv[i], ToggledBalance(inv[i]), ext)
             w == [inv EXCEPT ![i].st = "cancelled"]
  <2>2. Sound(v) /\ v.st = "pending" /\ v.ext = ext
        /\ Payable(v) = inv[i].amt - ToggledBalance(inv[i])
    BY <1>1, ToggledSound
  <2>3. inv' = [w EXCEPT ![k] = v]
    BY <2>1
  <2>4. /\ w \in [Invoices -> Invoice]
        /\ \A j \in Invoices : Sound(w[j]) /\ w[j].ext = inv[j].ext
                               /\ Payable(w[j]) = Payable(inv[j])
                               /\ w[j].st = IF j = i THEN "cancelled" ELSE inv[j].st
    BY <1>1 DEF InvOK, Sound, Invoice, Payable, Statuses
  <2> HIDE DEF v, w
  <2>5. /\ InvOK' /\ ProvOK' /\ PaidBeforeService' /\ ProviderAmountMatches'
        /\ collected' = collected
    <3>1. Ask(k, Payable(v), v.ext) /\ v.ext \in BOOLEAN
      BY <2>1, <2>2
    <3>2. collected' = collected
      BY <2>1 DEF Ask, provider
    <3> QED
      BY <1>1, <2>2, <2>3, <2>4, <3>1, <3>2, WriteInvoice
  <2>6. \A j \in Invoices : inv[j].st # "none" => inv'[j].st # "none"
    BY <2>2, <2>3, <2>4
  <2>7. keyed' \subseteq Invoices
    BY <1>2 DEF Reissue, SetsOK
  <2> QED
    BY <1>1, <2>5, <2>6, <2>7, RestKept
<1>3. CASE Recalculate(i)
  <2>1. PICK ext \in BOOLEAN :
          /\ Ask(i, inv[i].amt - ToggledBalance(inv[i]), ext)
          /\ inv' = [inv EXCEPT ![i] = NewInvoice(inv[i], ToggledBalance(inv[i]), ext)]
    BY <1>3 DEF Recalculate
  <2> DEFINE v == NewInvoice(inv[i], ToggledBalance(inv[i]), ext)
  <2>2. Sound(v) /\ v.st = "pending" /\ v.ext = ext
        /\ Payable(v) = inv[i].amt - ToggledBalance(inv[i])
    BY <1>1, ToggledSound
  <2>3. inv' = [inv EXCEPT ![i] = v]
    BY <2>1
  <2> HIDE DEF v
  <2>4. /\ InvOK' /\ ProvOK' /\ PaidBeforeService' /\ ProviderAmountMatches'
        /\ collected' = collected
    <3>1. Ask(i, Payable(v), v.ext) /\ v.ext \in BOOLEAN
      BY <2>1, <2>2
    <3>2. collected' = collected
      BY <2>1 DEF Ask, provider
    <3> QED
      BY <1>1, <2>2, <2>3, <3>1, <3>2, WriteInvoice DEF InvOK
  <2>5. \A j \in Invoices : inv[j].st # "none" => inv'[j].st # "none"
    BY <2>2, <2>3 DEF InvOK
  <2>6. keyed' \subseteq Invoices
    BY <1>3 DEF Recalculate, SetsOK
  <2> QED
    BY <1>1, <2>4, <2>5, <2>6, RestKept
<1> QED
  BY <1>2, <1>3 DEF ToggleBalance

LEMMA ConfirmInv ==
  ASSUME IInv, NEW i \in Invoices, ConfirmInvoice(i)
  PROVE IInv'
<1> USE DEF IInv
<1>0. UNCHANGED <<approved, view>>
  BY DEF ConfirmInvoice
<1>1. CASE AskForLink(i)
  <2> DEFINE v == [inv[i] EXCEPT !.ext = TRUE]
  <2>1. Sound(v) /\ v.st = "pending" /\ v.ext = TRUE /\ Payable(v) = Payable(inv[i])
    BY <1>1 DEF AskForLink, InvOK, Sound, Invoice, Payable
  <2>2. inv' = [inv EXCEPT ![i] = v]
    BY <1>1 DEF AskForLink
  <2> HIDE DEF v
  <2>3. /\ InvOK' /\ ProvOK' /\ PaidBeforeService' /\ ProviderAmountMatches'
        /\ collected' = collected
    <3>1. Ask(i, Payable(v), v.ext) /\ v.ext \in BOOLEAN
      BY <1>1, <2>1 DEF AskForLink
    <3>2. collected' = collected
      BY <1>1 DEF AskForLink, Ask, provider
    <3> QED
      BY <1>0, <2>1, <2>2, <3>1, <3>2, WriteInvoice DEF InvOK
  <2>4. \A j \in Invoices : inv[j].st # "none" => inv'[j].st # "none"
    BY <2>1, <2>2 DEF InvOK
  <2>5. keyed' \subseteq Invoices /\ UNCHANGED <<money, rows, approved, served, view>>
    BY <1>0, <1>1 DEF AskForLink, SetsOK
  <2> QED
    BY <2>3, <2>4, <2>5, RestKept
<1>2. CASE LearnsCancelled(i) /\ Cancel(i) /\ UNCHANGED provider
  BY <1>0, <1>2, CancelInv DEF LearnsCancelled
<1>3. CASE MayConsume(i) /\ ConsumeInBot(i) /\ UNCHANGED <<keyed, provider>>
  <2>1. /\ Sound(inv[i]) /\ inv[i].st # "none"
        /\ i \in collected \cup approved' \/ Payable(inv[i]) = 0
    BY <1>0, <1>3 DEF MayConsume, InvOK, ProvOK, PaidBeforeService
  <2>2. approved' \subseteq Invoices /\ approved \subseteq approved'
    BY <1>0 DEF SetsOK
  <2> QED
    BY <1>0, <1>3, <2>1, <2>2, ConsumeInv, RolledBackInv DEF ConsumeInBot, RolledBack
<1> QED
  BY <1>1, <1>2, <1>3 DEF ConfirmInvoice

\* A callback acts on a copy that may be stale: what it was told must have been true.
LEMMA CallbackInv ==
  ASSUME IInv, NEW i \in Invoices, inv[i].st # "none", NEW v, Sound(v), v.st # "none",
         NEW status, Callback(i, v, status),
         CallbackConsumes(v, status) =>
           i \in collected \cup approved \/ Payable(inv[i]) = 0,
         UNCHANGED <<approved, provider>>,
         UNCHANGED view \/ \E s \in Sessions : CloseConsole(s)
  PROVE IInv'
<1>1. CASE CallbackCancels(i, v, status)
  BY <1>1, CancelInv DEF CallbackCancels
<1>2. CASE CallbackSettles(i, v, status)
  <2>1. approved' \subseteq Invoices /\ approved \subseteq approved'
    BY DEF IInv, SetsOK
  <2> QED
    BY <1>2, <2>1, ConsumeInv DEF CallbackSettles
<1>3. CASE CallbackFails(i, v, status)
  BY <1>3, RolledBackInv DEF CallbackFails
<1> QED
  BY <1>1, <1>2, <1>3 DEF Callback

LEMMA ProviderCallbackInv ==
  ASSUME IInv, NEW n, ProviderCallback(n)
  PROVE IInv'
<1> USE DEF IInv
<1>1. /\ n \in notices /\ n.id \in Invoices
      /\ n.status = "paid" => n.id \in collected
  BY DEF ProviderCallback, ProvOK
<1>2. Sound(inv[n.id]) /\ Callback(n.id, inv[n.id], n.status)
      /\ UNCHANGED <<approved, provider, view>>
  BY <1>1 DEF ProviderCallback, InvOK
<1>3. inv[n.id].st # "none"
  BY <1>2 DEF Callback, CallbackCancels, CallbackSettles, CallbackFails, CallbackConsumes, Open
<1>4. CallbackConsumes(inv[n.id], n.status) =>
        n.id \in collected \cup approved \/ Payable(inv[n.id]) = 0
  BY <1>1 DEF CallbackConsumes, PaidBeforeService
<1> QED
  BY <1>1, <1>2, <1>3, <1>4, CallbackInv

\* The provider, the polling job and the clock of the idempotency keys.
LEMMA OutsideInv ==
  ASSUME IInv, NEW i \in Invoices,
         NextMinute \/ PollPending(i) \/ Pay(i) \/ Expire(i) \/ Chargeback(i) \/ SendWebhook(i)
  PROVE IInv'
<1> USE DEF IInv
<1>1. /\ UNCHANGED <<inv, money, rows, approved, served, view>>
      /\ keyed' \subseteq Invoices /\ collected \subseteq collected'
      /\ UNCHANGED provAmount /\ \A j \in Invoices : prov[j] # "none" => prov'[j] # "none"
  BY DEF NextMinute, PollPending, Pay, Expire, Chargeback, SendWebhook, MoveProvider, provider,
         SetsOK, ProvOK
<1>2. ProvOK'
  <2>1. CASE NextMinute
    BY <2>1 DEF NextMinute, provider, ProvOK
  <2>2. CASE PollPending(i) \/ SendWebhook(i)
    BY <2>2 DEF PollPending, SendWebhook, ProvOK
  <2>3. CASE Pay(i) \/ Expire(i) \/ Chargeback(i)
    BY <2>3 DEF Pay, Expire, Chargeback, MoveProvider, ProvOK
  <2> QED
    BY <2>1, <2>2, <2>3
<1>3. InvOK' /\ PaidBeforeService' /\ ProviderAmountMatches'
  BY <1>1 DEF InvOK, PaidBeforeService, ProviderAmountMatches, ProvOK
<1> QED
  BY <1>1, <1>2, <1>3, RestKept

LEMMA ConsoleReadsInv ==
  ASSUME IInv, NEW s \in Sessions,
         (\E i \in Invoices, kind \in Console : OpenConsole(s, i, kind))
           \/ Diagnose(s) \/ GiveUp(s)
  PROVE IInv'
<1> USE DEF IInv
<1>1. UNCHANGED <<inv, keyed, money, rows, approved, provider, served>>
  BY DEF OpenConsole, Diagnose, GiveUp
<1>2. InvOK' /\ MoneyOK' /\ RowsOK' /\ SetsOK' /\ ProvOK' /\ PaidBeforeService'
      /\ ProviderAmountMatches'
  BY <1>1 DEF InvOK, MoneyOK, RowsOK, SetsOK, ProvOK, PaidBeforeService,
              ProviderAmountMatches, LedgerExplainsBalance, money, provider
<1>3. ViewOK'
  <2>1. ASSUME NEW i \in Invoices, NEW kind \in Console, OpenConsole(s, i, kind)
        PROVE ViewOK'
    <3> DEFINE r == [kind |-> kind, id |-> i, copy |-> inv[i], seen |-> "none"]
    <3>1. r \in ViewType /\ Sound(r.copy) /\ r.copy.st # "none" /\ inv'[i].st # "none"
      BY <1>1, <2>1 DEF OpenConsole, ViewType, Console, InvOK, Sound
    <3>2. \A t \in Sessions : view'[t] = IF t = s THEN r ELSE view[t]
      BY <2>1 DEF OpenConsole, ViewOK
    <3>3. view' \in [Sessions -> ViewType]
      BY <2>1, <3>1 DEF OpenConsole, ViewOK
    <3> QED
      BY <1>1, <3>1, <3>2, <3>3 DEF ViewOK, provider
  <2>2. ASSUME Diagnose(s) PROVE ViewOK'
    BY <1>1, <2>2 DEF Diagnose, ViewOK, ViewType, ProvOK, provider
  <2>3. ASSUME GiveUp(s) PROVE ViewOK'
    BY <1>1, <2>3, ViewClosed DEF GiveUp, provider
  <2> QED
    BY <2>1, <2>2, <2>3
<1> QED
  BY <1>2, <1>3

LEMMA ConsoleActsInv ==
  ASSUME IInv, NEW s \in Sessions, RefreshAsAdmin(s) \/ ApproveAsAdmin(s) \/ CancelAsAdmin(s)
  PROVE IInv'
<1> USE DEF IInv
<1> DEFINE i == view[s].id
           v == view[s].copy
<1>1. view[s].kind # "idle"
  BY DEF RefreshAsAdmin, ApproveAsAdmin, CancelAsAdmin, ViewOK
<1>2. /\ i \in Invoices /\ inv[i].st # "none" /\ Sound(v) /\ v.st # "none"
      /\ view[s].seen = "paid" => i \in collected
  BY <1>1 DEF ViewOK
<1>3. CASE RefreshAsAdmin(s)
  <2>1. CallbackConsumes(v, view[s].seen) => i \in collected
    BY <1>2, <1>3 DEF RefreshAsAdmin, CallbackConsumes
  <2> QED
    BY <1>2, <1>3, <2>1, CallbackInv DEF RefreshAsAdmin
<1>4. CASE ApproveAsAdmin(s)
  <2>1. CASE Settle(i, v) /\ approved' = approved \cup {i}
    <3>1. approved' \subseteq Invoices /\ approved \subseteq approved' /\ i \in approved'
      BY <1>2, <2>1 DEF SetsOK
    <3> QED
      BY <1>2, <1>4, <2>1, <3>1, ConsumeInv DEF ApproveAsAdmin
  <2>2. CASE RolledBack(i, v) /\ UNCHANGED approved
    BY <1>2, <1>4, <2>2, RolledBackInv DEF ApproveAsAdmin
  <2> QED
    BY <1>4, <2>1, <2>2 DEF ApproveAsAdmin
<1>5. CASE CancelAsAdmin(s)
  BY <1>2, <1>5, CancelInv DEF CancelAsAdmin
<1> QED
  BY <1>3, <1>4, <1>5

LEMMA CancelStaleInv ==
  ASSUME IInv, NEW newest \in Invoices, CancelStale(newest)
  PROVE IInv'
<1> USE DEF IInv
<1>1. UNCHANGED <<money, rows, approved, provider, served, view>> /\ keyed' \subseteq Invoices
  BY DEF CancelStale, SetsOK
<1>2. /\ inv' \in [Invoices -> Invoice]
      /\ \A i \in Invoices : inv'[i] = inv[i] \/ inv'[i] = [inv[i] EXCEPT !.st = "cancelled"]
      /\ \A i \in Invoices : inv[i].st # "none" => inv'[i].st # "none"
      /\ \A i \in Invoices : inv'[i].st = "none" => inv[i].st = "none"
  BY DEF CancelStale, InvOK, Invoice, Statuses
<1>3. \A i \in Invoices : inv[i].st = "none" => inv'[i] = inv[i]
  BY DEF CancelStale
<1>4. \A i \in Invoices : /\ inv'[i].user = inv[i].user /\ inv'[i].ext = inv[i].ext
                          /\ inv'[i].amt = inv[i].amt /\ inv'[i].bal = inv[i].bal
                          /\ inv'[i].st = inv[i].st \/ inv'[i].st = "cancelled"
  BY <1>2 DEF InvOK, Invoice
<1>5. InvOK'
  BY <1>2, <1>3, <1>4 DEF InvOK, Sound
<1>6. ProvOK'
  BY <1>1 DEF ProvOK, provider
<1>7. PaidBeforeService' /\ ProviderAmountMatches'
  BY <1>1, <1>4 DEF PaidBeforeService, ProviderAmountMatches, Payable, provider
<1> QED
  BY <1>1, <1>2, <1>5, <1>6, <1>7, RestKept DEF provider

LEMMA StutterInv == IInv /\ UNCHANGED vars => IInv'
<1> SUFFICES ASSUME IInv, UNCHANGED vars PROVE IInv'
  OBVIOUS
<1>1. UNCHANGED <<inv, keyed, money, rows, approved, served, view>> /\ UNCHANGED provider
  BY DEF vars
<1> QED
  BY <1>1 DEF IInv, InvOK, MoneyOK, RowsOK, SetsOK, ProvOK, ViewOK, PaidBeforeService,
              ProviderAmountMatches, LedgerExplainsBalance, money, provider

LEMMA NextInv == IInv /\ [Next]_vars => IInv'
<1> SUFFICES ASSUME IInv, [Next]_vars PROVE IInv'
  OBVIOUS
<1>1. CASE Bot
  <2>1. ASSUME NEW i \in Invoices, CancelInvoice(i) PROVE IInv'
    BY <2>1, CancelInv DEF CancelInvoice
  <2> QED
    BY <1>1, <2>1, CreateInv, ToggleInv, ConfirmInv DEF Bot
<1>2. CASE NextMinute
  <2>1. PICK i \in Invoices : TRUE
    BY <1>2 DEF NextMinute, IInv, SetsOK
  <2> QED
    BY <1>2, <2>1, OutsideInv
<1>3. CASE Provider \/ Jobs
  BY <1>3, OutsideInv, ProviderCallbackInv DEF Provider, Jobs
<1>4. CASE Admin
  BY <1>4, ConsoleReadsInv, ConsoleActsInv DEF Admin
<1>5. CASE Cleanup
  BY <1>5, CancelStaleInv DEF Cleanup
<1> QED
  BY <1>1, <1>2, <1>3, <1>4, <1>5, StutterInv DEF Next

LEMMA InvHolds == Spec => []IInv
  BY InitInv, NextInv, PTL DEF Spec

-----------------------------------------------------------------------------
\* The types of the model, and that balances are never negative.
THEOREM TypeCorrect == Spec => []TypeOK
  BY InvHolds, InvGivesTypes, PTL

\* No service without money, also when the console works on a stale invoice, webhooks
\* are late or repeated, and the panel or the process fails in the middle.
THEOREM NoServiceUnpaid == Spec => []PaidBeforeService
  BY InvHolds, PTL DEF IInv

\* toggle_balance never leaves a payment link that asks for another amount.
THEOREM LinkAsksTheRightAmount == Spec => []ProviderAmountMatches
  BY InvHolds, PTL DEF IInv

\* The clamp in subtract_balance never swallows a part of a charge.
THEOREM BalanceIsExplained == Spec => []LedgerExplainsBalance
  BY InvHolds, PTL DEF IInv, MoneyOK

-----------------------------------------------------------------------------
Settled(i) == inv[i].st \in {"consumed", "cancelled"}

LEMMA OneRow ==
  ASSUME InvOK, NEW i \in Invoices, ~Settled(i), NEW j \in Invoices, Settled(j),
         NEW v, inv' = [inv EXCEPT ![i] = v]
  PROVE inv'[j] = inv[j]
  BY DEF InvOK

\* Every handler that finds the row under its lock leaves a settled one alone.
LEMMA SettledStep ==
  ASSUME Sessions = {}, IInv, [Next]_vars, NEW j \in Invoices, Settled(j)
  PROVE inv'[j] = inv[j]
<1> USE DEF IInv
<1>1. ASSUME NEW i \in Invoices, ~Settled(i), NEW st, SetStatus(i, st) PROVE inv'[j] = inv[j]
  BY <1>1, OneRow DEF SetStatus
<1>2. ASSUME NEW u \in Users, NEW p \in Purposes, CreateInvoice(u, p) PROVE inv'[j] = inv[j]
  BY <1>2, OneRow DEF CreateInvoice, Fresh, Unused, Settled
<1>3. ASSUME NEW i \in Invoices, ToggleBalance(i) PROVE inv'[j] = inv[j]
  <2>1. i # j
    BY <1>3 DEF ToggleBalance, Settled
  <2>2. CASE Reissue(i)
    BY <2>1, <2>2 DEF Reissue, Fresh, Unused, Settled, InvOK
  <2>3. CASE Recalculate(i)
    BY <2>1, <2>3 DEF Recalculate, InvOK
  <2> QED
    BY <1>3, <2>2, <2>3 DEF ToggleBalance
<1>4. ASSUME NEW i \in Invoices, ConfirmInvoice(i) \/ CancelInvoice(i) PROVE inv'[j] = inv[j]
  <2>1. ~Settled(i)
    BY <1>4 DEF ConfirmInvoice, CancelInvoice, AskForLink, LearnsCancelled, MayConsume, Settled
  <2>2. CASE AskForLink(i)
    BY <2>1, <2>2 DEF AskForLink, InvOK, Settled
  <2>3. CASE Cancel(i)
    BY <1>1, <2>1, <2>3 DEF Cancel
  <2>4. CASE ConsumeInBot(i)
    BY <1>1, <2>1, <2>4 DEF ConsumeInBot, Settle, RefusedInBot, PanelFailsInBot,
                            CrashAfterService
  <2> QED
    BY <1>4, <2>2, <2>3, <2>4 DEF ConfirmInvoice, CancelInvoice
<1>5. ASSUME NEW n, ProviderCallback(n) PROVE inv'[j] = inv[j]
  <2> DEFINE i == n.id
  <2>1. i \in Invoices /\ ~Settled(i)
    BY <1>5 DEF ProviderCallback, Callback, CallbackCancels, CallbackSettles, CallbackFails,
                CallbackConsumes, Open, Settled, ProvOK
  <2>2. CASE CallbackCancels(i, inv[i], n.status)
    BY <1>1, <2>1, <2>2 DEF CallbackCancels, Cancel
  <2>3. CASE CallbackSettles(i, inv[i], n.status)
    BY <1>1, <2>1, <2>3 DEF CallbackSettles, Settle
  <2>4. CASE CallbackFails(i, inv[i], n.status)
    BY <2>4 DEF CallbackFails, RolledBack, PanelFailsRolledBack, CrashAfterService
  <2> QED
    BY <1>5, <2>2, <2>3, <2>4 DEF ProviderCallback, Callback
<1>6. CASE NextMinute \/ Provider \/ (\E i \in Invoices : PollPending(i)) \/ UNCHANGED vars
  BY <1>6 DEF NextMinute, Provider, PollPending, Pay, Expire, Chargeback, SendWebhook,
              MoveProvider, vars
<1>7. ~Admin
  BY DEF Admin
<1>8. CASE Cleanup
  BY <1>8 DEF Cleanup, CancelStale, Settled
<1> QED
  BY <1>2, <1>3, <1>4, <1>5, <1>6, <1>7, <1>8 DEF Next, Bot, Jobs

\* As long as nobody opens one invoice in the console, no late webhook, poll, toggle, click or bulk cancellation moves an
\* invoice that was consumed or cancelled: they all look at it under its lock.
THEOREM SettledStaysSettled ==
  ASSUME Sessions = {}
  PROVE Spec => SettledIsFinal
<1>1. IInv /\ [Next]_vars =>
        [\A i \in Invoices : inv[i].st \in {"consumed", "cancelled"} => inv'[i] = inv[i]]_vars
  BY SettledStep DEF Settled
<1> QED
  BY <1>1, InvHolds, PTL DEF Spec, SettledIsFinal

-----------------------------------------------------------------------------
(* One live invoice per click                                              *)

\* Inductive with IInv: a key belongs to an invoice that was written, whose owner and
\* purpose no handler changes.
KeysOK == OneLivePerClick /\ \A i \in keyed : inv[i].st # "none"

SamePurchase(j) == inv'[j].user = inv[j].user /\ inv'[j].purpose = inv[j].purpose

\* All but the creation of an invoice only gives keys back, and takes the key of
\* what it cancels.
LEMMA KeysKept ==
  ASSUME KeysOK, keyed' \subseteq keyed,
         \A j \in keyed' : SamePurchase(j) /\ inv'[j].st \notin {"none", "cancelled"}
  PROVE KeysOK'
  BY DEF KeysOK, OneLivePerClick, SamePurchase

LEMMA KeysAfterStatus ==
  ASSUME IInv, KeysOK, NEW i \in Invoices, NEW st \in Statuses, SetStatus(i, st),
         keyed' = IF st = "cancelled" THEN keyed \ {i} ELSE keyed
  PROVE KeysOK'
<1>1. \A j \in keyed' : SamePurchase(j) /\ inv'[j].st = IF j = i THEN st ELSE inv[j].st
  BY DEF IInv, InvOK, SetsOK, SetStatus, SamePurchase, Invoice
<1> QED
  BY <1>1, KeysKept, NewStatusIsReal DEF KeysOK, OneLivePerClick

LEMMA KeysAfterCancel ==
  ASSUME IInv, KeysOK, NEW i \in Invoices, Cancel(i)
  PROVE KeysOK'
  BY KeysAfterStatus DEF Cancel, Statuses

LEMMA KeysAfterSettle ==
  ASSUME IInv, KeysOK, NEW i \in Invoices, NEW v, UNCHANGED keyed,
         Settle(i, v) \/ RefusedInBot(i, v) \/ PanelFailsInBot(i, v)
  PROVE KeysOK'
<1>1. PICK st \in {"applying", "consumed"} : SetStatus(i, st)
  BY DEF Settle, RefusedInBot, PanelFailsInBot
<1> QED
  BY <1>1, KeysAfterStatus DEF Statuses

LEMMA KeysAfterRollback ==
  ASSUME KeysOK, UNCHANGED <<inv, keyed>>
  PROVE KeysOK'
  BY DEF KeysOK, OneLivePerClick

LEMMA KeysAfterCallback ==
  ASSUME IInv, KeysOK, NEW i \in Invoices, NEW v, NEW status, Callback(i, v, status)
  PROVE KeysOK'
<1>1. CASE CallbackCancels(i, v, status)
  BY <1>1, KeysAfterCancel DEF CallbackCancels
<1>2. CASE CallbackSettles(i, v, status)
  BY <1>2, KeysAfterSettle DEF CallbackSettles
<1>3. CASE CallbackFails(i, v, status)
  BY <1>3, KeysAfterRollback
     DEF CallbackFails, RolledBack, PanelFailsRolledBack, CrashAfterService
<1> QED
  BY <1>1, <1>2, <1>3 DEF Callback

\* The unique index: a new key is of a purchase no other key is of.
LEMMA KeysAfterCreate ==
  ASSUME IInv, KeysOK, NEW u \in Users, NEW p \in Purposes, CreateInvoice(u, p)
  PROVE KeysOK'
<1>1. PICK i \in Invoices, ext \in BOOLEAN :
        /\ Fresh(i)
        /\ inv' = [inv EXCEPT ![i] = [st |-> "pending", user |-> u, purpose |-> p,
                                      amt |-> Price[p], bal |-> 0, ext |-> ext]]
        /\ keyed' = keyed \cup {i}
  BY DEF CreateInvoice
<1>2. i \notin keyed /\ keyed \subseteq Invoices
  BY <1>1 DEF Fresh, Unused, KeysOK, IInv, SetsOK
<1>3. \A j \in keyed : inv'[j] = inv[j]
  BY <1>1, <1>2 DEF IInv, InvOK
<1>4. inv'[i].st = "pending" /\ inv'[i].user = u /\ inv'[i].purpose = p
  BY <1>1 DEF IInv, InvOK
<1>5. \A j \in keyed : <<inv[j].user, inv[j].purpose>> # <<u, p>>
  BY DEF CreateInvoice, Duplicates
<1> QED
  BY <1>1, <1>2, <1>3, <1>4, <1>5 DEF KeysOK, OneLivePerClick

LEMMA KeysAfterToggle ==
  ASSUME IInv, KeysOK, NEW i \in Invoices, ToggleBalance(i)
  PROVE KeysOK'
<1>1. keyed \subseteq Invoices /\ inv[i].st = "pending" /\ inv[i] \in Invoice
      /\ inv \in [Invoices -> Invoice]
  BY DEF IInv, InvOK, SetsOK, ToggleBalance
<1>2. CASE Reissue(i)
  <2>1. PICK k \in Invoices : \E v :
          Fresh(k) /\ inv' = [inv EXCEPT ![i].st = "cancelled", ![k] = v]
    BY <1>2 DEF Reissue
  <2>2. keyed' = keyed \ {i} /\ k \notin keyed
    BY <1>2, <2>1 DEF Reissue, Fresh, Unused, KeysOK
  <2>3. \A j \in keyed' : inv'[j] = inv[j]
    BY <1>1, <2>1, <2>2
  <2> QED
    BY <2>2, <2>3, KeysKept DEF KeysOK, OneLivePerClick, SamePurchase
<1>3. CASE Recalculate(i)
  <2>1. PICK ext \in BOOLEAN :
          inv' = [inv EXCEPT ![i] = NewInvoice(inv[i], ToggledBalance(inv[i]), ext)]
    BY <1>3 DEF Recalculate
  <2> DEFINE v == NewInvoice(inv[i], ToggledBalance(inv[i]), ext)
  <2>2. v.st = "pending" /\ v.user = inv[i].user /\ v.purpose = inv[i].purpose
    BY <1>1 DEF NewInvoice, Invoice
  <2> HIDE DEF v
  <2>3. \A j \in Invoices : inv'[j] = IF j = i THEN v ELSE inv[j]
    BY <1>1, <2>1 DEF v
  <2> QED
    BY <1>1, <1>3, <2>2, <2>3, KeysKept DEF Recalculate, KeysOK, OneLivePerClick, SamePurchase
<1> QED
  BY <1>2, <1>3 DEF ToggleBalance

LEMMA KeysAfterConfirm ==
  ASSUME IInv, KeysOK, NEW i \in Invoices, ConfirmInvoice(i)
  PROVE KeysOK'
<1>1. CASE AskForLink(i)
  <2>1. \A j \in keyed : SamePurchase(j) /\ inv'[j].st = inv[j].st
    BY <1>1 DEF AskForLink, IInv, InvOK, SetsOK, Invoice, SamePurchase
  <2> QED
    BY <1>1, <2>1, KeysKept DEF AskForLink, KeysOK, OneLivePerClick
<1>2. CASE Cancel(i)
  BY <1>2, KeysAfterCancel
<1>3. CASE ConsumeInBot(i) /\ UNCHANGED keyed
  BY <1>3, KeysAfterSettle, KeysAfterRollback DEF ConsumeInBot, CrashAfterService
<1> QED
  BY <1>1, <1>2, <1>3 DEF ConfirmInvoice

LEMMA KeysAfterCleanup ==
  ASSUME IInv, KeysOK, NEW newest \in Invoices, CancelStale(newest)
  PROVE KeysOK'
<1>1. keyed' \subseteq keyed /\ keyed \subseteq Invoices
  BY DEF CancelStale, IInv, SetsOK
<1>2. \A j \in keyed' : inv'[j] = inv[j]
  BY <1>1 DEF CancelStale
<1> QED
  BY <1>1, <1>2, KeysKept DEF KeysOK, OneLivePerClick, SamePurchase

LEMMA KeysAfterAdmin ==
  ASSUME IInv, KeysOK, Admin
  PROVE KeysOK'
<1>1. PICK s \in Sessions :
        \/ \E i \in Invoices, kind \in Console : OpenConsole(s, i, kind)
        \/ Diagnose(s) \/ GiveUp(s)
        \/ RefreshAsAdmin(s) \/ ApproveAsAdmin(s) \/ CancelAsAdmin(s)
  BY DEF Admin
<1>2. view[s].kind # "idle" => view[s].id \in Invoices
  BY DEF IInv, ViewOK
<1>3. CASE (\E i \in Invoices, kind \in Console : OpenConsole(s, i, kind))
             \/ Diagnose(s) \/ GiveUp(s)
  BY <1>3, KeysAfterRollback DEF OpenConsole, Diagnose, GiveUp
<1>4. CASE RefreshAsAdmin(s)
  <2>1. view[s].kind # "idle"
    BY <1>4 DEF RefreshAsAdmin, IInv, ViewOK
  <2> QED
    BY <1>2, <1>4, <2>1, KeysAfterCallback DEF RefreshAsAdmin
<1>5. CASE ApproveAsAdmin(s)
  <2>1. view[s].id \in Invoices /\ UNCHANGED keyed
    BY <1>2, <1>5 DEF ApproveAsAdmin
  <2>2. CASE Settle(view[s].id, view[s].copy)
    BY <2>1, <2>2, KeysAfterSettle
  <2>3. CASE RolledBack(view[s].id, view[s].copy)
    BY <2>1, <2>3, KeysAfterRollback DEF RolledBack, PanelFailsRolledBack, CrashAfterService
  <2> QED
    BY <1>5, <2>2, <2>3 DEF ApproveAsAdmin
<1>6. CASE CancelAsAdmin(s)
  BY <1>2, <1>6, KeysAfterCancel DEF CancelAsAdmin
<1> QED
  BY <1>1, <1>3, <1>4, <1>5, <1>6

LEMMA KeysStep == IInv /\ KeysOK /\ [Next]_vars => KeysOK'
<1> SUFFICES ASSUME IInv, KeysOK, [Next]_vars PROVE KeysOK'
  OBVIOUS
<1>1. CASE Bot
  BY <1>1, KeysAfterCreate, KeysAfterToggle, KeysAfterConfirm, KeysAfterCancel
     DEF Bot, CancelInvoice
<1>2. CASE NextMinute
  BY <1>2, KeysKept DEF NextMinute
<1>3. ASSUME NEW n, ProviderCallback(n) PROVE KeysOK'
  <2>1. n.id \in Invoices
    BY <1>3 DEF ProviderCallback, IInv, ProvOK
  <2> QED
    BY <1>3, <2>1, KeysAfterCallback DEF ProviderCallback
<1>4. CASE Provider \/ (\E i \in Invoices : PollPending(i)) \/ UNCHANGED vars
  BY <1>4, KeysAfterRollback DEF Provider, PollPending, Pay, Expire, Chargeback, SendWebhook,
                                 MoveProvider, vars
<1>5. CASE Cleanup
  BY <1>5, KeysAfterCleanup DEF Cleanup
<1> QED
  BY <1>1, <1>2, <1>3, <1>4, <1>5, KeysAfterAdmin DEF Next, Jobs

\* Whatever is created, replaced, settled or cancelled, by whom and from however old a
\* copy, the keys of idempotency never hold two invoices of one purchase, nor a
\* cancelled one that would refuse the next click.
THEOREM ClicksAreIdempotent == Spec => []OneLivePerClick
<1>1. Init => KeysOK
  BY DEF Init, KeysOK, OneLivePerClick
<1>2. KeysOK => OneLivePerClick
  BY DEF KeysOK
<1> QED
  BY <1>1, <1>2, KeysStep, InvHolds, PTL DEF Spec

-----------------------------------------------------------------------------
(* All or nothing                                                          *)

\* What a step does to the rows of an invoice and to its service: nothing, or all that
\* settling it does.  The handlers that settle hold its lock, so they found it open.
KeepsTrace(j) == rows'[j] = rows[j] /\ (inv'[j].st = "consumed" => inv[j].st = "consumed")
Settles(j) == ~Settled(j) /\ Settle(j, inv[j])

\* A change of status other than to "consumed", which leaves the rows alone.
LEMMA TraceAfterStatus ==
  ASSUME IInv, NEW i \in Invoices, NEW st \in Statuses, SetStatus(i, st), st # "consumed",
         UNCHANGED <<rows, served>>
  PROVE \A j \in Invoices : KeepsTrace(j)
  BY DEF IInv, InvOK, SetStatus, KeepsTrace, Invoice

LEMMA TraceAfterSettle ==
  ASSUME IInv, NEW i \in Invoices, ~Settled(i), Settle(i, inv[i])
  PROVE \A j \in Invoices : KeepsTrace(j) \/ Settles(j)
<1>1. \A j \in Invoices \ {i} : rows'[j] = rows[j] /\ inv'[j] = inv[j]
  BY DEF IInv, InvOK, RowsOK, Settle, Record, SetStatus
<1> QED
  BY <1>1 DEF KeepsTrace, Settles

LEMMA TraceAfterRollback ==
  ASSUME UNCHANGED <<inv, rows>>
  PROVE \A j \in Invoices : KeepsTrace(j)
  BY DEF KeepsTrace

\* A row that is written anew is pending.
LEMMA TraceAfterWrite ==
  ASSUME IInv, UNCHANGED rows,
         \A j \in Invoices : inv'[j].st \in {inv[j].st, "pending", "cancelled"}
  PROVE \A j \in Invoices : KeepsTrace(j)
  BY DEF KeepsTrace

LEMMA TraceAfterBot ==
  ASSUME "panel" \notin Faults, IInv, Bot
  PROVE \A j \in Invoices : KeepsTrace(j) \/ Settles(j)
<1> USE DEF IInv
<1>1. ASSUME NEW u \in Users, NEW p \in Purposes, CreateInvoice(u, p)
      PROVE \A j \in Invoices : KeepsTrace(j)
  BY <1>1, TraceAfterWrite DEF CreateInvoice, InvOK
<1>2. ASSUME NEW i \in Invoices, ToggleBalance(i)
      PROVE \A j \in Invoices : KeepsTrace(j)
  <2>1. CASE Reissue(i)
    <3>1. PICK k \in Invoices, ext \in BOOLEAN :
            inv' = [inv EXCEPT ![i].st = "cancelled",
                               ![k] = NewInvoice(inv[i], ToggledBalance(inv[i]), ext)]
      BY <2>1 DEF Reissue
    <3> DEFINE v == NewInvoice(inv[i], ToggledBalance(inv[i]), ext)
               w == [inv EXCEPT ![i].st = "cancelled"]
    <3>2. v.st = "pending"
      BY DEF NewInvoice, InvOK, Invoice
    <3>3. \A j \in Invoices : w[j].st \in {inv[j].st, "cancelled"}
      BY DEF InvOK, Invoice
    <3>4. w \in [Invoices -> Invoice] /\ inv' = [w EXCEPT ![k] = v]
      BY <3>1 DEF InvOK, Invoice, Statuses
    <3> HIDE DEF v, w
    <3>5. \A j \in Invoices : inv'[j].st \in {inv[j].st, "pending", "cancelled"}
      BY <3>2, <3>3, <3>4
    <3> QED
      BY <1>2, <3>5, TraceAfterWrite DEF ToggleBalance
  <2>2. CASE Recalculate(i)
    <3>1. PICK ext \in BOOLEAN :
            inv' = [inv EXCEPT ![i] = NewInvoice(inv[i], ToggledBalance(inv[i]), ext)]
      BY <2>2 DEF Recalculate
    <3> DEFINE v == NewInvoice(inv[i], ToggledBalance(inv[i]), ext)
    <3>2. v.st = "pending"
      BY DEF NewInvoice, InvOK, Invoice
    <3> HIDE DEF v
    <3>3. \A j \in Invoices : inv'[j].st \in {inv[j].st, "pending", "cancelled"}
      BY <3>1, <3>2 DEF InvOK, v
    <3> QED
      BY <1>2, <3>3, TraceAfterWrite DEF ToggleBalance
  <2> QED
    BY <1>2, <2>1, <2>2 DEF ToggleBalance
<1>3. ASSUME NEW i \in Invoices, ConfirmInvoice(i) \/ CancelInvoice(i)
      PROVE \A j \in Invoices : KeepsTrace(j) \/ Settles(j)
  <2>1. CASE AskForLink(i)
    BY <2>1, TraceAfterWrite DEF AskForLink, InvOK, Invoice
  <2>2. CASE Cancel(i)
    BY <2>2, TraceAfterStatus DEF Cancel, Statuses
  <2>3. CASE MayConsume(i) /\ ConsumeInBot(i)
    <3>1. ~Settled(i)
      BY <2>3 DEF MayConsume, Settled
    <3>2. ~PanelFailsInBot(i, inv[i])
      BY DEF PanelFailsInBot, PanelFails
    <3>3. CASE RefusedInBot(i, inv[i])
      BY <3>3, TraceAfterStatus DEF RefusedInBot, Statuses
    <3>4. CASE CrashAfterService(i, inv[i])
      BY <3>4, TraceAfterRollback DEF CrashAfterService
    <3> QED
      BY <2>3, <3>1, <3>2, <3>3, <3>4, TraceAfterSettle DEF ConsumeInBot
  <2> QED
    BY <1>3, <2>1, <2>2, <2>3 DEF ConfirmInvoice, CancelInvoice
<1> QED
  BY <1>1, <1>2, <1>3 DEF Bot

LEMMA TraceStep ==
  ASSUME Sessions = {}, "panel" \notin Faults, IInv, [Next]_vars
  PROVE \A j \in Invoices : KeepsTrace(j) \/ Settles(j)
<1> USE DEF IInv
<1>1. ASSUME NEW n, ProviderCallback(n)
      PROVE \A j \in Invoices : KeepsTrace(j) \/ Settles(j)
  <2>1. n.id \in Invoices
    BY <1>1 DEF ProviderCallback, ProvOK
  <2>2. CASE CallbackCancels(n.id, inv[n.id], n.status)
    BY <2>1, <2>2, TraceAfterStatus DEF CallbackCancels, Cancel, Statuses
  <2>3. CASE CallbackSettles(n.id, inv[n.id], n.status)
    BY <2>1, <2>3, TraceAfterSettle DEF CallbackSettles, CallbackConsumes, Open, Settled
  <2>4. CASE CallbackFails(n.id, inv[n.id], n.status)
    BY <2>4, TraceAfterRollback DEF CallbackFails, RolledBack, PanelFailsRolledBack,
                                    CrashAfterService
  <2> QED
    BY <1>1, <2>2, <2>3, <2>4 DEF ProviderCallback, Callback
<1>2. CASE Cleanup
  BY <1>2, TraceAfterWrite DEF Cleanup, CancelStale, InvOK, Invoice
<1>3. CASE NextMinute \/ Provider \/ (\E i \in Invoices : PollPending(i)) \/ UNCHANGED vars
  BY <1>3, TraceAfterRollback DEF NextMinute, Provider, PollPending, Pay, Expire, Chargeback,
                                  SendWebhook, MoveProvider, vars
<1>4. ~Admin
  BY DEF Admin
<1> QED
  BY <1>1, <1>2, <1>3, <1>4, TraceAfterBot DEF Next, Jobs

\* The panel never forgets what it was asked for.
LEMMA ServedGrows == IInv /\ [Next]_vars => served \subseteq served'
<1> SUFFICES ASSUME IInv, [Next]_vars PROVE served \subseteq served'
  OBVIOUS
<1>1. ASSUME NEW i, NEW v, Settle(i, v) \/ RefusedInBot(i, v) \/ PanelFailsInBot(i, v)
                           \/ RolledBack(i, v)
      PROVE served \subseteq served'
  BY <1>1 DEF Settle, RefusedInBot, PanelFailsInBot, RolledBack, PanelFailsRolledBack,
              PanelFails, CrashAfterService, Serve
<1>2. ASSUME NEW i, NEW v, NEW status, Callback(i, v, status) PROVE served \subseteq served'
  BY <1>1, <1>2 DEF Callback, CallbackCancels, CallbackSettles, CallbackFails, Cancel
<1>3. CASE Bot
  BY <1>1, <1>3 DEF Bot, CreateInvoice, ToggleBalance, CancelInvoice, ConfirmInvoice, AskForLink,
                    Cancel, ConsumeInBot, RolledBack
<1>4. CASE Admin
  BY <1>1, <1>2, <1>4 DEF Admin, OpenConsole, Diagnose, GiveUp, RefreshAsAdmin, ApproveAsAdmin,
                          CancelAsAdmin, Cancel
<1>5. CASE Jobs
  BY <1>2, <1>5 DEF Jobs, PollPending, ProviderCallback
<1>6. CASE Cleanup \/ NextMinute \/ Provider \/ UNCHANGED vars
  BY <1>6 DEF Cleanup, CancelStale, NextMinute, Provider, Pay, Expire, Chargeback, SendWebhook,
              MoveProvider, vars
<1> QED
  BY <1>3, <1>4, <1>5, <1>6 DEF Next

\* What settling leaves: the rows of one charge, beside the service.
LEMMA SettleLeaves ==
  ASSUME IInv, NEW j \in Invoices, Settle(j, inv[j]),
         rows[j] = [debits |-> 0, credits |-> 0, receipts |-> 0]
  PROVE /\ inv'[j].st = "consumed"
        /\ Entitled(j)'
        /\ rows'[j] = [debits |-> DebitRow(inv'[j]), credits |-> CreditRow(inv'[j]),
                       receipts |-> 1]
<1>1. /\ inv'[j].st = "consumed" /\ inv'[j].purpose = inv[j].purpose
      /\ inv'[j].amt = inv[j].amt /\ inv'[j].bal = inv[j].bal
  BY DEF IInv, InvOK, Settle, SetStatus, Invoice
<1>2. UsesPanel(inv[j]) => j \in served'
  BY DEF Settle, Serve
<1>3. rows'[j] = [debits |-> DebitRow(inv[j]), credits |-> CreditRow(inv[j]), receipts |-> 1]
  <2>1. DebitRow(inv[j]) \in Nat /\ CreditRow(inv[j]) \in Nat
    BY DEF DebitRow, CreditRow
  <2> QED
    BY <2>1 DEF IInv, RowsOK, Settle, Record
<1> QED
  BY <1>1, <1>2, <1>3 DEF Entitled, UsesPanel, DebitRow, CreditRow, Payable

\* As long as nobody opens one invoice in the console and the panel's calls do not fail
\* halfway, an invoice is charged, credited, served and announced once and together,
\* however clicks, webhooks, polls, toggles and deaths of the process interleave.
THEOREM ChargedServedAndAnnouncedOnce ==
  ASSUME Sessions = {}, "panel" \notin Faults
  PROVE Spec => []AllOrNothing
<1>1. Init => AllOrNothing
  BY DEF Init, AllOrNothing, NoInvoice
<1>2. IInv /\ AllOrNothing /\ [Next]_vars => AllOrNothing'
  <2> SUFFICES ASSUME IInv, AllOrNothing, [Next]_vars, NEW j \in Invoices
               PROVE IF inv'[j].st = "consumed"
                     THEN /\ Entitled(j)'
                          /\ rows'[j] = [debits |-> DebitRow(inv'[j]),
                                         credits |-> CreditRow(inv'[j]), receipts |-> 1]
                     ELSE rows'[j] = [debits |-> 0, credits |-> 0, receipts |-> 0]
    BY DEF AllOrNothing
  <2>1. CASE Settles(j)
    BY <2>1, SettleLeaves DEF Settles, Settled, AllOrNothing
  <2>2. CASE KeepsTrace(j) /\ inv[j].st = "consumed"
    <3>1. inv'[j] = inv[j]
      BY <2>2, SettledStep DEF Settled
    <3> QED
      BY <2>2, <3>1, ServedGrows DEF KeepsTrace, AllOrNothing, Entitled
  <2>3. CASE KeepsTrace(j) /\ inv[j].st # "consumed"
    BY <2>3 DEF KeepsTrace, AllOrNothing
  <2> QED
    BY <2>1, <2>2, <2>3, TraceStep
<1> QED
  BY <1>1, <1>2, InvHolds, PTL DEF Spec

-----------------------------------------------------------------------------
(* The conservation of money                                               *)

Unsettled(j) == inv[j].st \in {"none", "pending"}

\* Before an invoice is applied, nothing was moved for it: what a toggle of the balance
\* rewrites has no rows yet.
NoEarlyTrace == \A j \in Invoices : Unsettled(j) => rows[j].debits = 0 /\ rows[j].credits = 0

\* A step either charges one invoice, as its row is, or moves no money; what is no
\* longer pending is never rewritten.
Charges(i) ==
  /\ inv[i].st # "none"
  /\ BalanceCovers(inv[i])
  /\ Charge(i, inv[i])
  /\ \E r \in 0..1 : Record(i, inv[i], r)
  /\ \E st \in {"applying", "consumed"} : SetStatus(i, st)

KeepsWorth(j) ==
  \/ Unsettled(j)
  \/ ~Unsettled(j)' /\ inv'[j].amt = inv[j].amt /\ inv'[j].bal = inv[j].bal

MovesNoMoney == UNCHANGED <<money, rows>> /\ \A j \in Invoices : KeepsWorth(j)

LEMMA NoMoneyAfterStatus ==
  ASSUME IInv, NEW i \in Invoices, NEW st, SetStatus(i, st), st \notin {"none", "pending"},
         UNCHANGED <<money, rows>>
  PROVE MovesNoMoney
  BY DEF IInv, InvOK, SetStatus, MovesNoMoney, KeepsWorth, Unsettled, Invoice

LEMMA NoMoneyAfterCancel ==
  ASSUME IInv, NEW i \in Invoices, Cancel(i)
  PROVE MovesNoMoney
  BY NoMoneyAfterStatus DEF Cancel

LEMMA NoMoneyAfterRollback ==
  ASSUME UNCHANGED <<inv, money, rows>>
  PROVE MovesNoMoney
  BY DEF MovesNoMoney, KeepsWorth, Unsettled

\* A pending row that is written anew.
LEMMA NoMoneyAfterWrite ==
  ASSUME UNCHANGED <<money, rows>>, \A j \in Invoices : Unsettled(j) \/ inv'[j] = inv[j]
  PROVE MovesNoMoney
  BY DEF MovesNoMoney, KeepsWorth, Unsettled

LEMMA MoneyAfterConsume ==
  ASSUME IInv, NEW i \in Invoices, inv[i].st # "none",
         Settle(i, inv[i]) \/ RefusedInBot(i, inv[i]) \/ PanelFailsInBot(i, inv[i])
           \/ RolledBack(i, inv[i])
  PROVE MovesNoMoney \/ Charges(i)
<1>1. CASE Settle(i, inv[i])
  BY <1>1 DEF Settle, Charges
<1>2. CASE RefusedInBot(i, inv[i])
  BY <1>2, NoMoneyAfterStatus DEF RefusedInBot
<1>3. CASE PanelFailsInBot(i, inv[i])
  BY <1>3 DEF PanelFailsInBot, PanelFails, Charges
<1>4. CASE RolledBack(i, inv[i])
  BY <1>4, NoMoneyAfterRollback DEF RolledBack, PanelFailsRolledBack, CrashAfterService
<1> QED
  BY <1>1, <1>2, <1>3, <1>4

LEMMA MoneyAfterBot ==
  ASSUME IInv, Bot
  PROVE MovesNoMoney \/ \E i \in Invoices : Charges(i)
<1> USE DEF IInv
<1>1. ASSUME NEW u \in Users, NEW p \in Purposes, CreateInvoice(u, p) PROVE MovesNoMoney
  BY <1>1, NoMoneyAfterWrite DEF CreateInvoice, Fresh, Unused, Unsettled, InvOK
<1>2. ASSUME NEW i \in Invoices, ToggleBalance(i) PROVE MovesNoMoney
  <2>1. Unsettled(i) /\ UNCHANGED <<money, rows>>
    BY <1>2 DEF ToggleBalance, Unsettled
  <2>2. CASE Reissue(i)
    <3>1. PICK k \in Invoices : \E v :
            Fresh(k) /\ inv' = [inv EXCEPT ![i].st = "cancelled", ![k] = v]
      BY <2>2 DEF Reissue
    <3>2. \A j \in Invoices : j \notin {i, k} => inv'[j] = inv[j]
      BY <3>1 DEF InvOK
    <3>3. Unsettled(k)
      BY <3>1 DEF Fresh, Unused, Unsettled
    <3> QED
      BY <2>1, <3>2, <3>3, NoMoneyAfterWrite
  <2>3. CASE Recalculate(i)
    BY <2>1, <2>3, NoMoneyAfterWrite DEF Recalculate, InvOK
  <2> QED
    BY <1>2, <2>2, <2>3 DEF ToggleBalance
<1>3. ASSUME NEW i \in Invoices, ConfirmInvoice(i) \/ CancelInvoice(i)
      PROVE MovesNoMoney \/ Charges(i)
  <2>1. CASE AskForLink(i)
    BY <2>1, NoMoneyAfterWrite DEF AskForLink, Unsettled, InvOK
  <2>2. CASE Cancel(i)
    BY <2>2, NoMoneyAfterCancel
  <2>3. CASE MayConsume(i) /\ ConsumeInBot(i)
    BY <2>3, MoneyAfterConsume DEF MayConsume, ConsumeInBot, RolledBack
  <2> QED
    BY <1>3, <2>1, <2>2, <2>3 DEF ConfirmInvoice, CancelInvoice
<1> QED
  BY <1>1, <1>2, <1>3 DEF Bot

LEMMA MoneyStep ==
  ASSUME Sessions = {}, IInv, [Next]_vars
  PROVE MovesNoMoney \/ \E i \in Invoices : Charges(i)
<1> USE DEF IInv
<1>1. ASSUME NEW n, ProviderCallback(n) PROVE MovesNoMoney \/ Charges(n.id)
  <2>1. n.id \in Invoices
    BY <1>1 DEF ProviderCallback, ProvOK
  <2>2. CASE CallbackCancels(n.id, inv[n.id], n.status)
    BY <2>1, <2>2, NoMoneyAfterCancel DEF CallbackCancels
  <2>3. CASE CallbackSettles(n.id, inv[n.id], n.status) \/ CallbackFails(n.id, inv[n.id], n.status)
    BY <2>1, <2>3, MoneyAfterConsume DEF CallbackSettles, CallbackFails, CallbackConsumes, Open
  <2> QED
    BY <1>1, <2>2, <2>3 DEF ProviderCallback, Callback
<1>2. ASSUME NEW n \in notices, ProviderCallback(n)
      PROVE MovesNoMoney \/ \E i \in Invoices : Charges(i)
  BY <1>1, <1>2 DEF ProvOK
<1>3. CASE Cleanup
  BY <1>3, NoMoneyAfterWrite DEF Cleanup, CancelStale, Unsettled
<1>4. CASE NextMinute \/ Provider \/ (\E i \in Invoices : PollPending(i)) \/ UNCHANGED vars
  BY <1>4, NoMoneyAfterRollback DEF NextMinute, Provider, PollPending, Pay, Expire, Chargeback,
                                    SendWebhook, MoveProvider, vars
<1>5. ~Admin
  BY DEF Admin
<1> QED
  BY <1>2, <1>3, <1>4, <1>5, MoneyAfterBot DEF Next, Jobs

LEMMA TraceKept ==
  ASSUME IInv, NoEarlyTrace, MovesNoMoney \/ \E i \in Invoices : Charges(i)
  PROVE NoEarlyTrace'
<1>1. CASE MovesNoMoney
  BY <1>1 DEF MovesNoMoney, KeepsWorth, NoEarlyTrace
<1>2. ASSUME NEW i \in Invoices, Charges(i) PROVE NoEarlyTrace'
  <2>1. ~Unsettled(i)'
    BY <1>2 DEF Charges, SetStatus, Unsettled, IInv, InvOK, Invoice
  <2>2. \A j \in Invoices \ {i} : inv'[j] = inv[j] /\ rows'[j] = rows[j]
    BY <1>2 DEF Charges, SetStatus, Record, IInv, InvOK, RowsOK
  <2> QED
    BY <2>1, <2>2 DEF NoEarlyTrace, Unsettled
<1> QED
  BY <1>1, <1>2

-----------------------------------------------------------------------------
\* The two sums of MoneyIsConserved, as sums of functions.
Worth == [u \in Users |-> wallet[u] - InitBalance[u]]
Flow == [i \in Invoices |-> Moved(i)]
Bonuses == Cardinality(activated) * (InviterBonus + InvitedBonus)
Conserved == Total(Worth, Users) = Total(Flow, Invoices) + Bonuses

LEMMA ConservedIsConserved == MoneyIsConserved <=> Conserved
<1>1. MapThenSumSet(LAMBDA u : wallet[u] - InitBalance[u], Users) = Total(Worth, Users)
  <2> DEFINE G(g) == g = [s \in SUBSET Users |->
                            IF s = {} THEN 0
                            ELSE (wallet[Chosen(s)] - InitBalance[Chosen(s)]) + g[s \ {Chosen(s)}]]
  <2>1. \A g : IsFold(g, Worth, Users) <=> G(g)
    <3>1. \A s \in SUBSET Users :
            s # {} => Worth[Chosen(s)] = wallet[Chosen(s)] - InitBalance[Chosen(s)]
      BY ChosenIsIn DEF Worth
    <3> QED
      BY <3>1 DEF IsFold
  <2>2. \E g : G(g)
    BY <2>1, FoldExists, UsersAssumption
  <2> DEFINE h == CHOOSE g : G(g)
  <2>3. G(h)
    BY <2>2
  <2>4. MapThenSumSet(LAMBDA u : wallet[u] - InitBalance[u], Users) = h[Users]
    BY DEF MapThenSumSet, MapThenFoldSet, Chosen
  <2> HIDE DEF h, G
  <2> QED
    BY <2>1, <2>3, <2>4, TotalIsFold, UsersAssumption
<1>2. MapThenSumSet(Moved, Invoices) = Total(Flow, Invoices)
  <2> DEFINE G(g) == g = [s \in SUBSET Invoices |->
                            IF s = {} THEN 0 ELSE Moved(Chosen(s)) + g[s \ {Chosen(s)}]]
  <2>1. \A g : IsFold(g, Flow, Invoices) <=> G(g)
    <3>1. \A s \in SUBSET Invoices : s # {} => Flow[Chosen(s)] = Moved(Chosen(s))
      BY ChosenIsIn DEF Flow
    <3> QED
      BY <3>1 DEF IsFold
  <2>2. \E g : G(g)
    BY <2>1, FoldExists, InvoicesAssumption
  <2> DEFINE h == CHOOSE g : G(g)
  <2>3. G(h)
    BY <2>2
  <2>4. MapThenSumSet(Moved, Invoices) = h[Invoices]
    BY DEF MapThenSumSet, MapThenFoldSet, Chosen
  <2> HIDE DEF h, G
  <2> QED
    BY <2>1, <2>3, <2>4, TotalIsFold, InvoicesAssumption
<1> QED
  BY <1>1, <1>2 DEF MoneyIsConserved, Conserved, Bonuses

LEMMA MovedType == IInv => \A i \in Invoices : Moved(i) \in Int
<1> SUFFICES ASSUME IInv, NEW i \in Invoices PROVE Moved(i) \in Int
  OBVIOUS
<1>1. rows[i].credits \in Int /\ rows[i].debits \in Int
      /\ Payable(inv[i]) \in Int /\ inv[i].bal \in Int
  BY DEF IInv, InvOK, RowsOK, Invoice, Payable
<1> QED
  BY <1>1 DEF Moved

\* Without a charge, nothing moves on either side.
LEMMA ConservedWhenQuiet ==
  ASSUME IInv, IInv', NoEarlyTrace, MovesNoMoney, Conserved
  PROVE Conserved'
<1>1. Worth' = Worth /\ Bonuses' = Bonuses
  BY DEF MovesNoMoney, money, Worth, Bonuses
<1>2. \A j \in Invoices : Moved(j)' = Moved(j)
  <2> SUFFICES ASSUME NEW j \in Invoices PROVE Moved(j)' = Moved(j)
    OBVIOUS
  <2>1. CASE Unsettled(j)
    <3>1. /\ rows'[j].credits = 0 /\ rows'[j].debits = 0
          /\ rows[j].credits = 0 /\ rows[j].debits = 0
      BY <2>1 DEF MovesNoMoney, NoEarlyTrace
    <3>2. /\ Payable(inv'[j]) \in Int /\ inv'[j].bal \in Int
          /\ Payable(inv[j]) \in Int /\ inv[j].bal \in Int
      BY DEF IInv, InvOK, Invoice, Payable
    <3> QED
      BY <3>1, <3>2 DEF Moved
  <2>2. CASE ~Unsettled(j)
    BY <2>2 DEF MovesNoMoney, KeepsWorth, Moved, Payable
  <2> QED
    BY <2>1, <2>2
<1>3. Flow' = Flow
  BY <1>2 DEF Flow
<1> QED
  BY <1>1, <1>3 DEF Conserved

\* What the rows of a charge say that it moved.
TopUp(v) == IF v.purpose = "balance_topup" THEN Payable(v) ELSE 0

LEMMA FlowOfCharge ==
  ASSUME IInv, NEW i \in Invoices, Charges(i)
  PROVE Moved(i)' = Moved(i) + TopUp(inv[i]) - inv[i].bal
<1> DEFINE p == Payable(inv[i])
           b == inv[i].bal
           c == rows[i].credits
           d == rows[i].debits
<1>1. p \in Nat /\ b \in Nat /\ c \in Nat /\ d \in Nat
  BY DEF IInv, InvOK, Sound, RowsOK, Invoice, Payable
<1>2. Payable(inv'[i]) = p /\ inv'[i].bal = b
  BY DEF Charges, SetStatus, IInv, InvOK, Invoice, Payable
<1>3. rows'[i].credits = c + CreditRow(inv[i]) /\ rows'[i].debits = d + DebitRow(inv[i])
  BY DEF Charges, Record, IInv, RowsOK
<1>4. (c + CreditRow(inv[i])) * p = c * p + TopUp(inv[i])
  <2>1. CASE inv[i].purpose = "balance_topup" /\ p > 0
    <3>1. CreditRow(inv[i]) = 1 /\ TopUp(inv[i]) = p
      BY <2>1 DEF CreditRow, TopUp
    <3> HIDE DEF p, c
    <3>2. (c + 1) * p = c * p + p
      BY <1>1
    <3> QED
      BY <3>1, <3>2
  <2>2. CASE ~(inv[i].purpose = "balance_topup" /\ p > 0)
    <3>1. CreditRow(inv[i]) = 0 /\ TopUp(inv[i]) = 0
      BY <1>1, <2>2 DEF CreditRow, TopUp
    <3> HIDE DEF p, c
    <3>2. (c + 0) * p = c * p + 0
      BY <1>1
    <3> QED
      BY <3>1, <3>2
  <2> QED
    BY <2>1, <2>2
<1>5. (d + DebitRow(inv[i])) * b = d * b + b
  <2>1. CASE b > 0
    <3>1. DebitRow(inv[i]) = 1
      BY <2>1 DEF DebitRow
    <3> HIDE DEF b, d
    <3>2. (d + 1) * b = d * b + b
      BY <1>1
    <3> QED
      BY <3>1, <3>2
  <2>2. CASE b = 0
    <3>1. DebitRow(inv[i]) = 0
      BY <2>2 DEF DebitRow
    <3> HIDE DEF b, d
    <3>2. (d + 0) * b = d * b + b
      BY <1>1, <2>2
    <3> QED
      BY <3>1, <3>2
  <2> QED
    BY <1>1, <2>1, <2>2
<1>6. c * p \in Int /\ d * b \in Int /\ TopUp(inv[i]) \in Int
  <2> HIDE DEF p, b, c, d
  <2>1. c * p \in Int /\ d * b \in Int
    BY <1>1
  <2> QED
    BY <1>1, <2>1 DEF TopUp, p
<1>7. Moved(i)' = (c + CreditRow(inv[i])) * p - (d + DebitRow(inv[i])) * b
  <2> HIDE DEF p, b, c, d
  <2> QED
    BY <1>2, <1>3 DEF Moved
<1>8. Moved(i) = c * p - d * b
  BY DEF Moved
<1> HIDE DEF p, b, c, d
<1>9. Moved(i)' = (c * p + TopUp(inv[i])) - (d * b + inv[i].bal)
  BY <1>4, <1>5, <1>7 DEF b
<1> QED
  BY <1>1, <1>6, <1>8, <1>9 DEF b

\* The rows of the other invoices say what they said.
LEMMA FlowMoves ==
  ASSUME IInv, IInv', NEW i \in Invoices, Charges(i)
  PROVE Total(Flow, Invoices)' = Total(Flow, Invoices) + TopUp(inv[i]) - inv[i].bal
<1>1. \A j \in Invoices : j # i => Moved(j)' = Moved(j)
  BY DEF Charges, SetStatus, Record, IInv, InvOK, RowsOK, Moved, Payable
<1>2. \A j \in Invoices : j # i => Flow'[j] = Flow[j]
  BY <1>1 DEF Flow
<1>3. Flow'[i] = Flow[i] + TopUp(inv[i]) - inv[i].bal
  BY FlowOfCharge DEF Flow
<1>4. Flow \in [Invoices -> Int] /\ Flow' \in [Invoices -> Int]
  <2>1. \A j \in Invoices : Moved(j) \in Int
    BY MovedType
  <2>2. TopUp(inv[i]) \in Int /\ inv[i].bal \in Int
    BY DEF TopUp, IInv, InvOK, Invoice, Payable
  <2>3. \A j \in Invoices : Moved(j)' \in Int
    BY <1>1, <2>1, <2>2, FlowOfCharge
  <2> QED
    BY <2>1, <2>3 DEF Flow
<1>5. Total(Flow', Invoices) = Total(Flow, Invoices) + Flow'[i] - Flow[i]
  BY <1>2, <1>4, TotalMoves, InvoicesAssumption
<1>6. TopUp(inv[i]) \in Int /\ inv[i].bal \in Int
  BY DEF TopUp, IInv, InvOK, Invoice, Payable
<1>7. Total(Flow, Invoices) \in Int /\ Flow[i] \in Int
  BY <1>4, TotalType, InvoicesAssumption
<1> QED
  BY <1>3, <1>5, <1>6, <1>7

\* A charge takes the balance it uses from its payer, who may top up with it; the first
\* tariff of an invited user pays both bonuses.
LEMMA WorthMoves ==
  ASSUME IInv, IInv', NEW i \in Invoices, Charges(i)
  PROVE Total(Worth, Users)' = Total(Worth, Users) + TopUp(inv[i]) - inv[i].bal
          + (IF Activates(inv[i]) THEN InviterBonus + InvitedBonus ELSE 0)
<1> DEFINE v == inv[i]
           payer == v.user
           own == TopUp(v) - v.bal + (IF Activates(v) THEN InvitedBonus ELSE 0)
           w == [Worth EXCEPT ![payer] = @ + own]
<1>1. /\ payer \in Users /\ v.bal \in Nat /\ TopUp(v) \in Nat
      /\ Activates(v) => Inviter[payer] \in Users /\ Inviter[payer] # payer
  BY InviterAssumption, NobodyInvitesSelf
     DEF Charges, IInv, InvOK, Sound, Invoice, TopUp, Payable, Activates
<1>2. InviterBonus \in Nat /\ InvitedBonus \in Nat
  BY BonusAssumption
<1>3. Worth \in [Users -> Int] /\ Worth' \in [Users -> Int] /\ own \in Int
  BY <1>1, <1>2, BalanceAssumption DEF IInv, MoneyOK, Worth
<1>4. \A u \in Users : Worth'[u] = Worth[u] - Spend(u, v) + Gain(u, v)
  <2>1. \A u \in Users : Subtract(wallet[u], Spend(u, v)) = wallet[u] - Spend(u, v)
    BY <1>1 DEF Charges, BalanceCovers, Subtract, Spend, IInv, MoneyOK
  <2>2. \A u \in Users : Gain(u, v) \in Nat /\ Spend(u, v) \in Nat
    BY <1>1, GainType DEF Spend, IInv, InvOK
  <2>3. \A u \in Users : wallet'[u] = wallet[u] - Spend(u, v) + Gain(u, v)
    BY <2>1 DEF Charges, Charge
  <2> QED
    BY <2>2, <2>3, BalanceAssumption DEF Worth, IInv, MoneyOK
<1>5. Spend(payer, v) = v.bal
      /\ Gain(payer, v) = TopUp(v) + (IF Activates(v) THEN InvitedBonus ELSE 0)
  BY <1>1, <1>2 DEF Spend, Gain, TopUp
<1>6. \A u \in Users : u # payer =>
        Spend(u, v) = 0 /\ Gain(u, v) = IF Activates(v) /\ u = Inviter[payer] THEN InviterBonus ELSE 0
  BY <1>2 DEF Spend, Gain
<1> HIDE DEF v
<1>7. w \in [Users -> Int] /\ w[payer] = Worth'[payer]
      /\ \A u \in Users : u # payer => w[u] = Worth[u]
  BY <1>1, <1>2, <1>3, <1>4, <1>5
<1>8. w[payer] = Worth[payer] + own
  BY <1>1, <1>3
<1> HIDE DEF w
<1>9. Total(w, Users) = Total(Worth, Users) + w[payer] - Worth[payer]
  <2> HIDE DEF payer
  <2> QED
    BY <1>1, <1>3, <1>7, TotalMoves, UsersAssumption
<1>10. Total(Worth, Users) \in Int /\ Worth[payer] \in Int
  BY <1>1, <1>3, TotalType, UsersAssumption
<1>11. Total(w, Users) = Total(Worth, Users) + own
  <2> HIDE DEF own, payer
  <2> QED
    BY <1>3, <1>8, <1>9, <1>10
<1>12. CASE Activates(v)
  <2> DEFINE guest == Inviter[payer]
  <2>1. guest \in Users /\ guest # payer
    BY <1>1, <1>12
  <2>2. \A u \in Users : u # guest => Worth'[u] = w[u]
    BY <1>3, <1>4, <1>6, <1>7, <1>12
  <2>3. Worth'[guest] = w[guest] + InviterBonus /\ w[guest] \in Int
    BY <1>2, <1>3, <1>4, <1>6, <1>7, <1>12, <2>1
  <2> HIDE DEF guest
  <2>4. Total(Worth', Users) = Total(w, Users) + Worth'[guest] - w[guest]
    BY <1>3, <1>7, <2>1, <2>2, TotalMoves, UsersAssumption
  <2> QED
    BY <1>1, <1>2, <1>10, <1>11, <1>12, <2>3, <2>4 DEF v
<1>13. CASE ~Activates(v)
  <2>1. \A u \in Users : Worth'[u] = w[u]
    BY <1>3, <1>4, <1>6, <1>7, <1>13
  <2>2. Worth' = w
    BY <1>3, <1>7, <2>1
  <2> QED
    BY <1>1, <1>2, <1>10, <1>11, <1>13, <2>2 DEF v
<1> QED
  BY <1>12, <1>13

LEMMA BonusesMove ==
  ASSUME IInv, NEW i \in Invoices, Charges(i)
  PROVE /\ Bonuses \in Int
        /\ Bonuses' = Bonuses + (IF Activates(inv[i]) THEN InviterBonus + InvitedBonus ELSE 0)
<1> DEFINE n == Cardinality(activated)
           both == InviterBonus + InvitedBonus
<1>1. IsFiniteSet(activated) /\ n \in Nat /\ both \in Nat
  BY UsersAssumption, BonusAssumption, FS_Subset, FS_CardinalityType DEF IInv, MoneyOK
<1>2. Cardinality(activated') = IF Activates(inv[i]) THEN n + 1 ELSE n
  <2>1. CASE Activates(inv[i])
    <3>1. activated' = activated \cup {inv[i].user} /\ inv[i].user \notin activated
      BY <2>1 DEF Charges, Charge, Activates
    <3> QED
      BY <1>1, <2>1, <3>1, FS_AddElement
  <2>2. CASE ~Activates(inv[i])
    BY <2>2 DEF Charges, Charge
  <2> QED
    BY <2>1, <2>2
<1> HIDE DEF n, both
<1>3. n * both \in Int /\ (n + 1) * both = n * both + both
  BY <1>1
<1>4. Bonuses = n * both /\ Bonuses' = Cardinality(activated') * both
  BY DEF Bonuses, n, both
<1> QED
  BY <1>1, <1>2, <1>3, <1>4 DEF both

LEMMA ConservedAfterCharge ==
  ASSUME IInv, IInv', NEW i \in Invoices, Charges(i), Conserved
  PROVE Conserved'
<1> DEFINE extra == IF Activates(inv[i]) THEN InviterBonus + InvitedBonus ELSE 0
<1>1. extra \in Int /\ TopUp(inv[i]) \in Int /\ inv[i].bal \in Int
  BY BonusAssumption DEF TopUp, IInv, InvOK, Invoice, Payable
<1>2. Total(Flow, Invoices) \in Int
  BY MovedType, TotalType, InvoicesAssumption DEF Flow
<1>3. Bonuses \in Int /\ Bonuses' = Bonuses + extra
  BY BonusesMove
<1>4. Total(Worth, Users)' = Total(Worth, Users) + TopUp(inv[i]) - inv[i].bal + extra
  BY WorthMoves
<1>5. Total(Flow, Invoices)' = Total(Flow, Invoices) + TopUp(inv[i]) - inv[i].bal
  BY FlowMoves
<1> HIDE DEF extra
<1> QED
  BY <1>1, <1>2, <1>3, <1>4, <1>5 DEF Conserved

LEMMA InitConserved == Init => Conserved
<1> SUFFICES ASSUME Init PROVE Conserved
  OBVIOUS
<1>1. \A u \in Users : Worth[u] = 0
  BY BalanceAssumption DEF Init, Worth
<1>2. \A i \in Invoices : Flow[i] = 0
  BY DEF Init, Flow, Moved, Payable, NoInvoice
<1>3. Total(Worth, Users) = 0 /\ Total(Flow, Invoices) = 0
  BY <1>1, <1>2, TotalOfZeros, UsersAssumption, InvoicesAssumption
<1>4. Bonuses = 0
  BY BonusAssumption, FS_EmptySet DEF Init, Bonuses
<1> QED
  BY <1>3, <1>4 DEF Conserved

\* As long as nobody opens one invoice in the console, what the users hold is what they
\* started with, what the rows of their invoices say, and one bonus for each activated
\* referral, also when the panel's calls fail halfway and a charge is made again.
THEOREM NothingIsLostOrMade ==
  ASSUME Sessions = {}
  PROVE Spec => []MoneyIsConserved
<1>1. Init => NoEarlyTrace
  BY DEF Init, NoEarlyTrace
<1>2. IInv /\ IInv' /\ NoEarlyTrace /\ Conserved /\ [Next]_vars => NoEarlyTrace' /\ Conserved'
  BY MoneyStep, TraceKept, ConservedWhenQuiet, ConservedAfterCharge
<1>3. Conserved => MoneyIsConserved
  BY ConservedIsConserved
<1> QED
  BY <1>1, <1>2, <1>3, InitConserved, InvHolds, PTL DEF Spec
=============================================================================
