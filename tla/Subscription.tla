---------------------------- MODULE Subscription ----------------------------
(***************************************************************************)
(* One subscription: its row in the database, its user in the Marzban      *)
(* panel, and everything that writes to both                               *)
(* (src/app/services/subscriptions.py, src/app/services/marzban.py, the    *)
(* subscription pages of src/app/web/routes.py, the jobs of                *)
(* src/app/services/notifications.py).                                     *)
(*                                                                         *)
(* A service operation holds the lock of the row from its first step to    *)
(* its commit, and in between sends the panel one HTTP request per step.   *)
(* A console page and a notification job talk to the panel first, without  *)
(* the lock, and take the lock only to write what they learnt.  Every      *)
(* change of the panel is a read of the whole user followed by a PUT of    *)
(* the whole user.                                                         *)
(*                                                                         *)
(* Time is counted in months, traffic in tariff units.  The usage counter, *)
(* the URL and the device limit are not tracked.                           *)
(***************************************************************************)
EXTENDS Integers

CONSTANTS Renewals,    \* paid invoices with purpose tariff, of one month each
          Topups,      \* paid invoices with purpose topup, of one unit each
          ConsolePages,       \* the console pages that may be used, of AllPages
          Base,        \* the traffic of the tariff: monthly_traffic_bytes
          MaxTime,     \* bound on the months that pass
          MaxExpire,   \* bound on the extensions given by the console
          MaxFaults    \* bound on lost answers and lost commits

AllPages == {"disable", "enable", "extend"}

ASSUME SubscriptionAssumption ==
  /\ Renewals \cap Topups = {}
  /\ Renewals \cap {"none", "tariff_code", "admin_extend"} = {}   \* the notes of invoices
  /\ ConsolePages \subseteq AllPages
  /\ Base \in Nat \ {0}
  /\ MaxTime \in Nat /\ MaxExpire \in Nat /\ MaxFaults \in Nat

Invoices == Renewals \cup Topups

Later(a, b) == IF a > b THEN a ELSE b

VARIABLES panel,      \* the panel's user: [exp, limit, note, on]
          row,        \* the committed row: [exp, limit, extra, active, due]
          consumed,   \* the invoices whose consumption was committed
          task,       \* the operation that holds the row lock, or Resting
          page,       \* the console request in progress, or Resting
          job,        \* the snapshot a notification job holds, or NoUser
          month,      \* now
          faults,     \* lost answers and commits so far
          granted,    \* history: the expiry the payer is entitled to
          promised,   \* history: what granted becomes if the task commits
          bought,     \* history: units committed since the limit was last set
          applied,    \* history: how often each renewal was put to the panel
          forgotten,  \* history: renewals whose note has been overwritten
          switchedOff, \* history: the last word on the status was "disable"
          misread     \* history: something was written from an outdated reading

history == <<granted, promised, bought, applied, forgotten, switchedOff, misread>>
subscriptionVars == <<panel, row, consumed, task, page, job, month, faults, history>>

None == "none"
NoCycle == 0
NoUser == [exp |-> 0, limit |-> 0, note |-> None, on |-> FALSE]
Notes == Renewals \cup {"tariff_code", "admin_extend"}

\* task and page: what is done, the step it waits for, and what it has read.
Resting == [kind |-> None, inv |-> None, step |-> None, copy |-> NoUser,
            seen |-> NoUser, again |-> FALSE]

SubscriptionInit ==
  /\ panel = [exp |-> 1, limit |-> Base, note |-> "tariff_code", on |-> TRUE]
  /\ row = [exp |-> 1, limit |-> Base, extra |-> 0, active |-> TRUE, due |-> 1]
  /\ consumed = {}
  /\ task = Resting /\ page = Resting /\ job = NoUser
  /\ month = 0 /\ faults = 0
  /\ granted = 1 /\ promised = 1 /\ bought = 0
  /\ applied = [i \in Renewals |-> 0]
  /\ forgotten = {}
  /\ switchedOff = FALSE /\ misread = FALSE

-----------------------------------------------------------------------------
(* The panel                                                               *)

\* _sync_local_from_remote: the row takes over what the panel said.
Synced(r, p) ==
  [r EXCEPT !.exp = p.exp, !.limit = p.limit, !.active = p.on /\ p.exp > month]

\* PUT: the whole user is replaced; the note is the only mark of an invoice.
Put(user) ==
  /\ panel' = user
  /\ forgotten' = IF panel.note \in Renewals /\ user.note # panel.note
                  THEN forgotten \cup {panel.note} ELSE forgotten

\* renew_subscription extends from the expiry it read, or from now.
Extended(p) == Later(p.exp, month) + 1

Fault == faults < MaxFaults /\ faults' = faults + 1

-----------------------------------------------------------------------------
(* Service operations, under the lock of the row                           *)

StartWith(kind, i, step) ==
  /\ task = Resting
  /\ task' = [Resting EXCEPT !.kind = kind, !.inv = i, !.step = step]

\* apply_invoice: a paid invoice that was not consumed yet; it is retried by
\* the webhook, the polling job or the user until its consumption commits.
StartRenewal(i) ==
  /\ i \in Renewals \ consumed
  /\ StartWith("renewal", i, "look")
  /\ UNCHANGED <<panel, row, consumed, page, job, month, faults, history>>

StartTopup(i) ==
  /\ i \in Topups \ consumed
  /\ StartWith("topup", i, "look")
  /\ UNCHANGED <<panel, row, consumed, page, job, month, faults, history>>

\* process_monthly_reset of a subscription that has not expired
StartMonthlyReset ==
  /\ row.due # NoCycle /\ row.due <= month
  /\ row.exp > month
  /\ row.active
  /\ StartWith("reset", None, "look")
  /\ UNCHANGED <<panel, row, consumed, page, job, month, faults, history>>

\* ... and of one that has: no request is sent.
CloseExpiredCycle ==
  /\ task = Resting
  /\ row.due # NoCycle /\ row.due <= month
  /\ row.exp <= month
  /\ row.active
  /\ row' = [row EXCEPT !.active = FALSE, !.due = NoCycle]
  /\ UNCHANGED <<panel, consumed, task, page, job, month, faults, history>>

\* mutation: a retry does not look for its own note
NeverApplied(i) == FALSE

\* _apply_tariff_invoice compares the panel's note with that of the invoice.
AlreadyApplied(i) == panel.note = i

\* The first GET.  A renewal whose note is found goes straight to its commit.
Look ==
  /\ task.step = "look"
  /\ LET again == task.kind = "renewal" /\ AlreadyApplied(task.inv)
     IN task' = [task EXCEPT !.seen = panel, !.copy = panel, !.again = again,
                             !.step = IF again THEN "commit" ELSE "read"]
  /\ UNCHANGED <<panel, row, consumed, page, job, month, faults, history>>

\* The next GET: renew_subscription takes the expiry from it, modify_user
\* everything it is not told to change.
Read ==
  /\ task.step = "read"
  /\ task' = [task EXCEPT !.copy = panel, !.step = "write"]
  /\ UNCHANGED <<panel, row, consumed, page, job, month, faults, history>>

Renewed(t) == [exp |-> Extended(t.copy), limit |-> Base, note |-> t.inv, on |-> TRUE]

\* The limit is the one topup_traffic read, the rest what modify_user read.
ToppedUp(t) == [t.copy EXCEPT !.limit = t.seen.limit + 1, !.on = TRUE]

\* mutation: the monthly reset keeps the note of the last renewal
MonthlyKeepsNote(t) == [exp |-> row.exp, limit |-> Base, note |-> t.seen.note, on |-> t.seen.on]

\* mutation: the monthly reset sets the status on create
MonthlyActivates(t) == [exp |-> row.exp, limit |-> Base, note |-> "tariff_code", on |-> TRUE]

\* create_or_update_vless_user puts the expiry of the row; the status is the
\* one its own GET saw.
Monthly(t) == [exp |-> row.exp, limit |-> Base, note |-> "tariff_code", on |-> t.seen.on]

NewUser(t) ==
  CASE t.kind = "renewal" -> Renewed(t)
    [] t.kind = "topup" -> ToppedUp(t)
    [] t.kind = "reset" -> Monthly(t)

\* What is put now is not what a reading of this moment would put.
Misreads(t) ==
  \/ t.step = "write" /\ NewUser(t) # NewUser([t EXCEPT !.seen = panel, !.copy = panel])
  \/ t.step = "resend" /\ NewUser(t) # panel

\* The PUT takes effect, whether or not its answer will arrive.
WriteTakesEffect ==
  /\ task.step \in {"write", "resend"}
  /\ Put(NewUser(task))
  /\ IF task.kind = "renewal"
     THEN /\ applied' = [applied EXCEPT ![task.inv] = @ + (IF task.step = "write" THEN 1 ELSE 0)]
          /\ promised' = Later(granted, month) + 1
     ELSE UNCHANGED <<applied, promised>>
  /\ bought' = IF task.kind = "topup" THEN bought ELSE 0
  /\ switchedOff' = (switchedOff /\ task.kind = "reset")
  /\ misread' = (misread \/ Misreads(task))
  /\ UNCHANGED <<row, consumed, page, job, month, granted>>

Write ==
  /\ WriteTakesEffect
  /\ task' = [task EXCEPT !.copy = panel', !.step = "commit"]
  /\ UNCHANGED faults

\* The answer of the PUT is lost and _do_request sends the same PUT again.
WriteIsRepeated ==
  /\ WriteTakesEffect
  /\ Fault
  /\ task' = [task EXCEPT !.step = "resend"]

\* ... or has no attempt left, raises, and the operation is abandoned.
WriteIsGivenUp ==
  /\ WriteTakesEffect
  /\ Fault
  /\ task' = Resting

\* A request fails, or the process dies, before a PUT.  What was synced so
\* far is rolled back by the webhook and committed by the bot's middleware.
TaskFails ==
  /\ task.step \in {"look", "read", "write"}
  /\ Fault
  /\ task' = Resting
  /\ \/ row' = row
     \/ task.kind = "renewal" /\ task.step # "look" /\ row' = Synced(row, task.seen)
  /\ UNCHANGED <<panel, consumed, page, job, month, history>>

\* The transaction is lost after the panel was changed.
CommitIsLost ==
  /\ task.step = "commit"
  /\ Fault
  /\ task' = Resting
  /\ UNCHANGED <<panel, row, consumed, page, job, month, history>>

\* mutation: a renewal keeps the traffic bought in the old cycle
RenewedRowKeepsExtra(t) ==
  LET r == Synced(row, t.copy)
  IN [r EXCEPT !.active = TRUE, !.limit = Base + r.extra, !.due = month + 1]

\* mutation: the cycle ends a month late
RenewedRowEndsLate(t) ==
  LET r == Synced(row, t.copy)
  IN [r EXCEPT !.active = TRUE, !.limit = Base, !.extra = 0, !.due = month + 2]

\* _apply_tariff_invoice, after the panel: a renewal that was already applied
\* keeps the cycle and the extra traffic if a cycle is set.
RenewedRow(t) ==
  LET r == Synced(row, t.copy)
  IN IF t.again /\ row.due # NoCycle
     THEN [r EXCEPT !.active = TRUE, !.limit = Base + r.extra]
     ELSE [r EXCEPT !.active = TRUE, !.limit = Base, !.extra = 0, !.due = month + 1]

\* _apply_topup_invoice, after the panel
ToppedUpRow(t) ==
  [Synced(row, t.copy) EXCEPT
     !.extra = row.extra + 1,
     !.limit = Base + row.extra + 1,
     !.due = IF row.due # NoCycle THEN row.due
             ELSE IF row.exp > month THEN month + 1 ELSE month]

\* process_monthly_reset, after the panel
MonthlyRow(t) ==
  [Synced(row, t.copy) EXCEPT !.extra = 0, !.limit = Base, !.due = month + 1]

\* The rest of the operation is local and commits in one piece.
Commit ==
  /\ task.step = "commit"
  /\ row' = CASE task.kind = "renewal" -> RenewedRow(task)
              [] task.kind = "topup" -> ToppedUpRow(task)
              [] task.kind = "reset" -> MonthlyRow(task)
  /\ consumed' = IF task.kind = "reset" THEN consumed ELSE consumed \cup {task.inv}
  /\ granted' = IF task.kind = "renewal" THEN promised ELSE granted
  /\ bought' = IF task.kind = "topup" THEN bought + 1 ELSE bought
  /\ misread' = (misread \/ task.copy # panel)
  /\ task' = Resting
  /\ UNCHANGED <<panel, page, job, month, faults, promised, applied, forgotten, switchedOff>>

-----------------------------------------------------------------------------
(* Console pages: the panel first, without the lock, then the row.         *)

\* The check of the state is on a row read without the lock.
StartPage(k) ==
  /\ page = Resting
  /\ k \in ConsolePages
  /\ k = "disable" => row.active
  /\ k = "enable" => ~row.active
  /\ k = "extend" => panel.exp < MaxExpire
  /\ page' = [Resting EXCEPT !.kind = k, !.step = "read"]
  /\ UNCHANGED <<panel, row, consumed, task, job, month, faults, history>>

PageReads ==
  /\ page.step = "read"
  /\ page' = [page EXCEPT !.copy = panel, !.step = "write"]
  /\ UNCHANGED <<panel, row, consumed, task, job, month, faults, history>>

\* safe_modify_user changes one field of the copy it read; renew_subscription
\* sets every field.
PageUser(p) ==
  CASE p.kind = "disable" -> [p.copy EXCEPT !.on = FALSE]
    [] p.kind = "enable" -> [p.copy EXCEPT !.on = TRUE]
    [] p.kind = "extend" -> [exp |-> Extended(p.copy), limit |-> Base,
                             note |-> "admin_extend", on |-> TRUE]

PageTakesEffect ==
  /\ page.step = "write"
  /\ Put(PageUser(page))
  /\ bought' = IF page.kind = "extend" THEN 0 ELSE bought
  /\ switchedOff' = (switchedOff /\ page.kind = "disable")
  /\ misread' = (misread \/ PageUser(page) # PageUser([page EXCEPT !.copy = panel]))
  /\ UNCHANGED <<row, consumed, task, job, month, granted, promised, applied>>

PageWrites ==
  /\ PageTakesEffect
  /\ page' = [page EXCEPT !.copy = panel', !.step = "save"]
  /\ UNCHANGED faults

\* A page whose request raised changes no row, also when it took effect.
PageFails ==
  /\ Fault
  /\ page' = Resting
  /\ \/ PageTakesEffect
     \/ /\ page.step \in {"read", "write"}
        /\ UNCHANGED <<panel, row, consumed, task, job, month, history>>

\* The last step takes the lock, and writes only its own fields.
PageSaves ==
  /\ page.step = "save"
  /\ task = Resting
  /\ row' = CASE page.kind = "disable" -> [row EXCEPT !.active = FALSE]
              [] page.kind = "enable" -> [row EXCEPT !.active = TRUE]
              [] page.kind = "extend" -> [row EXCEPT !.exp = page.copy.exp, !.active = TRUE]
  /\ granted' = IF page.kind = "extend" THEN Later(granted, month) + 1 ELSE granted
  /\ switchedOff' = (switchedOff \/ page.kind = "disable")
  /\ misread' = (misread \/ page.copy # panel)
  /\ page' = Resting
  /\ UNCHANGED <<panel, consumed, task, job, month, faults, promised, bought, applied, forgotten>>

-----------------------------------------------------------------------------
(* Notification jobs: check_expiring, check_low_traffic and                *)
(* check_traffic_exhaustion read the panel, then lock and sync the row.    *)

JobReads ==
  /\ job = NoUser
  /\ row.active
  /\ job' = panel
  /\ UNCHANGED <<panel, row, consumed, task, page, month, faults, history>>

JobSyncs ==
  /\ job # NoUser
  /\ task = Resting
  /\ row' = Synced(row, job)
  /\ job' = NoUser
  /\ misread' = (misread \/ Synced(row, job) # Synced(row, panel))
  /\ UNCHANGED <<panel, consumed, task, page, month, faults, granted, promised, bought, applied,
                 forgotten, switchedOff>>

\* A month passes: much longer than any request.
AMonthPasses ==
  /\ month < MaxTime
  /\ task = Resting /\ page = Resting /\ job = NoUser
  /\ month' = month + 1
  /\ UNCHANGED <<panel, row, consumed, task, page, job, faults, history>>

Operate ==
  \/ \E i \in Renewals : StartRenewal(i)
  \/ \E i \in Topups : StartTopup(i)
  \/ StartMonthlyReset
  \/ CloseExpiredCycle
  \/ Look
  \/ Read
  \/ Write
  \/ WriteIsRepeated
  \/ WriteIsGivenUp
  \/ TaskFails
  \/ CommitIsLost
  \/ Commit

Administer ==
  \/ \E k \in ConsolePages : StartPage(k)
  \/ PageReads
  \/ PageWrites
  \/ PageFails
  \/ PageSaves

SubscriptionNext ==
  \/ Operate
  \/ Administer
  \/ JobReads
  \/ JobSyncs
  \/ AMonthPasses

SubscriptionSpec == SubscriptionInit /\ [][SubscriptionNext]_subscriptionVars

-----------------------------------------------------------------------------
(* Properties                                                              *)

Users == [exp : Nat, limit : Nat, note : Notes, on : BOOLEAN]

\* Every variable keeps its type; the cycle of the row ends at most one month
\* from now.
SubscriptionTypeOK ==
  /\ panel \in Users
  /\ row.exp \in Nat /\ row.limit \in Nat /\ row.extra \in Nat
  /\ row.active \in BOOLEAN /\ row.due \in 0 .. month + 1
  /\ consumed \subseteq Invoices
  /\ task.step \in {None, "look", "read", "write", "resend", "commit"}
  /\ page.step \in {None, "read", "write", "save"}
  /\ job = NoUser \/ job \in Users
  /\ month \in 0 .. MaxTime /\ faults \in 0 .. MaxFaults
  /\ misread \in BOOLEAN

\* "Safely update a user while preserving existing proxies/inbounds/state" (modify_user):
\* what was paid for is in the panel.
PaidIsAlwaysKept ==
  /\ panel.exp >= granted
  /\ panel.limit >= Base + bought

\* What was paid for is in the panel: the months of the consumed invoices and
\* of the extensions, and the traffic bought since the cycle began, whatever
\* requests and commits were lost and repeated, and however pages, jobs and
\* operations run beside each other, until one of them writes back a reading that
\* another has made outdated (renew_subscription, topup_traffic, modify_user,
\* process_monthly_reset).
PaidIsKept == misread \/ PaidIsAlwaysKept

\* The panel is extended twice for one invoice only if the note that names the
\* invoice was overwritten before the retry (_apply_tariff_invoice).
RepeatedOnlyIfForgotten == \A i \in Renewals : applied[i] > 1 => i \in forgotten

\* A user the admin switched off stays off until a payment or an admin turns
\* it on again: the monthly reset and the jobs do not.
OffStaysOff == switchedOff /\ ~misread => ~panel.on

AtRest == task = Resting /\ page = Resting /\ job = NoUser

\* When nothing was lost and nobody is at work, the row tells what the panel
\* does: the expiry, whether the user is served, and the traffic; an extension
\* by the console lowers the panel to the tariff and leaves the row as it was.
RowFollowsPanel ==
  AtRest /\ faults = 0 /\ ~misread =>
    /\ row.exp = panel.exp
    /\ panel.limit <= row.limit
    /\ panel.note # "admin_extend" => panel.limit = row.limit
    /\ row.exp > month => row.active = panel.on

\* The row and the panel drift apart only after a lost answer or commit, or a write
\* from an outdated reading: nobody is turned on again by a job, and the row shows
\* what the panel does.
PanelAndRowAgree == OffStaysOff /\ RowFollowsPanel
=============================================================================
