--------------------------- MODULE SupportTickets ---------------------------
(***************************************************************************)
(* Support tickets: the user's handlers and the operators' handlers of     *)
(* src/app/handlers/support.py, the ticket pages of src/app/web/routes.py, *)
(* the auto-close job of src/app/services/notifications.py and the         *)
(* erasure of an account (src/app/services/privacy.py).                    *)
(*                                                                         *)
(* Each handler is a worker with one transaction.  Every handler of the    *)
(* user first finds the account by its Telegram id and then locks the      *)
(* user's row until the end; most handlers also lock the ticket's row, and *)
(* all of them talk to Telegram while they hold their locks.  What a       *)
(* worker reads without the lock may be old when it is written back.       *)
(*                                                                         *)
(* Tags, the assignee, the reason and the dates of a closing, attachments  *)
(* and the mark that a user has blocked the bot are not tracked.           *)
(***************************************************************************)
EXTENDS Naturals, Sequences, FiniteSets, SequencesExt

CONSTANTS Workers,     \* handlers, requests and jobs at work at once
          Users,
          Tickets,     \* ids, in the order of support_tickets.id
          MaxMessages, \* bound on the messages carried
          MaxBreaks    \* bound on the transactions that are cut off

ASSUME TicketsAssumption ==
  /\ Tickets \subseteq Nat \ {0} /\ IsFiniteSet(Tickets)
  /\ MaxMessages \in Nat /\ MaxBreaks \in Nat

Free == "free"

\* No worker or user has the name that says that there is none.
ASSUME LocksAssumption == Free \notin Workers /\ IsFiniteSet(Workers) /\ "none" \notin Users

NoTicket == 0

\* ACTIVE_STATUSES of SupportTicketRepository.
Active == {"waiting_operator", "waiting_user"}

VARIABLES ticket,     \* the rows: [user, status, recent, texts]
          rowLock,    \* the worker that holds the row of a ticket, or Free
          userLock,   \* the worker that holds the row of a user, or Free
          erased,     \* users with anonymized_at
          work,       \* what a worker is doing: [op, user, ticket, saw, todo]
          carried,    \* history: messages delivered to the other side
          stored,     \* history: messages committed
          closings,   \* history: closings told by ticket_closed and user_erased
          reopenings, \* history: closed tickets made active again
          late,       \* history: users a handler had found before the erasure
          breaks      \* transactions cut off so far

ticketHistory == <<carried, stored, closings, reopenings, late, breaks>>
ticketsVars == <<ticket, rowLock, userLock, erased, work, ticketHistory>>

Absent == [user |-> "none", status |-> "absent", recent |-> FALSE, texts |-> 0]
AtRest == [op |-> "idle", user |-> "none", ticket |-> NoTicket, saw |-> "absent",
           todo |-> << >>]

TicketsInit ==
  /\ ticket = [t \in Tickets |-> Absent]
  /\ rowLock = [t \in Tickets |-> Free] /\ userLock = [u \in Users |-> Free]
  /\ erased = {} /\ late = {} /\ breaks = 0
  /\ work = [w \in Workers |-> AtRest]
  /\ carried = [t \in Tickets |-> 0] /\ stored = [t \in Tickets |-> 0]
  /\ closings = [t \in Tickets |-> 0] /\ reopenings = [t \in Tickets |-> 0]

-----------------------------------------------------------------------------
(* Rows and locks                                                          *)

IsActive(t) == ticket[t].status \in Active
ActiveOf(u) == {t \in Tickets : ticket[t].user = u /\ IsActive(t)}

\* The id the next insert gets: uncommitted inserts hold theirs.
Fresh == {t \in Tickets :
            /\ ticket[t] = Absent
            /\ \A w \in Workers : work[w].ticket # t
            /\ \A s \in Tickets : s < t =>
                 ticket[s] # Absent \/ \E w \in Workers : work[w].ticket = s}

\* mutation: the locks of the tickets only
FinishInPart(w) ==
  /\ work' = [work EXCEPT ![w] = AtRest]
  /\ rowLock' = [t \in Tickets |-> IF rowLock[t] = w THEN Free ELSE rowLock[t]]
  /\ UNCHANGED userLock

\* A commit or a rollback gives back every lock of the worker.
Finish(w) ==
  /\ work' = [work EXCEPT ![w] = AtRest]
  /\ rowLock' = [t \in Tickets |-> IF rowLock[t] = w THEN Free ELSE rowLock[t]]
  /\ userLock' = [u \in Users |-> IF userLock[u] = w THEN Free ELSE userLock[u]]

Now(w, op) == work' = [work EXCEPT ![w].op = op]

\* SupportTicketRepository.close and the audit row of its callers.
Closed(t) == [ticket EXCEPT ![t].status = "closed"]

\* mutation: a close that does not look whether the ticket is closed already
CloseAgain(t) ==
  /\ ticket' = Closed(t)
  /\ closings' = [closings EXCEPT ![t] = @ + 1]

Close(t) ==
  IF IsActive(t) THEN /\ ticket' = Closed(t)
                      /\ closings' = [closings EXCEPT ![t] = @ + 1]
                 ELSE UNCHANGED <<ticket, closings>>

-----------------------------------------------------------------------------
(* The user's handlers                                                     *)

\* create_or_get of get_or_create_user finds the row by the Telegram id, which
\* an erased account no longer has.
Arrive(w, u, op, t) ==
  /\ work[w] = AtRest
  /\ u \notin erased
  /\ work' = [work EXCEPT ![w] = [op |-> op, user |-> u, ticket |-> t,
                                  saw |-> "absent", todo |-> << >>]]
  /\ UNCHANGED <<ticket, rowLock, userLock, erased, ticketHistory>>

UserArrives(w, u) ==
  \/ Arrive(w, u, "new", NoTicket)
  \/ \E t \in Tickets : ticket[t].user = u /\ (Arrive(w, u, "reply", t) \/ Arrive(w, u, "close", t))

\* mutation: no lock on the user
TakeNoUser(w, u) == UNCHANGED userLock

\* get_by_id_for_update of get_or_create_user.
TakeUser(w, u) == userLock[u] = Free /\ userLock' = [userLock EXCEPT ![u] = w]

\* After the lock, an unlocked read: the user's active ticket, if there is one.

LookForTicket(w) ==
  LET u == work[w].user IN
  /\ work[w].op = "new"
  /\ TakeUser(w, u)
  /\ \/ \E t \in ActiveOf(u) :
          work' = [work EXCEPT ![w].op = "newFound", ![w].ticket = t,
                               ![w].saw = ticket[t].status]
     \/ /\ ActiveOf(u) = {}
        /\ \E t \in Fresh : work' = [work EXCEPT ![w].op = "newFound", ![w].ticket = t]
  /\ UNCHANGED <<ticket, rowLock, erased, ticketHistory>>

Traffic == MapThenSumSet(LAMBDA t : carried[t], Tickets)

\* mutation: an undelivered message is taken for a delivered one
CarryNothing(t) == Traffic < MaxMessages /\ UNCHANGED carried

\* The message is copied to the support chat or to the staff.
Carry(t) == Traffic < MaxMessages /\ carried' = [carried EXCEPT ![t] = @ + 1]

SendNew(w) ==
  /\ work[w].op = "newFound"
  /\ Carry(work[w].ticket)
  /\ Now(w, "newSent")
  /\ UNCHANGED <<ticket, rowLock, userLock, erased, stored, closings,
                 reopenings, late, breaks>>

\* Nobody could be reached: a ticket made for the message is deleted.
NewUndelivered(w) ==
  /\ work[w].op = "newFound"
  /\ Finish(w)
  /\ UNCHANGED <<ticket, erased, ticketHistory>>

\* The status a stale copy writes: only a column that differs from the copy.
Touched(t, saw) == IF saw = "waiting_operator" THEN ticket[t].status ELSE "waiting_operator"

\* The message and touch_user_reply, whose guard sees the copy, not the row.
\* The foreign key of the message waits for a ticket that is locked.
SaveNew(w) ==
  LET t == work[w].ticket
      status == Touched(t, work[w].saw) IN
  /\ work[w].op = "newSent"
  /\ rowLock[t] = Free
  /\ ticket' = [ticket EXCEPT ![t] = [user |-> work[w].user, status |-> status,
                                      recent |-> TRUE, texts |-> @.texts + 1]]
  /\ reopenings' = [reopenings EXCEPT ![t] =
                      @ + (IF ticket[t].status = "closed" /\ status # "closed" THEN 1 ELSE 0)]
  /\ stored' = [stored EXCEPT ![t] = @ + 1]
  /\ Finish(w)
  /\ UNCHANGED <<erased, carried, closings, late, breaks>>

UserIsLocked(w) ==
  /\ work[w].op \in {"reply", "close"} /\ userLock[work[w].user] # w
  /\ TakeUser(w, work[w].user)
  /\ UNCHANGED <<ticket, rowLock, erased, work, ticketHistory>>

TakeRow(w, t) == rowLock[t] = Free /\ rowLock' = [rowLock EXCEPT ![t] = w]

\* mutation: the reply reads its ticket without the lock
LockReplyLoosely(w) ==
  LET t == work[w].ticket IN
  /\ work[w].op = "reply" /\ userLock[work[w].user] = w
  /\ IsActive(t)
  /\ Now(w, "replyLocked")
  /\ UNCHANGED <<ticket, rowLock, userLock, erased, ticketHistory>>

LockReply(w) ==
  LET t == work[w].ticket IN
  /\ work[w].op = "reply" /\ userLock[work[w].user] = w
  /\ IsActive(t)
  /\ TakeRow(w, t)
  /\ Now(w, "replyLocked")
  /\ UNCHANGED <<ticket, userLock, erased, ticketHistory>>

ReplyRefused(w) ==
  LET t == work[w].ticket IN
  /\ work[w].op = "reply" /\ userLock[work[w].user] = w
  /\ rowLock[t] = Free /\ ~IsActive(t)
  /\ Finish(w)
  /\ UNCHANGED <<ticket, erased, ticketHistory>>

SendReply(w) ==
  /\ work[w].op = "replyLocked"
  /\ Carry(work[w].ticket)
  /\ Now(w, "replySent")
  /\ UNCHANGED <<ticket, rowLock, userLock, erased, stored, closings,
                 reopenings, late, breaks>>

ReplyUndelivered(w) ==
  /\ work[w].op = "replyLocked"
  /\ Finish(w)
  /\ UNCHANGED <<ticket, erased, ticketHistory>>

\* touch_user_reply or touch_admin_reply on a row that is locked.
Record(t, status) ==
  /\ ticket' = [ticket EXCEPT ![t].status = status, ![t].recent = TRUE, ![t].texts = @ + 1]
  /\ stored' = [stored EXCEPT ![t] = @ + 1]

SaveReply(w) ==
  /\ work[w].op = "replySent"
  /\ Record(work[w].ticket, "waiting_operator")
  /\ Finish(w)
  /\ UNCHANGED <<erased, carried, closings, reopenings, late, breaks>>

UserCloses(w) ==
  LET t == work[w].ticket IN
  /\ work[w].op = "close" /\ userLock[work[w].user] = w
  /\ rowLock[t] = Free
  /\ Close(t)
  /\ Finish(w)
  /\ UNCHANGED <<erased, carried, stored, reopenings, late, breaks>>

-----------------------------------------------------------------------------
(* The operators                                                           *)

LockAnswer(w, t) ==
  /\ work[w] = AtRest
  /\ IsActive(t)
  /\ TakeRow(w, t)
  /\ work' = [work EXCEPT ![w] = [AtRest EXCEPT !.op = "answerLocked", !.ticket = t,
                                                !.user = ticket[t].user]]
  /\ UNCHANGED <<ticket, userLock, erased, ticketHistory>>

SendAnswer(w) ==
  /\ work[w].op = "answerLocked"
  /\ Carry(work[w].ticket)
  /\ Now(w, "answerSent")
  /\ UNCHANGED <<ticket, rowLock, userLock, erased, stored, closings,
                 reopenings, late, breaks>>

AnswerUndelivered(w) ==
  /\ work[w].op = "answerLocked"
  /\ Finish(w)
  /\ UNCHANGED <<ticket, erased, ticketHistory>>

\* The user has blocked the bot: _mark_user_bot_blocked wants the user's row
\* while the ticket is locked.
AnswerForbidden(w) ==
  /\ work[w].op = "answerLocked"
  /\ Now(w, "marking")
  /\ UNCHANGED <<ticket, rowLock, userLock, erased, ticketHistory>>

MarkBlocked(w) ==
  /\ work[w].op = "marking"
  /\ userLock[work[w].user] = Free
  /\ Finish(w)
  /\ UNCHANGED <<ticket, erased, ticketHistory>>

SaveAnswer(w) ==
  /\ work[w].op = "answerSent"
  /\ Record(work[w].ticket, "waiting_user")
  /\ Finish(w)
  /\ UNCHANGED <<erased, carried, closings, reopenings, late, breaks>>

\* The operator's button and the console's page: one transaction with no
\* request in it.
StaffCloses(t) ==
  /\ rowLock[t] = Free
  /\ IsActive(t)
  /\ Close(t)
  /\ UNCHANGED <<rowLock, userLock, erased, work, carried, stored, reopenings,
                 late, breaks>>

\* The console's bulk close locks the rows in the order of the form and
\* closes each at once; they commit together.
BulkStarts(w) ==
  /\ work[w] = AtRest
  /\ \E s \in SetToSeqs({t \in Tickets : ticket[t] # Absent}) :
       /\ Len(s) > 1
       /\ work' = [work EXCEPT ![w] = [AtRest EXCEPT !.op = "bulk", !.todo = s]]
  /\ UNCHANGED <<ticket, rowLock, userLock, erased, ticketHistory>>

BulkLocks(w) ==
  /\ work[w].op = "bulk" /\ work[w].todo # << >>
  /\ TakeRow(w, Head(work[w].todo))
  /\ work' = [work EXCEPT ![w].todo = Tail(@)]
  /\ UNCHANGED <<ticket, userLock, erased, ticketHistory>>

Held(w) == {t \in Tickets : rowLock[t] = w}

BulkCommits(w) ==
  /\ work[w].op = "bulk" /\ work[w].todo = << >>
  /\ ticket' = [t \in Tickets |-> IF t \in Held(w) /\ IsActive(t)
                                  THEN [ticket[t] EXCEPT !.status = "closed"] ELSE ticket[t]]
  /\ closings' = [t \in Tickets |-> closings[t] +
                                      (IF t \in Held(w) /\ IsActive(t) THEN 1 ELSE 0)]
  /\ Finish(w)
  /\ UNCHANGED <<erased, carried, stored, reopenings, late, breaks>>

-----------------------------------------------------------------------------
(* The auto-close job                                                      *)

\* The last message gets older than support_ticket_auto_close_hours.
HoursPass(t) ==
  /\ ticket[t].recent
  /\ ticket' = [ticket EXCEPT ![t].recent = FALSE]
  /\ UNCHANGED <<rowLock, userLock, erased, work, ticketHistory>>

Due == {t \in Tickets : IsActive(t) /\ ~ticket[t].recent}

\* due_auto_close lists without a lock, by id.
AutoLists(w) ==
  /\ work[w] = AtRest
  /\ Due # {}
  /\ \E s \in SetToSeqs(Due) :
       /\ \A i, j \in DOMAIN s : i < j => s[i] < s[j]
       /\ work' = [work EXCEPT ![w] = [AtRest EXCEPT !.op = "auto", !.todo = s]]
  /\ UNCHANGED <<ticket, rowLock, userLock, erased, ticketHistory>>

\* Each ticket in a transaction of its own, which looks again whether it is
\* active and not whether it is still old.
AutoCloses(w) ==
  LET t == Head(work[w].todo) IN
  /\ work[w].op = "auto" /\ work[w].todo # << >>
  /\ rowLock[t] = Free
  /\ Close(t)
  /\ work' = [work EXCEPT ![w].todo = Tail(@)]
  /\ UNCHANGED <<rowLock, userLock, erased, carried, stored, reopenings, late, breaks>>

AutoEnds(w) ==
  /\ work[w].op = "auto" /\ work[w].todo = << >>
  /\ Finish(w)
  /\ UNCHANGED <<ticket, erased, ticketHistory>>

-----------------------------------------------------------------------------
(* Erasure of the account, by the user or by the console                   *)

EraseStarts(w, u) == Arrive(w, u, "erase", NoTicket)

\* The user is locked and the tickets read, without a lock on them.
EraseReads(w) ==
  LET u == work[w].user IN
  /\ work[w].op = "erase"
  /\ TakeUser(w, u)
  /\ work' = [work EXCEPT ![w].op = "eraseRead", ![w].todo = SetToSeq(ActiveOf(u))]
  /\ UNCHANGED <<ticket, rowLock, erased, ticketHistory>>

\* mutation: the texts go, the ticket stays open
ForgottenOpen(t, read) == [ticket[t] EXCEPT !.texts = 0]

Forgotten(t, read) ==
  [ticket[t] EXCEPT !.texts = 0, !.status = IF t \in read THEN "closed" ELSE @]

\* close of every ticket read as active, whatever it is now, then the texts of
\* all, the account and the commit.  The row user_erased lists them.
EraseCommits(w) ==
  LET u == work[w].user
      read == ToSet(work[w].todo) IN
  /\ work[w].op = "eraseRead"
  /\ \A t \in read : rowLock[t] = Free
  /\ ticket' = [t \in Tickets |->
                  IF ticket[t].user = u THEN Forgotten(t, read) ELSE ticket[t]]
  /\ closings' = [t \in Tickets |-> closings[t] + (IF t \in read THEN 1 ELSE 0)]
  /\ erased' = erased \cup {u}
  /\ late' = IF \E v \in Workers \ {w} : work[v].user = u /\ work[v].op = "new"
             THEN late \cup {u} ELSE late
  /\ Finish(w)
  /\ UNCHANGED <<carried, stored, reopenings, breaks>>

-----------------------------------------------------------------------------
(* Broken transactions                                                     *)

\* The row a worker waits for: its holder.
Awaited(w) ==
  CASE work[w].op \in {"new", "erase"} -> userLock[work[w].user]
    [] work[w].op \in {"reply", "close"} ->
         IF userLock[work[w].user] # w THEN userLock[work[w].user]
                                       ELSE rowLock[work[w].ticket]
    [] work[w].op = "newSent" -> rowLock[work[w].ticket]
    [] work[w].op = "marking" -> userLock[work[w].user]
    [] work[w].op = "bulk" /\ work[w].todo # << >> -> rowLock[Head(work[w].todo)]
    [] work[w].op = "auto" /\ work[w].todo # << >> -> rowLock[Head(work[w].todo)]
    [] work[w].op = "eraseRead" /\ work[w].todo # << >> -> rowLock[Head(work[w].todo)]
    [] OTHER -> Free

InCycle(w) ==
  \E S \in SUBSET Workers : w \in S /\ \A v \in S : Awaited(v) \in S \ {v}

\* mutation: the database does not look for cycles of waiting transactions
NoVictim(w) == FALSE /\ UNCHANGED ticketsVars

\* PostgreSQL ends one transaction of a cycle.
DeadlockVictim(w) ==
  /\ InCycle(w)
  /\ Finish(w)
  /\ UNCHANGED <<ticket, erased, ticketHistory>>

\* An exception or a lost connection: the transaction is rolled back.
BreaksOff(w) ==
  /\ work[w] # AtRest
  /\ breaks < MaxBreaks
  /\ breaks' = breaks + 1
  /\ Finish(w)
  /\ UNCHANGED <<ticket, erased, carried, stored, closings, reopenings, late>>

\* The bound on the tickets: nothing is opened when the ids are used up.
NoMoreTickets(w) ==
  /\ work[w].op = "new"
  /\ userLock[work[w].user] = Free
  /\ ActiveOf(work[w].user) = {} /\ Fresh = {}
  /\ Finish(w)
  /\ UNCHANGED <<ticket, erased, ticketHistory>>

SendFails(w) == NewUndelivered(w) \/ ReplyUndelivered(w) \/ AnswerUndelivered(w)

\* What a worker does next, once it has begun.
Continue(w) ==
  \/ LookForTicket(w) \/ SendNew(w) \/ SaveNew(w)
  \/ UserIsLocked(w) \/ LockReply(w) \/ ReplyRefused(w) \/ SendReply(w) \/ SaveReply(w)
  \/ UserCloses(w)
  \/ SendAnswer(w) \/ AnswerForbidden(w) \/ MarkBlocked(w) \/ SaveAnswer(w)
  \/ SendFails(w) \/ NoMoreTickets(w)
  \/ BulkLocks(w) \/ BulkCommits(w)
  \/ AutoCloses(w) \/ AutoEnds(w)
  \/ EraseReads(w) \/ EraseCommits(w)
  \/ DeadlockVictim(w)

Begin(w) ==
  \/ \E u \in Users : UserArrives(w, u) \/ EraseStarts(w, u)
  \/ \E t \in Tickets : LockAnswer(w, t)
  \/ BulkStarts(w)
  \/ AutoLists(w)

TicketsNext ==
  \/ \E w \in Workers : Begin(w) \/ Continue(w) \/ BreaksOff(w)
  \/ \E t \in Tickets : StaffCloses(t) \/ HoursPass(t)

TicketsSpec == TicketsInit /\ [][TicketsNext]_ticketsVars

\* The queue of a row lock is served in order, so a handler that waits again
\* and again gets its turn.
TicketsFairSpec == TicketsSpec /\ \A w \in Workers : SF_ticketsVars(Continue(w))

-----------------------------------------------------------------------------
(* Properties                                                              *)

TicketsTypeOK ==
  /\ ticket \in [Tickets -> [user : Users \cup {"none"},
                             status : Active \cup {"closed", "absent"},
                             recent : BOOLEAN, texts : Nat]]
  /\ rowLock \in [Tickets -> Workers \cup {Free}]
  /\ userLock \in [Users -> Workers \cup {Free}]
  /\ erased \subseteq Users /\ late \subseteq Users
  /\ DOMAIN work = Workers
  /\ \A w \in Workers : work[w] = AtRest =>
       Held(w) = {} /\ \A u \in Users : userLock[u] # w
  /\ breaks \in 0 .. MaxBreaks

\* A user has one open ticket at most, and it is the lock of the user that
\* sees to it: the unique index behind it never has to refuse, neither an
\* insert nor a stale write that reopens a ticket (support_send_new).
OneActiveTicket == \A u \in Users : Cardinality(ActiveOf(u)) <= 1

\* No message is in the history of a ticket that did not reach its reader: the
\* bot delivers first and commits then.
StoredWasDelivered == \A t \in Tickets : stored[t] <= carried[t]

\* Each time a ticket is closed, one of its closers records it: two closers
\* never both believe to have closed it, except an erasure that overwrites.
ClosingIsRecordedOnce ==
  \A t \in Tickets : ticket[t].user \notin erased =>
    closings[t] = reopenings[t] + (IF ticket[t].status = "closed" THEN 1 ELSE 0)

\* After an erasure no text of the user is left, unless a new request of the
\* user had found the account when it was erased (erase_user).
ErasureForgets ==
  \A t \in Tickets : ticket[t].user \in erased \ late =>
    ticket[t].texts = 0 /\ ~IsActive(t)

\* The desk and its history agree: one open ticket for a user, a history of what
\* was delivered, one record for each closing, and none after an erasure.
TicketsAgree ==
  /\ OneActiveTicket
  /\ StoredWasDelivered
  /\ ClosingIsRecordedOnce
  /\ ErasureForgets

\* The button says that the data are deleted; nothing about exceptions.
ErasedIsErased == \A t \in Tickets : ticket[t].user \in erased => ticket[t].texts = 0

\* Nothing is added to a closed ticket, and it is not opened again, except by
\* a first message that had read it while it was open (support_send_new reads
\* without the lock; support_send_reply and the operators lock).
ClosedIsLeftAlone ==
  [][\A t \in Tickets :
       ticket[t].status = "closed" /\ (ticket'[t].status # "closed" \/ stored'[t] # stored[t])
         => \E w \in Workers : work[w].op = "newSent" /\ work[w].ticket = t]_<<ticket, stored, work>>

\* No handler waits for ever: cycles of the two kinds of locks, or of the rows
\* of two bulk closes, are broken by the database.
HandlersEnd == \A w \in Workers : work[w] # AtRest ~> work[w] = AtRest
=============================================================================
