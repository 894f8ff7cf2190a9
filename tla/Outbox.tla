------------------------------- MODULE Outbox -------------------------------
(***************************************************************************)
(* The transactional outbox: OutboxRepository in                           *)
(* src/app/db/repositories/__init__.py and OutboxDispatcher in             *)
(* src/app/services/outbox.py.                                             *)
(*                                                                         *)
(* A worker claims a batch in one transaction, calls Telegram for each row *)
(* outside any transaction, and records each result in a transaction of    *)
(* its own.  Two workers overlap while the scheduler's leader changes, so  *)
(* Workers is a set.  Clocks are flags: due is "next_attempt_at has        *)
(* passed", stale is "updated_at is older than the processing timeout".    *)
(* The order within a batch is left open.                                  *)
(***************************************************************************)
EXTENDS Integers, FiniteSets

CONSTANTS Messages,      \* rows, each with a correlation_key of its own
          Workers,
          Chats, Chat,   \* [Messages -> Chats]: the user a row is for
          MaxAttempts, BatchSize,
          MaxMishaps,    \* the bound on crashes and failed commits
          Nothing

ASSUME ChatAssumption == Chat \in [Messages -> Chats]
ASSUME MaxAttemptsAssumption == MaxAttempts \in Nat \ {0}
ASSUME BatchSizeAssumption == BatchSize \in Nat \ {0}
ASSUME MaxMishapsAssumption == MaxMishaps \in Nat
ASSUME NothingAssumption == Nothing \notin Messages

VARIABLES
  status,     \* outbox_messages.status, or none before the row exists
  attempts,   \* outbox_messages.attempts
  due,        \* rows whose next_attempt_at has passed
  stale,      \* rows not updated for longer than the processing timeout
  batch,      \* per worker, the claimed rows it has not sent yet
  sending,    \* per worker, the row it is dispatching
  answer,     \* per worker, what Telegram answered for that row
  delivered,  \* Telegram: how often a message was accepted
  refused,    \* Telegram: messages answered with "forbidden"
  botBlocked, \* users.bot_blocked
  mishaps     \* crashes and failed commits so far

rowVars == <<status, attempts, due, stale>>
workerVars == <<batch, sending, answer>>
telegram == <<delivered, refused>>
outboxVars == <<rowVars, workerVars, telegram, botBlocked, mishaps>>

Statuses == {"none", "pending", "processing", "sent", "dead"}
Answers == {"none", "ok", "forbidden", "transient"}

OutboxInit ==
  /\ status = [m \in Messages |-> "none"]
  /\ attempts = [m \in Messages |-> 0]
  /\ due = {}
  /\ stale = {}
  /\ batch = [w \in Workers |-> {}]
  /\ sending = [w \in Workers |-> Nothing]
  /\ answer = [w \in Workers |-> "none"]
  /\ delivered = [m \in Messages |-> 0]
  /\ refused = {}
  /\ botBlocked = {}
  /\ mishaps = 0

-----------------------------------------------------------------------------
\* enqueue_tg_message: a second one with the same correlation_key is dropped
Enqueue(m) ==
  /\ status[m] = "none"
  /\ status' = [status EXCEPT ![m] = "pending"]
  /\ due' = due \cup {m}
  /\ UNCHANGED <<attempts, stale, workerVars, telegram, botBlocked, mishaps>>

BackoffPasses(m) ==
  /\ status[m] = "pending"
  /\ m \notin due
  /\ due' = due \cup {m}
  /\ UNCHANGED <<status, attempts, stale, workerVars, telegram, botBlocked, mishaps>>

TimeoutPasses(m) ==
  /\ status[m] = "processing"
  /\ m \notin stale
  /\ stale' = stale \cup {m}
  /\ UNCHANGED <<status, attempts, due, workerVars, telegram, botBlocked, mishaps>>

\* mutant: orphaned rows are never picked up again
DueAndNew(m) == status[m] = "pending" /\ m \in due

\* mutant: dead rows are tried again
DueOrDead(m) ==
  \/ status[m] = "pending" /\ m \in due
  \/ status[m] = "processing" /\ m \in stale
  \/ status[m] = "dead"

Claimable(m) ==
  \/ status[m] = "pending" /\ m \in due
  \/ status[m] = "processing" /\ m \in stale

Backlog == {m \in Messages : Claimable(m)}
Smaller(a, b) == IF a <= b THEN a ELSE b
IdleWorker(w) == batch[w] = {} /\ sending[w] = Nothing

\* mutant: attempts is only counted when a failure is recorded
ClaimUncounted(w, S) ==
  /\ status' = [m \in Messages |-> IF m \in S THEN "processing" ELSE status[m]]
  /\ UNCHANGED attempts
  /\ due' = due \ S
  /\ stale' = stale \ S
  /\ batch' = [batch EXCEPT ![w] = S]

ClaimRows(w, S) ==
  /\ status' = [m \in Messages |-> IF m \in S THEN "processing" ELSE status[m]]
  /\ attempts' = [m \in Messages |-> IF m \in S THEN attempts[m] + 1 ELSE attempts[m]]
  /\ due' = due \ S
  /\ stale' = stale \ S
  /\ batch' = [batch EXCEPT ![w] = S]

\* claim_due, which opens a tick
Claim(w) ==
  /\ IdleWorker(w)
  /\ \E S \in SUBSET Backlog :
       /\ S # {}
       /\ Cardinality(S) = Smaller(BatchSize, Cardinality(Backlog))
       /\ ClaimRows(w, S)
  /\ UNCHANGED <<sending, answer, telegram, botBlocked, mishaps>>

\* _dispatch_one, up to the answer of bot.send_message.  A transient error
\* (flood control, a timeout) may hide a message that was accepted.
Send(w, m, a) ==
  /\ m \in batch[w]
  /\ sending[w] = Nothing
  /\ batch' = [batch EXCEPT ![w] = @ \ {m}]
  /\ sending' = [sending EXCEPT ![w] = m]
  /\ answer' = [answer EXCEPT ![w] = a]
  /\ \/ a \in {"ok", "transient"} /\ delivered' = [delivered EXCEPT ![m] = @ + 1]
     \/ a \in {"forbidden", "transient"} /\ UNCHANGED delivered
  /\ refused' = IF a = "forbidden" THEN refused \cup {m} ELSE refused
  /\ UNCHANGED <<rowVars, botBlocked, mishaps>>

Proceed(w) ==
  /\ sending' = [sending EXCEPT ![w] = Nothing]
  /\ answer' = [answer EXCEPT ![w] = "none"]
  /\ UNCHANGED <<batch, telegram>>

\* _clear_user_bot_blocked and _mark_user_bot_blocked: transactions of their own,
\* which may fail, and rows without a user_id skip them
BlockedAfter(w) ==
  LET c == {Chat[sending[w]]} IN
  {botBlocked, CASE answer[w] = "ok" -> botBlocked \ c
                 [] answer[w] = "forbidden" -> botBlocked \cup c
                 [] OTHER -> botBlocked}

\* mutant: a transient error is treated as a success
AcceptAnything(w) ==
  LET m == sending[w] IN
  /\ answer[w] \in {"ok", "transient"}
  /\ status' = [status EXCEPT ![m] = "sent"]
  /\ stale' = stale \ {m}
  /\ UNCHANGED botBlocked
  /\ Proceed(w)
  /\ UNCHANGED <<attempts, due, mishaps>>

\* _record_success
RecordSent(w) ==
  LET m == sending[w] IN
  /\ answer[w] = "ok"
  /\ status' = [status EXCEPT ![m] = "sent"]
  /\ stale' = stale \ {m}
  /\ botBlocked' \in BlockedAfter(w)
  /\ Proceed(w)
  /\ UNCHANGED <<attempts, due, mishaps>>

\* mutant: the last attempt is given up before it was made
OneAttemptShort(m, a) == a = "forbidden" \/ attempts[m] + 1 >= MaxAttempts

\* mark_failed: the row dies on its last attempt, or when the user blocked the bot
Hopeless(m, a) == a = "forbidden" \/ attempts[m] >= MaxAttempts

\* mutant: the row is taken for the user
BlocksTheRow(w) ==
  LET m == sending[w] IN
  /\ answer[w] \in {"forbidden", "transient"}
  /\ status' = [status EXCEPT ![m] = IF Hopeless(m, answer[w]) THEN "dead" ELSE "pending"]
  /\ due' = due \ {m}
  /\ stale' = stale \ {m}
  /\ botBlocked' = IF answer[w] = "forbidden" THEN botBlocked \cup {m} ELSE botBlocked
  /\ Proceed(w)
  /\ UNCHANGED <<attempts, mishaps>>

\* _record_failure
RecordFailed(w) ==
  LET m == sending[w] IN
  /\ answer[w] \in {"forbidden", "transient"}
  /\ status' = [status EXCEPT ![m] = IF Hopeless(m, answer[w]) THEN "dead" ELSE "pending"]
  /\ due' = due \ {m}
  /\ stale' = stale \ {m}
  /\ botBlocked' \in BlockedAfter(w)
  /\ Proceed(w)
  /\ UNCHANGED <<attempts, mishaps>>

Mishap ==
  /\ mishaps < MaxMishaps
  /\ mishaps' = mishaps + 1

\* the commit of either record fails: it is logged, and the loop goes on
RecordIsLost(w) ==
  /\ sending[w] # Nothing
  /\ Mishap
  /\ botBlocked' \in BlockedAfter(w)
  /\ Proceed(w)
  /\ UNCHANGED rowVars

WorkerDies(w) ==
  /\ ~IdleWorker(w)
  /\ Mishap
  /\ batch' = [batch EXCEPT ![w] = {}]
  /\ sending' = [sending EXCEPT ![w] = Nothing]
  /\ answer' = [answer EXCEPT ![w] = "none"]
  /\ UNCHANGED <<rowVars, telegram, botBlocked>>

Dispatch(w) ==
  \/ \E m \in Messages, a \in Answers \ {"none"} : Send(w, m, a)
  \/ RecordSent(w)
  \/ RecordFailed(w)

Clock == \E m \in Messages : BackoffPasses(m) \/ TimeoutPasses(m)

OutboxNext ==
  \/ \E m \in Messages : Enqueue(m)
  \/ Clock
  \/ \E w \in Workers : Claim(w) \/ Dispatch(w) \/ RecordIsLost(w) \/ WorkerDies(w)

OutboxSpec == OutboxInit /\ [][OutboxNext]_outboxVars

\* The job runs every few seconds and time passes; crashes are bounded by MaxMishaps.
OutboxFairSpec ==
  /\ OutboxSpec
  /\ \A m \in Messages : WF_outboxVars(BackoffPasses(m)) /\ WF_outboxVars(TimeoutPasses(m))
  /\ \A w \in Workers : WF_outboxVars(Claim(w)) /\ WF_outboxVars(Dispatch(w))

-----------------------------------------------------------------------------
(* Properties                                                              *)

\* Type invariant.
OutboxTypeOK ==
  /\ status \in [Messages -> Statuses]
  /\ attempts \in [Messages -> Nat]
  /\ due \subseteq Messages
  /\ stale \subseteq Messages
  /\ batch \in [Workers -> SUBSET Messages]
  /\ sending \in [Workers -> Messages \cup {Nothing}]
  /\ answer \in [Workers -> Answers]
  /\ delivered \in [Messages -> Nat]
  /\ refused \subseteq Messages
  /\ botBlocked \subseteq Chats
  /\ mishaps \in 0..MaxMishaps

\* A row is marked sent only if Telegram accepted the message, even when another
\* worker reclaimed it meanwhile.
SentWasDelivered == \A m \in Messages : status[m] = "sent" => delivered[m] > 0

\* A row is given up only after max_attempts claims or a refusal of the recipient.
DeadForAReason ==
  \A m \in Messages :
    status[m] = "dead" => attempts[m] >= MaxAttempts \/ m \in refused

\* The end a row shows is the end its message came to.
EndsAreTrue == SentWasDelivered /\ DeadForAReason

\* Every acceptance is paid for by a claim: however workers crash, overlap and
\* reclaim, a recipient never gets more copies than the row counts attempts.
DeliveriesAreCounted == \A m \in Messages : delivered[m] <= attempts[m]

PhaseOf == [none |-> "new", pending |-> "queued", processing |-> "queued",
            sent |-> "finished", dead |-> "given_up"]
Phase(m) == PhaseOf[status[m]]

\* The outbox with one worker implements Delivery: no end is ever taken back.
D == INSTANCE Delivery WITH
       phase <- [m \in Messages |-> Phase(m)],
       got <- {m \in Messages : delivered[m] > 0}
ImplementsDelivery == D!Spec

\* A message that was enqueued comes to an end: no crash leaves it in processing.
Finishes ==
  \A m \in Messages : status[m] = "pending" ~> status[m] \in {"sent", "dead"}
=============================================================================
