----------------------------- MODULE Broadcasts -----------------------------
(***************************************************************************)
(* Broadcasts: jobs that admins write and cancel (BroadcastService in      *)
(* src/app/services/broadcasts.py, the broadcast pages of                  *)
(* src/app/web/routes.py, the broadcast menu of                            *)
(* src/app/handlers/admin_panel.py) and the scheduler that sends them in   *)
(* chunks (src/app/services/broadcast_polling.py).                         *)
(*                                                                         *)
(* A sender claims a job, then repeats: load the next users under the      *)
(* lock of the job, send to them without a lock, and store the results     *)
(* and the cursor under the lock.  Between those steps an admin may edit,  *)
(* cancel or delete, users come and go, and the process may die.           *)
(*                                                                         *)
(* Photos, buttons, segments other than their set of users, attempt        *)
(* counts and the summary to the author are not tracked.                   *)
(***************************************************************************)
EXTENDS Naturals, FiniteSets, FiniteSetsExt

CONSTANTS Senders,    \* process_scheduled_broadcasts at work, one per instance
          Jobs,
          Audience,   \* users.id, as numbers
          Batch,      \* broadcast_batch_size
          MaxFaults,  \* bound on lost answers, failures and crashes
          MaxChanges  \* bound on edits, and on users who come or go

ASSUME BroadcastsAssumption ==
  /\ Audience \subseteq Nat \ {0} /\ IsFiniteSet(Audience)
  /\ Batch \in Nat \ {0}
  /\ "none" \notin Jobs
  /\ MaxFaults \in Nat /\ MaxChanges \in Nat

NoSender == "free"
Editable == {"draft", "scheduled"}
Terminal == {"completed", "failed", "cancelled"}

VARIABLES bcast,     \* rows: [status, text, due, cancel, cursor, sent, failed]
          rows,      \* broadcast_job_deliveries: the status by job and user
          jobLock,   \* the sender that keeps the row of a job locked, or Free
          sender,    \* what a sender does: [at, job, todo, results, text]
          reachable, \* users the segment selects
          troubles,  \* lost answers, failures and crashes so far
          changes,   \* edits, comings and goings so far
          got,       \* history: messages that reached a user, by job
          repeats,   \* history: sendings repeated after a lost answer
          texts,     \* history: the texts sent for a job
          steady,    \* history: users reachable ever since the claim
          lateSends, \* history: messages sent after the cancel was asked for
          orphans    \* history: jobs whose sender died

broadcastHistory == <<got, repeats, texts, steady, lateSends, orphans>>
broadcastVars == <<bcast, rows, jobLock, sender, reachable, troubles, changes,
                   broadcastHistory>>

NoJob == [status |-> "none", text |-> 0, due |-> FALSE, cancel |-> FALSE,
          cursor |-> 0, sent |-> 0, failed |-> 0]
NoRows == [u \in Audience |-> "none"]
Waiting == [at |-> "waiting", job |-> "none", todo |-> {}, chunk |-> {},
            results |-> NoRows, text |-> 0]

BroadcastInit ==
  /\ bcast = [j \in Jobs |-> NoJob]
  /\ rows = [j \in Jobs |-> NoRows]
  /\ jobLock = [j \in Jobs |-> NoSender]
  /\ sender = [s \in Senders |-> Waiting]
  /\ reachable \in {Audience, Audience \ {Max(Audience)}}
  /\ troubles = 0 /\ changes = 0
  /\ got = [j \in Jobs |-> [u \in Audience |-> 0]] /\ repeats = got
  /\ texts = [j \in Jobs |-> {}]
  /\ steady = [j \in Jobs |-> {}]
  /\ lateSends = [j \in Jobs |-> 0]
  /\ orphans = {}

Trouble == troubles < MaxFaults /\ troubles' = troubles + 1
Change == changes < MaxChanges /\ changes' = changes + 1

-----------------------------------------------------------------------------
(* The admins.  Each operation locks the row first.                        *)

\* create_job, clone_job and the bot's confirmation.
CreateJob(j, status) ==
  /\ bcast[j] = NoJob /\ rows[j] = NoRows /\ j \notin orphans
  /\ \A s \in Senders : sender[s].job # j
  /\ texts[j] = {}
  /\ bcast' = [bcast EXCEPT ![j].status = status, ![j].text = 1]
  /\ UNCHANGED <<rows, jobLock, sender, reachable, troubles, changes, broadcastHistory>>

\* mutation: the status is not looked at again under the lock
MayEditAlways(j) == jobLock[j] = NoSender /\ bcast[j].status \in Editable \cup {"running"}

MayEdit(j) == jobLock[j] = NoSender /\ bcast[j].status \in Editable

\* update_job, which may also turn a draft into a scheduled job and back.
UpdateJob(j, status) ==
  /\ MayEdit(j)
  /\ Change
  /\ bcast' = [bcast EXCEPT ![j].text = 3 - @,
                            ![j].status = IF @ \in Editable THEN status ELSE @]
  /\ UNCHANGED <<rows, jobLock, sender, reachable, troubles, broadcastHistory>>

\* The console deletes what may be edited, the bot also what has ended.
DeleteJob(j) ==
  /\ jobLock[j] = NoSender
  /\ bcast[j].status \in Editable \cup Terminal
  /\ bcast' = [bcast EXCEPT ![j] = NoJob]
  /\ rows' = [rows EXCEPT ![j] = NoRows]
  /\ UNCHANGED <<jobLock, sender, reachable, troubles, changes, broadcastHistory>>

RequestCancel(j) ==
  /\ jobLock[j] = NoSender
  /\ \/ /\ bcast[j].status = "scheduled"
        /\ bcast' = [bcast EXCEPT ![j].status = "cancelled", ![j].cancel = TRUE]
     \/ /\ bcast[j].status = "running"
        /\ bcast' = [bcast EXCEPT ![j].cancel = TRUE]
  /\ UNCHANGED <<rows, jobLock, sender, reachable, troubles, changes, broadcastHistory>>

\* run_at has come, as it was set or as an admin moved it.
RunAtComes(j) ==
  /\ bcast[j].status \in Editable /\ ~bcast[j].due
  /\ bcast' = [bcast EXCEPT ![j].due = TRUE]
  /\ UNCHANGED <<rows, jobLock, sender, reachable, troubles, changes, broadcastHistory>>

\* A user registers or unblocks the bot, or is blocked or erased.
AudienceChanges(u) ==
  /\ Change
  /\ reachable' = IF u \in reachable THEN reachable \ {u} ELSE reachable \cup {u}
  /\ steady' = [j \in Jobs |-> steady[j] \ {u}]
  /\ UNCHANGED <<bcast, rows, jobLock, sender, troubles, got, repeats, texts,
                 lateSends, orphans>>

-----------------------------------------------------------------------------
(* The sender                                                              *)

\* claim_due_for_processing: skip_locked, and every counter starts again.
ClaimNextJob(s) ==
  /\ sender[s] = Waiting
  /\ \E j \in Jobs :
       /\ jobLock[j] = NoSender /\ bcast[j].status = "scheduled" /\ bcast[j].due
       /\ bcast' = [bcast EXCEPT ![j].status = "running", ![j].cursor = 0,
                                 ![j].sent = 0, ![j].failed = 0]
       /\ sender' = [sender EXCEPT ![s].at = "loading", ![s].job = j]
       /\ steady' = [steady EXCEPT ![j] = reachable]
  /\ UNCHANGED <<rows, jobLock, reachable, troubles, changes, got, repeats,
                 texts, lateSends, orphans>>

\* list_broadcast_recipients_chunk.
After(cursor) == {u \in reachable : u > cursor}
NextChunk(cursor) ==
  {u \in After(cursor) : Cardinality({v \in After(cursor) : v <= u}) <= Batch}

Rest(s) == sender' = [sender EXCEPT ![s] = Waiting]

\* mutation: the request is not looked at
CancelUnseen(j) == FALSE

CancelSeen(j) == bcast[j].cancel

LoadChunk(s) ==
  LET j == sender[s].job
      chunk == NextChunk(bcast[j].cursor) IN
  /\ sender[s].at = "loading"
  /\ jobLock[j] = NoSender
  /\ bcast[j].status = "running" /\ ~CancelSeen(j)
  /\ chunk # {}
  /\ sender' = [sender EXCEPT ![s] = [at |-> "sending", job |-> j, todo |-> chunk,
                                      chunk |-> chunk, results |-> NoRows,
                                      text |-> bcast[j].text]]
  /\ UNCHANGED <<bcast, rows, jobLock, reachable, troubles, changes, broadcastHistory>>

\* mutation: an empty chunk ends the loop and not the job
EndLoop(s) ==
  LET j == sender[s].job IN
  /\ sender[s].at = "loading" /\ jobLock[j] = NoSender
  /\ ~CancelSeen(j) /\ NextChunk(bcast[j].cursor) = {}
  /\ Rest(s)
  /\ UNCHANGED <<bcast, rows, jobLock, reachable, troubles, changes, broadcastHistory>>

\* No user is left.
Complete(s) ==
  LET j == sender[s].job IN
  /\ sender[s].at = "loading"
  /\ jobLock[j] = NoSender
  /\ bcast[j].status = "running" /\ ~CancelSeen(j)
  /\ NextChunk(bcast[j].cursor) = {}
  /\ bcast' = [bcast EXCEPT ![j].status = "completed"]
  /\ Rest(s)
  /\ UNCHANGED <<rows, jobLock, reachable, troubles, changes, broadcastHistory>>

\* The cancel is found while the row is locked, and _cancel_running_job asks
\* for the same row in a second session: it waits for its own caller.
LoadFindsCancel(s) ==
  LET j == sender[s].job IN
  /\ sender[s].at = "loading"
  /\ jobLock[j] = NoSender
  /\ bcast[j].status = "running" /\ CancelSeen(j)
  /\ jobLock' = [jobLock EXCEPT ![j] = s]
  /\ sender' = [sender EXCEPT ![s].at = "stuck"]
  /\ UNCHANGED <<bcast, rows, reachable, troubles, changes, broadcastHistory>>

\* One of the concurrent _deliver_to_user ends: sent, or given up.
RecordResult(s, u, outcome) ==
  sender' = [sender EXCEPT ![s].todo = @ \ {u}, ![s].results[u] = outcome]

Reaches(s, u) ==
  LET j == sender[s].job IN
  /\ got' = [got EXCEPT ![j][u] = @ + 1]
  /\ texts' = [texts EXCEPT ![j] = @ \cup {sender[s].text}]
  /\ lateSends' = [lateSends EXCEPT ![j] = @ + (IF bcast[j].cancel THEN 1 ELSE 0)]

Deliver(s, u) ==
  /\ sender[s].at = "sending" /\ u \in sender[s].todo
  /\ RecordResult(s, u, "sent")
  /\ Reaches(s, u)
  /\ UNCHANGED <<bcast, rows, jobLock, reachable, troubles, changes, repeats,
                 steady, orphans>>

\* TelegramForbiddenError marks the user; any other error, or a list of
\* attempts that is used up, does not.
DeliveryFails(s, u) ==
  /\ sender[s].at = "sending" /\ u \in sender[s].todo
  /\ Trouble
  /\ \/ /\ RecordResult(s, u, "bot_blocked")
        /\ reachable' = reachable \ {u}
        /\ steady' = [j \in Jobs |-> steady[j] \ {u}]
     \/ /\ RecordResult(s, u, "failed")
        /\ UNCHANGED <<reachable, steady>>
  /\ UNCHANGED <<bcast, rows, jobLock, changes, got, repeats, texts, lateSends, orphans>>

\* The message arrives, its answer does not, and the attempt is repeated.
AnswerIsLost(s, u) ==
  /\ sender[s].at = "sending" /\ u \in sender[s].todo
  /\ Trouble
  /\ Reaches(s, u)
  /\ repeats' = [repeats EXCEPT ![sender[s].job][u] = @ + 1]
  /\ UNCHANGED <<bcast, rows, jobLock, sender, reachable, changes, steady, orphans>>

\* mutation: the cursor stays at the first user of the chunk
CursorAtFirst(chunk) == Min(chunk)

\* mutation: the cursor of a chunk sorted by something else than the id
CursorBeyond(chunk) == Max(Audience)

\* job.last_user_id = users[-1].id
Cursor(chunk) == Max(chunk)

Sent(s) == {u \in sender[s].chunk : sender[s].results[u] = "sent"}

\* mutation: a failed delivery is counted and not kept
KeepSentOnly(j, s) == [u \in Audience |-> IF u \in Sent(s) THEN "sent" ELSE rows[j][u]]

Upserted(j, s) ==
  [u \in Audience |-> IF u \in sender[s].chunk THEN sender[s].results[u] ELSE rows[j][u]]

PersistChunk(s) ==
  LET j == sender[s].job IN
  /\ sender[s].at = "sending" /\ sender[s].todo = {}
  /\ jobLock[j] = NoSender
  /\ bcast[j].status = "running"
  /\ rows' = [rows EXCEPT ![j] = Upserted(j, s)]
  /\ bcast' = [bcast EXCEPT ![j].cursor = Cursor(sender[s].chunk),
                            ![j].sent = @ + Cardinality(Sent(s)),
                            ![j].failed = @ + Cardinality(sender[s].chunk \ Sent(s)),
                            ![j].status = IF CancelSeen(j) THEN "cancelled" ELSE @]
  /\ sender' = [sender EXCEPT ![s] = IF CancelSeen(j) THEN Waiting
                                     ELSE [Waiting EXCEPT !.at = "loading", !.job = j]]
  /\ UNCHANGED <<jobLock, reachable, troubles, changes, broadcastHistory>>

-----------------------------------------------------------------------------
(* Failures                                                                *)

\* An exception of the database: the job is failed if it is still running.
SenderFails(s) ==
  LET j == sender[s].job IN
  /\ sender[s].at \in {"loading", "sending"}
  /\ jobLock[j] = NoSender
  /\ Trouble
  /\ bcast' = IF bcast[j].status = "running"
              THEN [bcast EXCEPT ![j].status = "failed"] ELSE bcast
  /\ Rest(s)
  /\ UNCHANGED <<rows, jobLock, reachable, changes, broadcastHistory>>

\* The process dies: its transaction with it, and nobody claims a job that is
\* running.
SenderDies(s) ==
  /\ sender[s] # Waiting
  /\ Trouble
  /\ Rest(s)
  /\ jobLock' = [j \in Jobs |-> IF jobLock[j] = s THEN NoSender ELSE jobLock[j]]
  /\ orphans' = orphans \cup {sender[s].job}
  /\ UNCHANGED <<bcast, rows, reachable, changes, got, repeats, texts, steady, lateSends>>

Work(s) ==
  \/ ClaimNextJob(s) \/ LoadChunk(s) \/ Complete(s) \/ LoadFindsCancel(s)
  \/ PersistChunk(s)
  \/ \E u \in Audience : Deliver(s, u)

BroadcastNext ==
  \/ \E j \in Jobs :
       \/ \E status \in Editable : CreateJob(j, status) \/ UpdateJob(j, status)
       \/ DeleteJob(j)
       \/ RequestCancel(j)
       \/ RunAtComes(j)
  \/ \E u \in Audience : AudienceChanges(u)
  \/ \E s \in Senders :
       \/ Work(s)
       \/ \E u \in Audience : DeliveryFails(s, u) \/ AnswerIsLost(s, u)
       \/ SenderFails(s)
       \/ SenderDies(s)

BroadcastSpec == BroadcastInit /\ [][BroadcastNext]_broadcastVars

\* The scheduler runs again and again, and Telegram answers.
BroadcastFairSpec == BroadcastSpec /\ \A s \in Senders : WF_broadcastVars(Work(s))

-----------------------------------------------------------------------------
(* Properties                                                              *)

\* Types, and a job is running just while one sender is at it, unless that
\* sender has died.
BroadcastTypeOK ==
  /\ \A j \in Jobs :
       /\ bcast[j].status \in Editable \cup Terminal \cup {"none", "running"}
       /\ rows[j] \in [Audience -> {"none", "sent", "failed", "bot_blocked"}]
       /\ jobLock[j] \in Senders \cup {NoSender}
       /\ bcast[j].status = "running" =>
            j \in orphans \/ Cardinality({s \in Senders : sender[s].job = j}) = 1
  /\ \A s \in Senders : sender[s] # Waiting => bcast[sender[s].job].status = "running"
  /\ reachable \subseteq Audience
  /\ troubles \in 0 .. MaxFaults /\ changes \in 0 .. MaxChanges

\* Nobody gets a broadcast twice: not after a crash between sending and
\* storing, not with two senders; only a repeated attempt whose first answer
\* was lost (_deliver_to_user) does it.
OncePerUser == \A j \in Jobs, u \in Audience : got[j][u] <= 1 + repeats[j][u]

\* The counters of the job are those of the delivery rows, through every
\* restart, cancel and failure (_persist_chunk_results).
CountersAgree ==
  \A j \in Jobs : bcast[j].status # "none" =>
    /\ bcast[j].sent = Cardinality({u \in Audience : rows[j][u] = "sent"})
    /\ bcast[j].failed = Cardinality({u \in Audience : rows[j][u] \in {"failed", "bot_blocked"}})

\* A completed broadcast has tried everybody who could be reached from its
\* claim on, whoever came or went in the meantime (last_user_id).
CompletedTriedAll ==
  \A j \in Jobs : bcast[j].status = "completed" => \A u \in steady[j] : rows[j][u] # "none"

\* All who get a broadcast get the same text: it is not edited on the way.
OneText == \A j \in Jobs : Cardinality(texts[j]) <= 1

\* After a cancel is asked for only the chunk on its way is still sent, and the
\* job does not end as completed.
CancelStops ==
  \A j \in Jobs :
    /\ lateSends[j] <= Batch + MapThenSumSet(LAMBDA u : repeats[j][u], Audience)
    /\ bcast[j].cancel => bcast[j].status # "completed"

\* What a broadcast reports is what its recipients got: nobody twice, nobody
\* forgotten, one text, all of them counted, and nobody after a cancel.
BroadcastIsAccounted ==
  /\ OncePerUser
  /\ CountersAgree
  /\ CompletedTriedAll
  /\ OneText
  /\ CancelStops

\* A running job ends, unless its sender died or a cancel was asked for.
BroadcastEnds ==
  \A j \in Jobs :
    bcast[j].status = "running" ~> bcast[j].status # "running" \/ bcast[j].cancel \/ j \in orphans

\* The console answers to a cancel that the broadcast is cancelled.
CancelTakesEffect ==
  \A j \in Jobs :
    bcast[j].cancel /\ bcast[j].status = "running" ~> bcast[j].status # "running" \/ j \in orphans
=============================================================================
