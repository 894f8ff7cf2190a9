-------------------------- MODULE SchedulerLeader --------------------------
(***************************************************************************)
(* SchedulerLeader in src/app/scheduler.py and the part of main() that     *)
(* starts, watches and closes it: one Redis key decides which instance     *)
(* runs the jobs.                                                          *)
(*                                                                         *)
(* Each Redis command is one step, so other instances run between them.    *)
(* An instance asks for the lock once, when it starts; if it is refused it *)
(* stands by for as long as it lives.  Its token is new at every start: a  *)
(* lock that outlives its process belongs to Ghost.                        *)
(* Time is left out: a lock may expire while its holder is stalled.        *)
(***************************************************************************)
EXTENDS Naturals

CONSTANTS Instances,
          Ghost,       \* the token of a process that is gone
          Nobody,      \* the key does not exist
          MaxEnds      \* the bound on processes that end

ASSUME TokensAssumption == {Ghost, Nobody} \cap Instances = {} /\ Ghost # Nobody
ASSUME MaxEndsAssumption == MaxEnds \in Nat

VARIABLES
  pc,       \* where each instance is in its life
  lock,     \* Redis: the token under the key
  eternal,  \* Redis: the key has no TTL
  deposed,  \* history: schedulers that lost the lock while they ran
  ends      \* processes that ended so far

leaderVars == <<pc, lock, eternal, deposed, ends>>

Stages == {"down", "starting", "inspecting", "reclaiming", "retrying",
           "standby", "leading", "lost"}

\* the instances whose jobs run: until the watchdog wakes, a lost lock does not stop them
Running == {i \in Instances : pc[i] \in {"leading", "lost"}}

\* An older deployment may have left a key behind, with or without a TTL.
LeaderInit ==
  /\ pc = [i \in Instances |-> "down"]
  /\ lock \in {Nobody, Ghost}
  /\ eternal \in IF lock = Ghost THEN BOOLEAN ELSE {FALSE}
  /\ deposed = {}
  /\ ends = 0

Goto(i, stage) == pc' = [pc EXCEPT ![i] = stage]

\* the key disappears, under whoever holds it
Vanishes ==
  /\ lock' = Nobody
  /\ eternal' = FALSE
  /\ deposed' = deposed \cup ({lock} \cap Running)

Start(i) ==
  /\ pc[i] = "down"
  /\ Goto(i, "starting")
  /\ UNCHANGED <<lock, eternal, deposed, ends>>

\* mutant: SET without EX
SetForEver(i) ==
  /\ lock = Nobody
  /\ lock' = i
  /\ eternal' = TRUE
  /\ Goto(i, "leading")

\* SET key token EX ttl NX
SetIfAbsent(i) ==
  /\ lock = Nobody
  /\ lock' = i
  /\ eternal' = FALSE
  /\ Goto(i, "leading")

Refused(i, next) ==
  /\ lock # Nobody
  /\ Goto(i, next)
  /\ UNCHANGED <<lock, eternal>>

\* start, the first SET
Acquire(i) ==
  /\ pc[i] = "starting"
  /\ SetIfAbsent(i) \/ Refused(i, "inspecting")
  /\ UNCHANGED <<deposed, ends>>

\* mutant: only a key that is gone is reclaimed
LooksGone == lock = Nobody

\* TTL is -1 for a key without a TTL and -2 for one that is gone
LooksStale == eternal \/ lock = Nobody

\* start, GET and TTL
Inspect(i) ==
  /\ pc[i] = "inspecting"
  /\ Goto(i, IF LooksStale THEN "reclaiming" ELSE "standby")
  /\ UNCHANGED <<lock, eternal, deposed, ends>>

\* start, DELETE: whatever is under the key by now
Reclaim(i) ==
  /\ pc[i] = "reclaiming"
  /\ Goto(i, "retrying")
  /\ Vanishes
  /\ UNCHANGED ends

\* start, the second SET
Retry(i) ==
  /\ pc[i] = "retrying"
  /\ SetIfAbsent(i) \/ Refused(i, "standby")
  /\ UNCHANGED <<deposed, ends>>

\* mutant: the result of the script is not looked at
RefreshBlindly(i) == FALSE

\* _refresh_loop: the script finds another token, or raises
LosesLock(i) ==
  /\ pc[i] = "leading"
  /\ Goto(i, "lost")
  /\ UNCHANGED <<lock, eternal, deposed, ends>>

RefreshFinds(i) == lock # i /\ LosesLock(i)
RefreshRaises(i) == lock = i /\ LosesLock(i)

\* _watch_scheduler_leadership
Watchdog(i) ==
  /\ pc[i] = "lost"
  /\ Goto(i, "standby")
  /\ deposed' = deposed \ {i}
  /\ UNCHANGED <<lock, eternal, ends>>

\* mutant: close deletes the key without comparing the token
LetGoAnyway(i) ==
  /\ lock' = Nobody
  /\ eternal' = FALSE

LetGo(i) ==
  /\ lock' = IF lock = i THEN Nobody ELSE lock
  /\ UNCHANGED eternal

\* the token dies with the process; the key stays until its TTL
Abandon(i) ==
  /\ lock' = IF lock = i THEN Ghost ELSE lock
  /\ UNCHANGED eternal

Ends(i) ==
  /\ ends < MaxEnds
  /\ ends' = ends + 1
  /\ pc[i] # "down"
  /\ Goto(i, "down")
  /\ deposed' = deposed \ {i}

\* the finally block of main: the scheduler is stopped, then the lock released
CloseDown(i) == Ends(i) /\ LetGo(i)

\* the process dies, or Redis does not answer close
Crash(i) == Ends(i) /\ Abandon(i)

\* The TTL runs out: the holder is gone, or it was stalled for too long.
Expire ==
  /\ lock # Nobody
  /\ ~eternal
  /\ Vanishes
  /\ UNCHANGED <<pc, ends>>

Step(i) ==
  \/ Start(i) \/ Acquire(i) \/ Inspect(i) \/ Reclaim(i) \/ Retry(i)
  \/ RefreshFinds(i) \/ RefreshRaises(i) \/ Watchdog(i)
  \/ CloseDown(i) \/ Crash(i)

LeaderNext == Expire \/ \E i \in Instances : Step(i)

LeaderSpec == LeaderInit /\ [][LeaderNext]_leaderVars

\* Every command is answered or raises, the refresh loop wakes every few seconds,
\* and a process that ended is started again.  Nothing expires by fairness.
LeaderFair ==
  \A i \in Instances :
    /\ WF_leaderVars(Start(i))
    /\ WF_leaderVars(Acquire(i) \/ Inspect(i) \/ Reclaim(i) \/ Retry(i))
    /\ WF_leaderVars(RefreshFinds(i))
    /\ WF_leaderVars(Watchdog(i))

LeaderFairSpec == LeaderSpec /\ LeaderFair

-----------------------------------------------------------------------------
\* Type invariant.  A lock this code takes always has a TTL.
LeaderTypeOK ==
  /\ pc \in [Instances -> Stages]
  /\ lock \in Instances \cup {Ghost, Nobody}
  /\ eternal \in BOOLEAN
  /\ eternal => lock = Ghost
  /\ deposed \subseteq Running
  /\ ends \in 0..MaxEnds

\* Two schedulers never run side by side, but for those from whom the lock was
\* taken while they ran: no crash, restart, late release or refusal makes a second.
OneScheduler == \A i, j \in Running \ deposed : i = j

\* A scheduler whose lock is gone stops: jobs overlap for a while, not for ever.
DeposedStops == \A i \in Instances : i \in Running /\ lock # i ~> i \notin Running

\* A key without a TTL, which nothing in Redis would ever remove, does not keep
\* every instance from running the jobs.
StaleKeyIsReclaimed == eternal ~> ~eternal

\* Whatever is wrong with the lock, its owner or its TTL, is mended in time.
LeadershipHeals == DeposedStops /\ StaleKeyIsReclaimed
=============================================================================
