---------------------------- MODULE DutiesProofs ----------------------------
(***************************************************************************)
(* Safety of the background duties: the circuit breaker, the lock of the   *)
(* scheduler's leader and the broadcasts, for every value of their         *)
(* constants.                                                              *)
(***************************************************************************)
EXTENDS CircuitBreaker, SchedulerLeader, Broadcasts, Sums, TLAPS

-----------------------------------------------------------------------------
(***************************************************************************)
(* The circuit breaker, for every set of calls and every threshold.        *)
(***************************************************************************)

\* Inductive: the flag alone does not show that a probe is in flight, so the
\* invariant carries the set of probes with it.
BreakerInv == BreakerTypeOK /\ HalfOpenHasProbe /\ ClosedBelowThreshold

USE ThresholdAssumption, MaxFailuresAssumption

LEMMA BreakerStarts == BreakerInit => BreakerInv
  <1> SUFFICES ASSUME BreakerInit PROVE BreakerInv
    OBVIOUS
  <1>1. failures \in 0..MaxFailures /\ failures < FailureThreshold
    BY SMT DEF BreakerInit
  <1>2. BreakerTypeOK
    BY <1>1, Zenon DEF BreakerInit, BreakerTypeOK, States
  <1>3. QED BY <1>1, <1>2, Zenon DEF BreakerInit, BreakerInv, HalfOpenHasProbe, ClosedBelowThreshold

LEMMA BreakerEnters == ASSUME BreakerInv, NEW c \in Calls, Enter(c) PROVE BreakerInv'
  <1> USE DEF BreakerInv, BreakerTypeOK, States, HalfOpenHasProbe, ClosedBelowThreshold, Admit
  <1>1. CASE PassClosed(c)
    BY <1>1 DEF PassClosed
  <1>2. CASE Probe(c)
    <2>1. state # "closed"
      BY <1>2 DEF Probe, MayProbe
    <2>2. QED BY <1>2, <2>1 DEF Probe
  <1>3. QED BY <1>1, <1>2 DEF Enter

\* A call that finishes takes itself out of the probes, but it also takes the
\* breaker out of half_open, so no half-open state loses its probe.
LEMMA BreakerExits == ASSUME BreakerInv, NEW c \in Calls, Exit(c) PROVE BreakerInv'
  <1>1. inFlight' \subseteq Calls /\ probes' \subseteq inFlight'
    BY DEF BreakerInv, BreakerTypeOK, Exit, OnSuccess, OnFailure, Leave
  <1>2. CASE OnSuccess(c)
    <2>1. failures' \in 0..MaxFailures /\ failures' < FailureThreshold
      BY <1>2, SMT DEF OnSuccess
    <2>2. state' = "closed" /\ probing' = FALSE /\ cooled' = cooled
      BY <1>2 DEF OnSuccess
    <2>3. BreakerTypeOK'
      BY <1>1, <2>1, <2>2, Zenon DEF BreakerInv, BreakerTypeOK, States
    <2>4. QED
      BY <2>1, <2>2, <2>3, Zenon DEF BreakerInv, HalfOpenHasProbe, ClosedBelowThreshold
  <1>3. CASE OnFailure(c)
    <2>1. failures' \in 0..MaxFailures
      BY <1>3, SMT DEF OnFailure, BreakerInv, BreakerTypeOK
    <2>2. CASE Opens
      <3>1. state' = "open" /\ cooled' = FALSE
        BY <1>3, <2>2 DEF OnFailure
      <3>2. probing' = FALSE
        BY <1>3, Zenon DEF OnFailure, BreakerInv, BreakerTypeOK, HalfOpenHasProbe
      <3>3. BreakerTypeOK'
        BY <1>1, <2>1, <3>1, <3>2, Zenon DEF BreakerTypeOK, States
      <3>4. QED
        BY <3>1, <3>2, <3>3, Zenon DEF BreakerInv, HalfOpenHasProbe, ClosedBelowThreshold
    <2>3. CASE ~Opens
      <3>1. state # "half_open" /\ failures + 1 < FailureThreshold
        BY <2>3, SMT DEF Opens, BreakerInv, BreakerTypeOK
      <3>2. /\ state' = state /\ cooled' = cooled /\ probing' = probing
            /\ failures' < FailureThreshold
        BY <1>3, <2>3, <3>1, Zenon DEF OnFailure
      <3>3. QED
        BY <1>1, <2>1, <3>1, <3>2, Zenon DEF BreakerInv, BreakerTypeOK, HalfOpenHasProbe, ClosedBelowThreshold
    <2>4. QED BY <2>2, <2>3
  <1>4. QED BY <1>2, <1>3 DEF Exit

LEMMA BreakerSteps == BreakerInv /\ [BreakerNext]_breakerVars => BreakerInv'
  <1> SUFFICES ASSUME BreakerInv, [BreakerNext]_breakerVars PROVE BreakerInv'
    OBVIOUS
  <1>1. CASE \E c \in Calls : Enter(c) \/ Exit(c)
    BY <1>1, BreakerEnters, BreakerExits
  <1>2. CASE CooldownElapses
    BY <1>2 DEF CooldownElapses, BreakerInv, BreakerTypeOK, States, HalfOpenHasProbe, ClosedBelowThreshold
  <1>3. CASE UNCHANGED breakerVars
    BY <1>3 DEF breakerVars, BreakerInv, BreakerTypeOK, States, HalfOpenHasProbe, ClosedBelowThreshold
  <1>4. QED BY <1>1, <1>2, <1>3 DEF BreakerNext

LEMMA BreakerHolds == BreakerSpec => []BreakerInv
  BY BreakerStarts, BreakerSteps, PTL DEF BreakerSpec

\* The variables of circuit_breaker.py keep their types.
THEOREM BreakerTypeCorrect == BreakerSpec => []BreakerTypeOK
  <1>1. BreakerInv => BreakerTypeOK
    BY DEF BreakerInv
  <1>2. QED BY <1>1, BreakerHolds, PTL

\* A half-open breaker always has the probe in flight that will decide it, so it
\* cannot be left rejecting every call, and a closed breaker has seen fewer than
\* failure_threshold consecutive failures, whatever the order in which calls end.
THEOREM BreakerCoheres == BreakerSpec => []BreakerIsCoherent
  <1>1. BreakerInv => BreakerIsCoherent
    BY DEF BreakerInv, BreakerIsCoherent
  <1>2. QED BY <1>1, BreakerHolds, PTL

-----------------------------------------------------------------------------
(***************************************************************************)
(* The leader's lock: two schedulers run side by side only after the lock  *)
(* was taken from one of them, for any number of instances.                *)
(***************************************************************************)

\* The strengthening: whoever runs without having been deposed holds the lock.
HolderRuns == \A i \in Running \ deposed : lock = i
LeaderInv == LeaderTypeOK /\ HolderRuns

LEMMA LeaderStarts == LeaderInit => LeaderInv
<1> SUFFICES ASSUME LeaderInit PROVE LeaderInv
    OBVIOUS
<1>1. Running = {}
      BY DEF LeaderInit, Running
<1>2. eternal \in BOOLEAN /\ (eternal => lock = Ghost)
  <2>1. CASE lock = Ghost
        BY <2>1 DEF LeaderInit
  <2>2. CASE lock # Ghost
        BY <2>2 DEF LeaderInit
  <2> QED
      BY <2>1, <2>2
<1> QED
    BY <1>1, <1>2, MaxEndsAssumption DEF LeaderInit, LeaderInv, LeaderTypeOK, HolderRuns, Stages

\* SET NX succeeds only while every running scheduler has been deposed.
LEMMA LeaderSets ==
  ASSUME LeaderInv, NEW i \in Instances, i \notin Running, SetIfAbsent(i),
         UNCHANGED <<deposed, ends>>
  PROVE  LeaderInv'
<1> USE DEF LeaderInv
<1>1. Running \subseteq deposed
      BY TokensAssumption DEF HolderRuns, SetIfAbsent, Running
<1>2. Running' = Running \cup {i}
      BY DEF LeaderTypeOK, Running, SetIfAbsent, Goto
<1>3. HolderRuns'
      BY <1>1, <1>2 DEF HolderRuns, SetIfAbsent
<1>4. LeaderTypeOK'
      BY <1>2 DEF LeaderTypeOK, SetIfAbsent, Goto, Stages
<1> QED
    BY <1>3, <1>4

\* The key may vanish at any time: its holder, if it runs, is then deposed.
LEMMA LeaderSteps == LeaderInv /\ [LeaderNext]_leaderVars => LeaderInv'
<1> SUFFICES ASSUME LeaderInv, [LeaderNext]_leaderVars PROVE LeaderInv'
    OBVIOUS
<1> USE TokensAssumption, MaxEndsAssumption
    DEF LeaderInv, LeaderTypeOK, HolderRuns, Running, Stages, Goto
<1>1. CASE UNCHANGED leaderVars
      BY <1>1 DEF leaderVars
<1>2. CASE Expire
      BY <1>2 DEF Expire, Vanishes
<1>3. ASSUME NEW i \in Instances, Step(i) PROVE LeaderInv'
  <2>1. CASE Start(i)
        BY <2>1 DEF Start
  <2>2. CASE Acquire(i)
    <3>1. CASE SetIfAbsent(i)
          BY <2>2, <3>1, LeaderSets DEF Acquire
    <3>2. CASE Refused(i, "inspecting")
          BY <2>2, <3>2 DEF Acquire, Refused
    <3> QED
        BY <2>2, <3>1, <3>2 DEF Acquire
  <2>3. CASE Inspect(i)
        BY <2>3 DEF Inspect
  <2>4. CASE Reclaim(i)
        BY <2>4 DEF Reclaim, Vanishes
  <2>5. CASE Retry(i)
    <3>1. CASE SetIfAbsent(i)
          BY <2>5, <3>1, LeaderSets DEF Retry
    <3>2. CASE Refused(i, "standby")
          BY <2>5, <3>2 DEF Retry, Refused
    <3> QED
        BY <2>5, <3>1, <3>2 DEF Retry
  <2>6. CASE RefreshFinds(i) \/ RefreshRaises(i)
        BY <2>6 DEF RefreshFinds, RefreshRaises, LosesLock
  <2>7. CASE Watchdog(i)
        BY <2>7 DEF Watchdog
  <2>8. CASE CloseDown(i)
        BY <2>8 DEF CloseDown, Ends, LetGo
  <2>9. CASE Crash(i)
        BY <2>9 DEF Crash, Ends, Abandon
  <2> QED
      BY <1>3, <2>1, <2>2, <2>3, <2>4, <2>5, <2>6, <2>7, <2>8, <2>9 DEF Step
<1> QED
    BY <1>1, <1>2, <1>3 DEF LeaderNext

THEOREM LeaderHolds == LeaderSpec => []LeaderInv
BY LeaderStarts, LeaderSteps, PTL DEF LeaderSpec

\* Types: the code never leaves a lock without a TTL behind.
THEOREM LeaderTypeCorrect == LeaderSpec => []LeaderTypeOK
BY LeaderHolds, PTL DEF LeaderInv

\* One scheduler, but for those from whom the lock was taken while they ran.
THEOREM OneLeader == LeaderSpec => []OneScheduler
<1>1. LeaderInv => OneScheduler
      BY DEF LeaderInv, HolderRuns, OneScheduler
<1> QED
    BY <1>1, LeaderHolds, PTL

-----------------------------------------------------------------------------
(***************************************************************************)
(* The broadcasts, for any jobs, senders, users and size of a chunk.       *)
(*                                                                         *)
(* A user whom the sender of a job has still before it, beyond the cursor  *)
(* or to be sent to in its chunk, got the message only by attempts that    *)
(* were counted as repeated; everybody up to the cursor who could be       *)
(* reached ever since the claim has a delivery row, and beyond the cursor  *)
(* there is none.  That a chunk is a beginning of what is beyond the       *)
(* cursor, and that it has no more than Batch users, is what the cursor    *)
(* and the promise about cancels rest on.                                  *)
(***************************************************************************)

LEMMA HasLeast ==
  ASSUME NEW S \in SUBSET Nat, IsFiniteSet(S), S # {}
  PROVE \E m \in S : \A n \in S : m <= n
<1> DEFINE P == {s \in SUBSET S : s = {} \/ \E m \in s : \A n \in s : m <= n}
<1>1. {} \in P
  OBVIOUS
<1>2. ASSUME NEW s \in SUBSET S, s # {}, \A x \in s : s \ {x} \in P
      PROVE s \in P
  <2>1. PICK x \in s : TRUE
    BY <1>2
  <2>2. CASE s \ {x} = {}
    <3>1. \A n \in s : x <= n
      BY <2>2, <2>1
    <3> QED BY <3>1
  <2>3. CASE s \ {x} # {}
    <3>1. PICK m \in s \ {x} : \A n \in s \ {x} : m <= n
      BY <1>2, <2>3
    <3>2. (\A n \in s : m <= n) \/ (\A n \in s : x <= n)
      BY <2>1, <3>1
    <3> QED BY <2>1, <3>1, <3>2
  <2> QED BY <2>2, <2>3
<1>3. SUBSET S \subseteq P
  <2> HIDE DEF P
  <2> QED BY <1>1, <1>2, SubsetInduction
<1> QED BY <1>3

LEMMA HasGreatest ==
  ASSUME NEW S \in SUBSET Nat, IsFiniteSet(S), S # {}
  PROVE \E m \in S : \A n \in S : n <= m
<1> DEFINE P == {s \in SUBSET S : s = {} \/ \E m \in s : \A n \in s : n <= m}
<1>1. {} \in P
  OBVIOUS
<1>2. ASSUME NEW s \in SUBSET S, s # {}, \A x \in s : s \ {x} \in P
      PROVE s \in P
  <2>1. PICK x \in s : TRUE
    BY <1>2
  <2>2. CASE s \ {x} = {}
    <3>1. \A n \in s : n <= x
      BY <2>2, <2>1
    <3> QED BY <3>1
  <2>3. CASE s \ {x} # {}
    <3>1. PICK m \in s \ {x} : \A n \in s \ {x} : n <= m
      BY <1>2, <2>3
    <3>2. (\A n \in s : n <= m) \/ (\A n \in s : n <= x)
      BY <2>1, <3>1
    <3> QED BY <2>1, <3>1, <3>2
  <2> QED BY <2>2, <2>3
<1>3. SUBSET S \subseteq P
  <2> HIDE DEF P
  <2> QED BY <1>1, <1>2, SubsetInduction
<1> QED BY <1>3

LEMMA PartOfAudience ==
  \A s \in SUBSET Audience : /\ IsFiniteSet(s) /\ Cardinality(s) \in Nat
                             /\ s \in SUBSET Nat
                             /\ \A t \in SUBSET s : Cardinality(t) <= Cardinality(s)
  BY BroadcastsAssumption, FS_Subset, FS_CardinalityType

LEMMA MaxIsGreatest ==
  ASSUME NEW s \in SUBSET Audience, s # {}
  PROVE Max(s) \in s /\ \A u \in s : u <= Max(s)
<1>1. \E m \in s : \A u \in s : m >= u
  BY HasGreatest, PartOfAudience, BroadcastsAssumption
<1> QED BY <1>1 DEF Max

\* A chunk is a beginning of the users beyond the cursor, of at most Batch of
\* them, and there is one as long as there are users.
LEMMA ChunkIsBeginning ==
  ASSUME NEW cursor \in Nat, reachable \subseteq Audience
  PROVE LET chunk == NextChunk(cursor)
        IN /\ chunk \subseteq reachable
           /\ \A u \in chunk : u > cursor
           /\ \A u \in reachable, c \in chunk : cursor < u /\ u <= c => u \in chunk
           /\ Cardinality(chunk) <= Batch
           /\ chunk = {} => \A u \in reachable : u <= cursor
<1> DEFINE chunk == NextChunk(cursor)
           Upto(u) == {v \in After(cursor) : v <= u}
<1>1. /\ After(cursor) \subseteq Audience /\ After(cursor) \subseteq reachable
      /\ \A u \in reachable : u \in After(cursor) <=> u > cursor
  BY DEF After
<1>2. \A u : u \in chunk <=> u \in After(cursor) /\ Cardinality(Upto(u)) <= Batch
  BY DEF NextChunk
<1>3. Audience \subseteq Nat /\ Batch \in Nat /\ Batch >= 1
  BY BroadcastsAssumption
<1> HIDE DEF chunk
<1>4. ASSUME NEW u \in After(cursor), NEW c \in chunk, u <= c
      PROVE u \in chunk
  <2>1. Upto(u) \subseteq Upto(c) /\ Upto(c) \subseteq Audience
    <3>1. u \in Nat /\ c \in Nat /\ \A v \in After(cursor) : v \in Nat /\ v \in Audience
      BY <1>1, <1>2, <1>3
    <3>2. \A v \in After(cursor) : v <= u => v <= c
      BY <3>1, <1>4
    <3>3. Upto(c) \subseteq Audience
      BY <3>1
    <3> QED BY <3>2, <3>3
  <2>2. Cardinality(Upto(u)) <= Cardinality(Upto(c)) /\ Cardinality(Upto(u)) \in Nat
        /\ Cardinality(Upto(c)) \in Nat
    <3> HIDE DEF Upto
    <3> QED BY <2>1, PartOfAudience
  <2> QED BY <2>2, <1>2, <1>3
<1>5. Cardinality(chunk) <= Batch
  <2>1. CASE chunk = {}
    BY <2>1, <1>3, FS_EmptySet
  <2>2. CASE chunk # {}
    <3>1. chunk \subseteq Audience
      BY <1>1, <1>2
    <3>2. PICK m \in chunk : \A n \in chunk : n <= m
      BY <3>1, <2>2, HasGreatest, PartOfAudience
    <3>3. chunk = Upto(m)
      BY <3>2, <1>2, <1>4
    <3> QED BY <3>2, <3>3, <1>2
  <2> QED BY <2>1, <2>2
<1>6. ASSUME chunk = {}, NEW u \in reachable, ~(u <= cursor)
      PROVE FALSE
  <2>1. u \in After(cursor)
    BY <1>1, <1>3, <1>6
  <2>2. PICK m \in After(cursor) : \A n \in After(cursor) : m <= n
    BY <2>1, <1>1, HasLeast, PartOfAudience
  <2>3. Upto(m) = {m}
    <3>1. \A v \in After(cursor) : v \in Nat
      BY <1>1, <1>3
    <3>2. \A v \in After(cursor) : v <= m => v = m
      BY <2>2, <3>1
    <3> QED BY <2>2, <3>1, <3>2
  <2>4. Cardinality(Upto(m)) = 1
    BY <2>3, FS_Singleton
  <2> QED BY <2>2, <2>4, <1>2, <1>3, <1>6
<1> QED BY <1>1, <1>2, <1>4, <1>5, <1>6 DEF chunk

-----------------------------------------------------------------------------
(* The invariant.                                                          *)

JobRows ==
  [status : Editable \cup Terminal \cup {"none", "running"}, text : 0 .. 3, due : BOOLEAN,
   cancel : BOOLEAN, cursor : Nat, sent : Nat, failed : Nat]
Outcomes == {"none", "sent", "failed", "bot_blocked"}
SenderStates ==
  [at : {"waiting", "loading", "sending", "stuck"}, job : Jobs \cup {"none"},
   todo : SUBSET Audience, chunk : SUBSET Audience, results : [Audience -> Outcomes],
   text : 0 .. 3]

BroadcastTypes ==
  /\ bcast \in [Jobs -> JobRows]
  /\ rows \in [Jobs -> [Audience -> Outcomes]]
  /\ jobLock \in [Jobs -> Senders \cup {NoSender}]
  /\ sender \in [Senders -> SenderStates]
  /\ reachable \subseteq Audience
  /\ troubles \in 0 .. MaxFaults /\ changes \in 0 .. MaxChanges
  /\ got \in [Jobs -> [Audience -> Nat]] /\ repeats \in [Jobs -> [Audience -> Nat]]
  /\ texts \in [Jobs -> SUBSET (0 .. 3)]
  /\ steady \in [Jobs -> SUBSET Audience]
  /\ lateSends \in [Jobs -> Nat]
  /\ orphans \subseteq Jobs

SentTo(j) == {u \in Audience : rows[j][u] = "sent"}
FailedAt(j) == {u \in Audience : rows[j][u] \in {"failed", "bot_blocked"}}
Tallied(j) ==
  bcast[j].sent = Cardinality(SentTo(j)) /\ bcast[j].failed = Cardinality(FailedAt(j))

Repeated(j) == Total(repeats[j], Audience)

\* A job that no sender has claimed yet, and one that nobody got.
Untouched(j) ==
  /\ bcast[j].status \in Editable => texts[j] = {} /\ rows[j] = NoRows
  /\ texts[j] = {} => lateSends[j] = 0 /\ \A u \in Audience : got[j][u] = 0

Reported(j) ==
  /\ \A u \in Audience : got[j][u] <= 1 + repeats[j][u]
  /\ bcast[j].status # "none" => Tallied(j)
  /\ bcast[j].status = "completed" =>
       ~bcast[j].cancel /\ \A u \in steady[j] : rows[j][u] # "none"
  /\ \E t \in Nat : texts[j] \subseteq {t}
  /\ lateSends[j] <= Batch + Repeated(j)
  /\ bcast[j].status # "none" /\ ~bcast[j].cancel => lateSends[j] = 0
  /\ steady[j] \subseteq reachable

\* What sender s of a job has done of it.
ChunkSound(r, j) ==
  /\ r.chunk # {} /\ r.todo \subseteq r.chunk
  /\ \A u \in r.chunk : u > bcast[j].cursor /\ (u \in r.todo \/ r.results[u] # "none")
  /\ \A u \in steady[j], c \in r.chunk : bcast[j].cursor < u /\ u <= c => u \in r.chunk
  /\ r.text = bcast[j].text
  /\ lateSends[j] + Cardinality(r.todo) <= Batch + Repeated(j)

WorkSound(r, j) ==
  /\ bcast[j].status = "running"
  /\ r.at \in {"loading", "sending", "stuck"}
  /\ texts[j] \subseteq {bcast[j].text}
  /\ \A u \in Audience : rows[j][u] # "none" => u <= bcast[j].cursor
  /\ \A u \in steady[j] : u <= bcast[j].cursor => rows[j][u] # "none"
  /\ \A u \in Audience :
       u > bcast[j].cursor /\ (r.at # "sending" \/ u \in r.todo \/ u \notin r.chunk) =>
         got[j][u] <= repeats[j][u]
  /\ r.at = "sending" => ChunkSound(r, j)

\* One sender is at a job that is running, unless it died there.
Attended(j) ==
  /\ \A s, t \in Senders : sender[s].job = j /\ sender[t].job = j => s = t
  /\ bcast[j].status = "running" => j \in orphans \/ \E s \in Senders : sender[s].job = j
  /\ j \in orphans => bcast[j].status = "running" /\ \A s \in Senders : sender[s].job # j

JobSound(j) ==
  /\ Untouched(j) /\ Reported(j) /\ Attended(j)
  /\ \A s \in Senders : sender[s].job = j => WorkSound(sender[s], j)

BroadcastInv ==
  /\ BroadcastTypes
  /\ \A s \in Senders : sender[s].job = "none" => sender[s] = Waiting
  /\ \A j \in Jobs : JobSound(j)

-----------------------------------------------------------------------------

LEMMA WaitingIsState == Waiting \in SenderStates /\ NoRows \in [Audience -> Outcomes]
<1>1. NoRows \in [Audience -> Outcomes]
  BY DEF NoRows, Outcomes
<1> QED BY <1>1 DEF Waiting, SenderStates

LEMMA NoJobIsRow == NoJob \in JobRows
  BY DEF NoJob, JobRows, Editable, Terminal

LEMMA NobodyCounted ==
  ASSUME NEW j \in Jobs, rows[j] = NoRows
  PROVE Cardinality(SentTo(j)) = 0 /\ Cardinality(FailedAt(j)) = 0
<1>1. SentTo(j) = {} /\ FailedAt(j) = {}
  BY DEF SentTo, FailedAt, NoRows
<1> QED BY <1>1, FS_EmptySet

LEMMA RepeatsAreNumbers ==
  ASSUME BroadcastTypes, NEW j \in Jobs
  PROVE Repeated(j) \in Nat
<1>1. repeats[j] \in [Audience -> Nat]
  BY DEF BroadcastTypes
<1> QED BY <1>1, TotalIsNatural, BroadcastsAssumption DEF Repeated

LEMMA BroadcastStarts == BroadcastInit => BroadcastInv
<1> SUFFICES ASSUME BroadcastInit PROVE BroadcastInv
  OBVIOUS
<1>1. /\ bcast = [j \in Jobs |-> NoJob] /\ rows = [j \in Jobs |-> NoRows]
      /\ jobLock = [j \in Jobs |-> NoSender] /\ sender = [s \in Senders |-> Waiting]
      /\ reachable \in {Audience, Audience \ {Max(Audience)}}
      /\ troubles = 0 /\ changes = 0
      /\ got = [j \in Jobs |-> [u \in Audience |-> 0]]
      /\ repeats = [j \in Jobs |-> [u \in Audience |-> 0]]
      /\ texts = [j \in Jobs |-> {}] /\ steady = [j \in Jobs |-> {}]
      /\ lateSends = [j \in Jobs |-> 0] /\ orphans = {}
  BY DEF BroadcastInit
<1>2. BroadcastTypes
  BY <1>1, WaitingIsState, NoJobIsRow, BroadcastsAssumption DEF BroadcastTypes
<1>3. \A s \in Senders : sender[s] = Waiting /\ sender[s].job = "none"
  BY <1>1 DEF Waiting
<1>4. ASSUME NEW j \in Jobs
      PROVE JobSound(j)
  <2>1. /\ bcast[j] = NoJob /\ bcast[j].status = "none" /\ texts[j] = {} /\ rows[j] = NoRows
        /\ lateSends[j] = 0 /\ steady[j] = {} /\ j \notin orphans
        /\ \A u \in Audience : got[j][u] = 0 /\ repeats[j][u] = 0
    BY <1>1 DEF NoJob
  <2>2. \A s \in Senders : sender[s].job # j
    BY <1>3, BroadcastsAssumption
  <2>3. Repeated(j) = 0
    BY <2>1, TotalOfZeros, BroadcastsAssumption DEF Repeated
  <2>4. Untouched(j)
    BY <2>1 DEF Untouched, Editable
  <2>5. Reported(j)
    <3>1. texts[j] \subseteq {0} /\ Batch \in Nat
      BY <2>1, BroadcastsAssumption
    <3> QED BY <2>1, <2>3, <3>1 DEF Reported
  <2>6. Attended(j)
    BY <2>1, <2>2 DEF Attended
  <2> QED BY <2>2, <2>4, <2>5, <2>6 DEF JobSound
<1> QED BY <1>2, <1>3, <1>4 DEF BroadcastInv

\* A job that a step does not touch; users may have gone.
LEMMA JobKept ==
  ASSUME NEW i \in Jobs, JobSound(i),
         bcast'[i] = bcast[i], rows'[i] = rows[i], got'[i] = got[i],
         repeats'[i] = repeats[i], texts'[i] = texts[i], lateSends'[i] = lateSends[i],
         steady'[i] \subseteq steady[i], steady'[i] \subseteq reachable',
         i \in orphans' <=> i \in orphans,
         \A s \in Senders : /\ sender'[s].job = i <=> sender[s].job = i
                            /\ sender[s].job = i => sender'[s] = sender[s]
  PROVE JobSound(i)'
<1>1. Untouched(i)'
  BY DEF JobSound, Untouched
<1>2. Tallied(i)' <=> Tallied(i)
  BY DEF Tallied, SentTo, FailedAt
<1>3. Repeated(i)' = Repeated(i)
  BY DEF Repeated
<1>4. Reported(i)'
  BY <1>2, <1>3 DEF JobSound, Reported
<1>5. Attended(i)'
  BY DEF JobSound, Attended
<1>6. ASSUME NEW s \in Senders, sender'[s].job = i
      PROVE WorkSound(sender[s], i)'
  <2>1. WorkSound(sender[s], i) /\ sender'[s] = sender[s]
    BY <1>6 DEF JobSound
  <2>2. ChunkSound(sender[s], i) => ChunkSound(sender[s], i)'
    BY <2>1, <1>3 DEF ChunkSound
  <2> QED BY <2>1, <2>2 DEF WorkSound
<1> QED BY <1>1, <1>4, <1>5, <1>6 DEF JobSound

LEMMA AdminStep ==
  ASSUME BroadcastInv, NEW j \in Jobs, NEW new \in JobRows, bcast' = [bcast EXCEPT ![j] = new],
         rows' \in {rows, [rows EXCEPT ![j] = NoRows]},
         UNCHANGED <<jobLock, sender, reachable, troubles, broadcastHistory>>,
         changes' \in 0 .. MaxChanges,
         JobSound(j)'
  PROVE BroadcastInv'
<1> USE DEF broadcastHistory
<1>1. BroadcastTypes
  BY DEF BroadcastInv
<1>2. BroadcastTypes'
  <2>1. rows' \in [Jobs -> [Audience -> Outcomes]]
    BY <1>1, WaitingIsState DEF BroadcastTypes
  <2>2. bcast' \in [Jobs -> JobRows]
    BY <1>1 DEF BroadcastTypes
  <2> QED BY <1>1, <2>1, <2>2 DEF BroadcastTypes
<1>3. ASSUME NEW i \in Jobs, i # j
      PROVE JobSound(i)'
  <2>1. bcast'[i] = bcast[i] /\ rows'[i] = rows[i]
    BY <1>1, <1>3 DEF BroadcastTypes
  <2>2. steady[i] \subseteq reachable /\ JobSound(i)
    BY DEF BroadcastInv, JobSound, Reported
  <2> QED BY <2>1, <2>2, JobKept
<1> QED BY <1>2, <1>3 DEF BroadcastInv

\* Whoever writes, edits or deletes a job that is not running meets no sender.
LEMMA JobAtRest ==
  ASSUME BroadcastInv, NEW j \in Jobs, bcast[j].status # "running"
  PROVE j \notin orphans /\ \A s \in Senders : sender[s].job # j
  BY DEF BroadcastInv, JobSound, Attended, WorkSound

LEMMA CreateStep ==
  ASSUME BroadcastInv, NEW j \in Jobs, NEW status \in Editable, CreateJob(j, status)
  PROVE BroadcastInv'
<1>1. BroadcastTypes
  BY DEF BroadcastInv
<1> DEFINE new == [NoJob EXCEPT !.status = status, !.text = 1]
<1>2. new \in JobRows
  <2>1. status \in Editable \cup Terminal \cup {"none", "running"} /\ 1 \in 0 .. 3
    OBVIOUS
  <2>2. \A r \in JobRows : [r EXCEPT !.status = status, !.text = 1] \in JobRows
    BY <2>1 DEF JobRows
  <2> QED BY <2>2, NoJobIsRow
<1>3. bcast' = [bcast EXCEPT ![j] = new]
  BY <1>1 DEF CreateJob, BroadcastTypes
<1>4. /\ new.status = status /\ new.cancel = FALSE /\ new.sent = 0 /\ new.failed = 0
      /\ status \notin {"none", "running", "completed"}
  BY DEF NoJob, Editable
<1> HIDE DEF new
<1>5. /\ bcast'[j] = new /\ rows[j] = NoRows /\ texts[j] = {} /\ bcast[j].status = "none"
      /\ UNCHANGED <<rows, jobLock, sender, reachable, troubles, changes, broadcastHistory>>
  <2>1. bcast'[j] = new
    BY <1>1, <1>3 DEF BroadcastTypes
  <2>2. bcast[j] = NoJob /\ NoJob.status = "none"
    BY DEF CreateJob, NoJob
  <2> QED BY <2>1, <2>2 DEF CreateJob
<1>6. j \notin orphans /\ \A s \in Senders : sender[s].job # j
  BY <1>5, JobAtRest
<1>7. Cardinality(SentTo(j)') = 0 /\ Cardinality(FailedAt(j)') = 0
  BY <1>5, NobodyCounted DEF SentTo, FailedAt
<1>8. Untouched(j) /\ Reported(j)
  BY DEF BroadcastInv, JobSound
<1>9. Untouched(j)'
  BY <1>5, <1>8 DEF Untouched, broadcastHistory
<1>10. Reported(j)'
  BY <1>4, <1>5, <1>7, <1>8 DEF Reported, Tallied, Untouched, Repeated, broadcastHistory
<1>11. JobSound(j)'
  BY <1>4, <1>5, <1>6, <1>9, <1>10 DEF JobSound, Attended, broadcastHistory
<1> QED BY <1>1, <1>2, <1>3, <1>5, <1>11, AdminStep DEF BroadcastTypes

LEMMA UpdateStep ==
  ASSUME BroadcastInv, NEW j \in Jobs, NEW status \in Editable, UpdateJob(j, status)
  PROVE BroadcastInv'
<1>1. BroadcastTypes
  BY DEF BroadcastInv
<1>2. PICK old \in JobRows : bcast[j] = old
  BY <1>1 DEF BroadcastTypes
<1>3. old.status \in Editable /\ old.text \in 0 .. 3 /\ 3 - old.text \in 0 .. 3
  BY <1>2 DEF UpdateJob, MayEdit, JobRows
<1> DEFINE new == [old EXCEPT !.text = 3 - old.text, !.status = status]
<1>4. new \in JobRows /\ bcast' = [bcast EXCEPT ![j] = new]
  <2>1. status \in Editable \cup Terminal \cup {"none", "running"}
    OBVIOUS
  <2>2. new \in JobRows
    BY <1>3, <2>1 DEF JobRows
  <2>3. bcast' = [bcast EXCEPT ![j] = new]
    BY <1>1, <1>2, <1>3 DEF UpdateJob, MayEdit, BroadcastTypes, JobRows
  <2> QED BY <2>2, <2>3
<1>5. /\ new.status = status /\ new.cancel = old.cancel /\ new.sent = old.sent
      /\ new.failed = old.failed
  BY DEF JobRows
<1>6. status \notin {"none", "running", "completed"} /\ old.status \notin {"none", "running"}
  BY <1>3 DEF Editable
<1> HIDE DEF new
<1>7. /\ bcast'[j] = new
      /\ UNCHANGED <<rows, jobLock, sender, reachable, troubles, broadcastHistory>>
      /\ changes' \in 0 .. MaxChanges
  <2>1. bcast'[j] = new
    BY <1>1, <1>4 DEF BroadcastTypes
  <2>2. changes < MaxChanges /\ changes' = changes + 1 /\ changes \in 0 .. MaxChanges
    BY <1>1 DEF UpdateJob, Change, BroadcastTypes
  <2> QED BY <2>1, <2>2, BroadcastsAssumption DEF UpdateJob
<1>8. j \notin orphans /\ \A s \in Senders : sender[s].job # j
  BY <1>2, <1>6, JobAtRest
<1>9. Untouched(j) /\ Reported(j)
  BY DEF BroadcastInv, JobSound
<1>10. Untouched(j)'
  BY <1>2, <1>3, <1>7, <1>9 DEF Untouched, broadcastHistory
<1>11. Tallied(j)' <=> Tallied(j)
  BY <1>2, <1>5, <1>7 DEF Tallied, SentTo, FailedAt
<1>12. Reported(j)'
  BY <1>2, <1>5, <1>6, <1>7, <1>9, <1>11 DEF Reported, Repeated, broadcastHistory
<1>13. JobSound(j)'
  BY <1>5, <1>6, <1>7, <1>8, <1>10, <1>12 DEF JobSound, Attended, broadcastHistory
<1> QED BY <1>1, <1>4, <1>7, <1>13, AdminStep

LEMMA DeleteStep ==
  ASSUME BroadcastInv, NEW j \in Jobs, DeleteJob(j)
  PROVE BroadcastInv'
<1>1. BroadcastTypes
  BY DEF BroadcastInv
<1>2. /\ bcast' = [bcast EXCEPT ![j] = NoJob] /\ rows' = [rows EXCEPT ![j] = NoRows]
      /\ UNCHANGED <<jobLock, sender, reachable, troubles, changes, broadcastHistory>>
      /\ bcast[j].status # "running"
  BY DEF DeleteJob, Editable, Terminal
<1>3. bcast'[j] = NoJob /\ NoJob.status = "none"
  BY <1>1, <1>2 DEF BroadcastTypes, NoJob
<1>4. j \notin orphans /\ \A s \in Senders : sender[s].job # j
  BY <1>2, JobAtRest
<1>5. Untouched(j) /\ Reported(j)
  BY DEF BroadcastInv, JobSound
<1>6. Untouched(j)'
  BY <1>2, <1>3, <1>5 DEF Untouched, Editable, broadcastHistory
<1>7. Reported(j)'
  BY <1>2, <1>3, <1>5 DEF Reported, Repeated, broadcastHistory
<1>8. JobSound(j)'
  BY <1>2, <1>3, <1>4, <1>6, <1>7 DEF JobSound, Attended, broadcastHistory
<1> QED BY <1>1, <1>2, <1>8, NoJobIsRow, AdminStep DEF BroadcastTypes

\* What changes neither the status nor anything of the counts.
LEMMA CancelStep ==
  ASSUME BroadcastInv, NEW j \in Jobs, RequestCancel(j) \/ RunAtComes(j)
  PROVE BroadcastInv'
<1>1. BroadcastTypes
  BY DEF BroadcastInv
<1>2. PICK old \in JobRows : bcast[j] = old
  BY <1>1 DEF BroadcastTypes
<1> DEFINE stopped == [old EXCEPT !.status = "cancelled", !.cancel = TRUE]
           asked == [old EXCEPT !.cancel = TRUE]
           come == [old EXCEPT !.due = TRUE]
<1>3. /\ stopped.status = "cancelled" /\ stopped.cancel = TRUE
      /\ asked.status = old.status /\ asked.cancel = TRUE
      /\ come.status = old.status /\ come.cancel = old.cancel
      /\ \A r \in {stopped, asked, come} :
           r.text = old.text /\ r.cursor = old.cursor /\ r.sent = old.sent /\ r.failed = old.failed
  BY DEF JobRows
<1>4. stopped \in JobRows /\ asked \in JobRows /\ come \in JobRows
  <2>1. "cancelled" \in Editable \cup Terminal \cup {"none", "running"}
    BY DEF Terminal
  <2> QED BY <2>1 DEF JobRows
<1>5. PICK new :
        /\ bcast' = [bcast EXCEPT ![j] = new]
        /\ \/ new = stopped /\ old.status = "scheduled"
           \/ new = asked /\ old.status = "running"
           \/ new = come /\ old.status \in Editable
  <2>1. ASSUME RequestCancel(j)
        PROVE \/ /\ bcast' = [bcast EXCEPT ![j] = stopped]
                 /\ old.status = "scheduled"
              \/ /\ bcast' = [bcast EXCEPT ![j] = asked]
                 /\ old.status = "running"
    <3>1. CASE bcast[j].status = "scheduled"
      BY <1>1, <1>2, <2>1, <3>1 DEF RequestCancel, BroadcastTypes, JobRows
    <3>2. CASE bcast[j].status = "running"
      BY <1>1, <1>2, <2>1, <3>2 DEF RequestCancel, BroadcastTypes, JobRows
    <3> QED BY <2>1, <3>1, <3>2 DEF RequestCancel
  <2>2. ASSUME RunAtComes(j)
        PROVE bcast' = [bcast EXCEPT ![j] = come] /\ old.status \in Editable
    BY <1>1, <1>2, <2>2 DEF RunAtComes, BroadcastTypes, JobRows
  <2> HIDE DEF stopped, asked, come
  <2> QED BY <2>1, <2>2
<1> HIDE DEF stopped, asked, come
<1>6. /\ new \in JobRows /\ new.text = old.text /\ new.cursor = old.cursor
      /\ new.sent = old.sent /\ new.failed = old.failed
      /\ new.status = old.status \/ (old.status = "scheduled" /\ new.status = "cancelled")
      /\ new.cancel = old.cancel \/ new.cancel = TRUE
      /\ old.status # "completed" /\ old.status # "none"
      /\ new.status # "completed" /\ new.status # "none"
  BY <1>3, <1>4, <1>5 DEF Editable
<1>7. /\ bcast'[j] = new
      /\ UNCHANGED <<rows, jobLock, sender, reachable, troubles, changes, broadcastHistory>>
  BY <1>1, <1>5 DEF RequestCancel, RunAtComes, BroadcastTypes
<1>8. JobSound(j)
  BY DEF BroadcastInv
<1>9. Untouched(j)'
  BY <1>2, <1>6, <1>7, <1>8 DEF Untouched, JobSound, Editable, broadcastHistory
<1>10. Tallied(j)' <=> Tallied(j)
  BY <1>2, <1>6, <1>7 DEF Tallied, SentTo, FailedAt
<1>11. Reported(j)'
  BY <1>2, <1>6, <1>7, <1>8, <1>10 DEF JobSound, Reported, Repeated, broadcastHistory
<1>12. Attended(j)'
  BY <1>2, <1>6, <1>7, <1>8 DEF JobSound, Attended, broadcastHistory
<1>13. ASSUME NEW s \in Senders, sender[s].job = j
       PROVE WorkSound(sender[s], j)'
  <2>1. WorkSound(sender[s], j)
    BY <1>8, <1>13 DEF JobSound
  <2>2. new.status = "running"
    BY <2>1, <1>2, <1>6 DEF WorkSound
  <2>3. ChunkSound(sender[s], j) => ChunkSound(sender[s], j)'
    BY <1>2, <1>6, <1>7 DEF ChunkSound, Repeated, broadcastHistory
  <2> QED BY <2>1, <2>2, <2>3, <1>2, <1>6, <1>7 DEF WorkSound, broadcastHistory
<1>14. JobSound(j)'
  BY <1>7, <1>9, <1>11, <1>12, <1>13 DEF JobSound
<1> QED BY <1>1, <1>5, <1>6, <1>7, <1>14, AdminStep DEF BroadcastTypes

\* A user who goes is no longer expected of any job; one who comes is not yet.
LEMMA AudienceStep ==
  ASSUME BroadcastInv, NEW u \in Audience, AudienceChanges(u)
  PROVE BroadcastInv'
<1>1. BroadcastTypes
  BY DEF BroadcastInv
<1>2. /\ reachable' = IF u \in reachable THEN reachable \ {u} ELSE reachable \cup {u}
      /\ steady' = [j \in Jobs |-> steady[j] \ {u}]
      /\ UNCHANGED <<bcast, rows, jobLock, sender, troubles, got, repeats, texts,
                     lateSends, orphans>>
  BY DEF AudienceChanges
<1>3. changes < MaxChanges /\ changes' = changes + 1 /\ changes \in 0 .. MaxChanges
  BY <1>1 DEF AudienceChanges, Change, BroadcastTypes
<1>4. changes' \in 0 .. MaxChanges
  BY <1>3, BroadcastsAssumption
<1>5. steady' \in [Jobs -> SUBSET Audience]
  BY <1>1, <1>2 DEF BroadcastTypes
<1>6. BroadcastTypes'
  BY <1>1, <1>2, <1>4, <1>5 DEF BroadcastTypes
<1>7. ASSUME NEW i \in Jobs
      PROVE JobSound(i)'
  <2>1. JobSound(i) /\ steady[i] \subseteq reachable
    BY DEF BroadcastInv, JobSound, Reported
  <2>2. steady'[i] \subseteq steady[i] /\ steady'[i] \subseteq reachable'
    BY <2>1, <1>2
  <2> QED BY <2>1, <2>2, <1>2, JobKept
<1> QED BY <1>2, <1>6, <1>7 DEF BroadcastInv

-----------------------------------------------------------------------------
(* The sender.                                                             *)

LEMMA SenderStep ==
  ASSUME BroadcastInv, BroadcastTypes', NEW s \in Senders, NEW j \in Jobs, NEW new,
         sender' = [sender EXCEPT ![s] = new],
         new.job \in {j, "none"}, new.job = "none" => new = Waiting,
         sender[s].job \in {j, "none"},
         \A i \in Jobs \ {j} :
           /\ bcast'[i] = bcast[i] /\ rows'[i] = rows[i] /\ got'[i] = got[i]
           /\ repeats'[i] = repeats[i] /\ texts'[i] = texts[i] /\ lateSends'[i] = lateSends[i]
           /\ steady'[i] \subseteq steady[i] /\ steady'[i] \subseteq reachable'
           /\ i \in orphans' <=> i \in orphans,
         JobSound(j)'
  PROVE BroadcastInv'
<1>1. \A t \in Senders : sender'[t] = IF t = s THEN new ELSE sender[t]
  BY DEF BroadcastInv, BroadcastTypes
<1>2. ASSUME NEW i \in Jobs, i # j
      PROVE JobSound(i)'
  <2>1. \A t \in Senders : /\ sender'[t].job = i <=> sender[t].job = i
                           /\ sender[t].job = i => sender'[t] = sender[t]
    BY <1>1, <1>2, BroadcastsAssumption
  <2>2. JobSound(i)
    BY DEF BroadcastInv
  <2>3. /\ bcast'[i] = bcast[i] /\ rows'[i] = rows[i] /\ got'[i] = got[i]
        /\ repeats'[i] = repeats[i] /\ texts'[i] = texts[i] /\ lateSends'[i] = lateSends[i]
        /\ steady'[i] \subseteq steady[i] /\ steady'[i] \subseteq reachable'
        /\ i \in orphans' <=> i \in orphans
    BY <1>2
  <2> QED BY <2>1, <2>2, <2>3, JobKept
<1>3. \A t \in Senders : sender'[t].job = "none" => sender'[t] = Waiting
  BY <1>1 DEF BroadcastInv
<1> QED BY <1>2, <1>3 DEF BroadcastInv

\* While a sender is at a job, no other is, and the job is no orphan.
LEMMA SenderAlone ==
  ASSUME BroadcastInv, NEW s \in Senders, sender[s].at # "waiting"
  PROVE /\ sender[s].job \in Jobs
        /\ sender[s] \in SenderStates
        /\ JobSound(sender[s].job) /\ WorkSound(sender[s], sender[s].job)
        /\ bcast[sender[s].job].status = "running"
        /\ sender[s].job \notin orphans
        /\ \A t \in Senders : sender[t].job = sender[s].job => t = s
<1>1. sender[s] \in SenderStates
  BY DEF BroadcastInv, BroadcastTypes
<1>2. sender[s].job # "none"
  BY DEF BroadcastInv, Waiting
<1>3. sender[s].job \in Jobs
  BY <1>1, <1>2 DEF SenderStates
<1>4. JobSound(sender[s].job)
  BY <1>3 DEF BroadcastInv
<1>5. WorkSound(sender[s], sender[s].job)
  BY <1>4 DEF JobSound
<1> QED BY <1>1, <1>3, <1>4, <1>5 DEF JobSound, WorkSound, Attended

LEMMA ClaimStep ==
  ASSUME BroadcastInv, NEW s \in Senders, ClaimNextJob(s)
  PROVE BroadcastInv'
<1>1. BroadcastTypes
  BY DEF BroadcastInv
<1>2. PICK j \in Jobs :
        /\ bcast[j].status = "scheduled"
        /\ bcast' = [bcast EXCEPT ![j].status = "running", ![j].cursor = 0,
                                  ![j].sent = 0, ![j].failed = 0]
        /\ sender' = [sender EXCEPT ![s].at = "loading", ![s].job = j]
        /\ steady' = [steady EXCEPT ![j] = reachable]
  BY DEF ClaimNextJob
<1>3. PICK old \in JobRows : bcast[j] = old
  BY <1>1 DEF BroadcastTypes
<1> DEFINE row == [old EXCEPT !.status = "running", !.cursor = 0, !.sent = 0, !.failed = 0]
           new == [Waiting EXCEPT !.at = "loading", !.job = j]
<1>4. row \in JobRows /\ row.status = "running" /\ row.cursor = 0 /\ row.sent = 0
      /\ row.failed = 0 /\ row.text = old.text /\ row.cancel = old.cancel
  <2>1. "running" \in Editable \cup Terminal \cup {"none", "running"} /\ 0 \in Nat
    OBVIOUS
  <2>2. row \in JobRows
    BY <2>1 DEF JobRows
  <2> QED BY <2>2 DEF JobRows
<1>5. new \in SenderStates /\ new.at = "loading" /\ new.job = j
  <2>1. \A r \in SenderStates : /\ [r EXCEPT !.at = "loading", !.job = j] \in SenderStates
                                /\ [r EXCEPT !.at = "loading", !.job = j].at = "loading"
                                /\ [r EXCEPT !.at = "loading", !.job = j].job = j
    BY DEF SenderStates
  <2> QED BY <2>1, WaitingIsState
<1>6. bcast' = [bcast EXCEPT ![j] = row]
  BY <1>1, <1>2, <1>3 DEF BroadcastTypes
<1>7. sender' = [sender EXCEPT ![s] = new] /\ sender[s].job = "none"
  <2>1. sender[s] = Waiting /\ Waiting.job = "none"
    BY DEF ClaimNextJob, Waiting
  <2>2. sender' = [sender EXCEPT ![s] = [sender[s] EXCEPT !.at = "loading", !.job = j]]
    BY <1>1, <1>2 DEF BroadcastTypes
  <2> QED BY <2>1, <2>2
<1> HIDE DEF row, new
<1>8. UNCHANGED <<rows, jobLock, reachable, troubles, changes, got, repeats,
                  texts, lateSends, orphans>>
  BY DEF ClaimNextJob
<1>9. BroadcastTypes'
  <2>1. bcast' \in [Jobs -> JobRows]
    BY <1>1, <1>4, <1>6 DEF BroadcastTypes
  <2>2. sender' \in [Senders -> SenderStates]
    BY <1>1, <1>5, <1>7 DEF BroadcastTypes
  <2>3. steady' \in [Jobs -> SUBSET Audience]
    BY <1>1, <1>2 DEF BroadcastTypes
  <2> QED BY <1>1, <1>8, <2>1, <2>2, <2>3 DEF BroadcastTypes
<1>10. /\ \A i \in Jobs : bcast'[i] = IF i = j THEN row ELSE bcast[i]
       /\ \A i \in Jobs : steady'[i] = IF i = j THEN reachable ELSE steady[i]
       /\ \A t \in Senders : sender'[t] = IF t = s THEN new ELSE sender[t]
  BY <1>1, <1>2, <1>6, <1>7 DEF BroadcastTypes
<1>11. j \notin orphans /\ \A t \in Senders : sender[t].job # j
  BY <1>2, JobAtRest
<1>12. /\ texts[j] = {} /\ rows[j] = NoRows /\ lateSends[j] = 0
       /\ \A u \in Audience : got[j][u] = 0
       /\ Reported(j)
  BY <1>2 DEF BroadcastInv, JobSound, Untouched, Editable
<1>13. Untouched(j)'
  BY <1>8, <1>12, <1>10, <1>4 DEF Untouched, Editable
<1>14. Tallied(j)'
  <2>1. Cardinality(SentTo(j)') = 0 /\ Cardinality(FailedAt(j)') = 0
    BY <1>8, <1>12, NobodyCounted DEF SentTo, FailedAt
  <2> QED BY <2>1, <1>4, <1>10 DEF Tallied
<1>15. Reported(j)'
  BY <1>4, <1>8, <1>10, <1>12, <1>14 DEF Reported, Repeated
<1>16. Attended(j)'
  BY <1>4, <1>5, <1>8, <1>10, <1>11 DEF Attended
<1>17. WorkSound(new, j)'
  <2>1. \A u \in Audience : rows[j][u] = "none" /\ u > 0 /\ ~(u <= 0)
    <3>1. \A u \in Audience : u \in Nat /\ u # 0
      BY BroadcastsAssumption
    <3>2. \A u \in Audience : u > 0 /\ ~(u <= 0)
      BY <3>1
    <3> QED BY <3>2, <1>12 DEF NoRows
  <2>2. \A u \in Audience : got[j][u] <= repeats[j][u]
    BY <1>12, <1>1 DEF BroadcastTypes
  <2>3. steady'[j] \subseteq Audience
    BY <1>1, <1>10 DEF BroadcastTypes
  <2> QED BY <2>1, <2>2, <2>3, <1>4, <1>5, <1>8, <1>10, <1>12 DEF WorkSound
<1>18. JobSound(j)'
  <2>1. \A t \in Senders : sender'[t].job = j => sender'[t] = new
    BY <1>10, <1>11
  <2> QED BY <2>1, <1>13, <1>15, <1>16, <1>17 DEF JobSound
<1>19. \A i \in Jobs \ {j} :
           /\ bcast'[i] = bcast[i] /\ rows'[i] = rows[i] /\ got'[i] = got[i]
           /\ repeats'[i] = repeats[i] /\ texts'[i] = texts[i] /\ lateSends'[i] = lateSends[i]
           /\ steady'[i] \subseteq steady[i] /\ steady'[i] \subseteq reachable'
           /\ i \in orphans' <=> i \in orphans
  BY <1>8, <1>10 DEF BroadcastInv, JobSound, Reported
<1>20. new.job \in {j, "none"} /\ new.job # "none" /\ sender[s].job \in {j, "none"}
  BY <1>5, <1>7, BroadcastsAssumption
<1> QED BY <1>7, <1>9, <1>18, <1>19, <1>20, SenderStep

\* A step of a sender that changes nothing but what it does.
LEMMA WorkStep ==
  ASSUME BroadcastInv, NEW s \in Senders, sender[s].at # "waiting",
         NEW new \in SenderStates, new.job = sender[s].job,
         sender' = [sender EXCEPT ![s] = new],
         jobLock' \in [Jobs -> Senders \cup {NoSender}],
         UNCHANGED <<bcast, rows, reachable, troubles, changes, broadcastHistory>>,
         WorkSound(new, new.job)
  PROVE BroadcastInv'
<1>1. BroadcastTypes
  BY DEF BroadcastInv
<1>2. PICK j \in Jobs : /\ sender[s].job = j /\ JobSound(j) /\ bcast[j].status = "running"
                        /\ \A t \in Senders : sender[t].job = j => t = s
  BY SenderAlone
<1>3. \A t \in Senders : sender'[t] = IF t = s THEN new ELSE sender[t]
  BY <1>1 DEF BroadcastTypes
<1>4. sender' \in [Senders -> SenderStates]
  BY <1>1 DEF BroadcastTypes
<1>5. BroadcastTypes'
  BY <1>1, <1>4 DEF BroadcastTypes, broadcastHistory
<1>6. Untouched(j)'
  BY <1>2 DEF JobSound, Untouched, broadcastHistory
<1>7. Tallied(j)' <=> Tallied(j)
  BY DEF Tallied, SentTo, FailedAt
<1>8. Reported(j)'
  BY <1>2, <1>7 DEF JobSound, Reported, Repeated, broadcastHistory
<1>9. Attended(j)'
  BY <1>2, <1>3 DEF JobSound, Attended, broadcastHistory
<1>10. WorkSound(new, j)'
  BY <1>2 DEF WorkSound, ChunkSound, Repeated, broadcastHistory
<1>11. JobSound(j)'
  <2>1. \A t \in Senders : sender'[t].job = j => sender'[t] = new
    BY <1>2, <1>3
  <2> QED BY <2>1, <1>6, <1>8, <1>9, <1>10 DEF JobSound
<1>12. \A i \in Jobs \ {j} :
           /\ bcast'[i] = bcast[i] /\ rows'[i] = rows[i] /\ got'[i] = got[i]
           /\ repeats'[i] = repeats[i] /\ texts'[i] = texts[i] /\ lateSends'[i] = lateSends[i]
           /\ steady'[i] \subseteq steady[i] /\ steady'[i] \subseteq reachable'
           /\ i \in orphans' <=> i \in orphans
  BY DEF BroadcastInv, JobSound, Reported, broadcastHistory
<1>13. new.job \in {j, "none"} /\ new.job # "none" /\ sender[s].job \in {j, "none"}
  BY <1>2, BroadcastsAssumption
<1> QED BY <1>5, <1>11, <1>12, <1>13, SenderStep

LEMMA LoadChunkStep ==
  ASSUME BroadcastInv, NEW s \in Senders, LoadChunk(s)
  PROVE BroadcastInv'
<1>1. BroadcastTypes
  BY DEF BroadcastInv
<1>2. sender[s].at = "loading"
  BY DEF LoadChunk
<1>3. PICK j \in Jobs : /\ sender[s].job = j /\ JobSound(j) /\ WorkSound(sender[s], j)
  BY <1>2, SenderAlone
<1>4. PICK row \in JobRows : bcast[j] = row
  BY <1>1 DEF BroadcastTypes
<1>5. row.cursor \in Nat /\ row.text \in 0 .. 3
  BY <1>4 DEF JobRows
<1>6. PICK chunk : /\ chunk = NextChunk(row.cursor) /\ chunk # {}
                   /\ sender' = [sender EXCEPT ![s] =
                        [at |-> "sending", job |-> j, todo |-> chunk, chunk |-> chunk,
                         results |-> NoRows, text |-> row.text]]
                   /\ ~row.cancel
  BY <1>3, <1>4 DEF LoadChunk, CancelSeen
<1> DEFINE new == [at |-> "sending", job |-> j, todo |-> chunk, chunk |-> chunk,
                   results |-> NoRows, text |-> row.text]
<1>7. /\ chunk \subseteq reachable /\ reachable \subseteq Audience
      /\ \A u \in chunk : u > row.cursor
      /\ \A u \in reachable, c \in chunk : row.cursor < u /\ u <= c => u \in chunk
      /\ Cardinality(chunk) <= Batch
  BY <1>1, <1>5, <1>6, ChunkIsBeginning DEF BroadcastTypes
<1>8. Cardinality(chunk) \in Nat
  BY <1>7, PartOfAudience
<1>9. new \in SenderStates
  BY <1>5, <1>7, WaitingIsState DEF SenderStates
<1>10. /\ new.at = "sending" /\ new.job = j /\ new.todo = chunk /\ new.chunk = chunk
       /\ new.text = row.text
  OBVIOUS
<1>11. sender' = [sender EXCEPT ![s] = new]
  BY <1>6
<1> HIDE DEF new
<1>12. lateSends[j] = 0 /\ Repeated(j) \in Int /\ Repeated(j) >= 0
  <2>1. lateSends[j] = 0
    BY <1>3, <1>4, <1>6 DEF JobSound, Reported, WorkSound
  <2>2. Repeated(j) \in Nat
    BY <1>1, RepeatsAreNumbers
  <2> QED BY <2>1, <2>2
<1>13. ChunkSound(new, j)
  <2>1. steady[j] \subseteq reachable
    BY <1>3 DEF JobSound, Reported
  <2>2. Batch \in Nat
    BY BroadcastsAssumption
  <2>3. lateSends[j] + Cardinality(chunk) <= Batch + Repeated(j)
    BY <1>7, <1>8, <1>12, <2>2
  <2> QED BY <1>4, <1>6, <1>7, <1>10, <2>1, <2>3 DEF ChunkSound
<1>14. WorkSound(new, j)
  BY <1>3, <1>2, <1>10, <1>13 DEF WorkSound
<1>15. UNCHANGED <<bcast, rows, jobLock, reachable, troubles, changes, broadcastHistory>>
  BY DEF LoadChunk
<1> QED BY <1>1, <1>2, <1>3, <1>9, <1>10, <1>11, <1>14, <1>15, WorkStep DEF BroadcastTypes

LEMMA FindCancelStep ==
  ASSUME BroadcastInv, NEW s \in Senders, LoadFindsCancel(s)
  PROVE BroadcastInv'
<1>1. BroadcastTypes
  BY DEF BroadcastInv
<1>2. sender[s].at = "loading"
  BY DEF LoadFindsCancel
<1>3. PICK old \in SenderStates : sender[s] = old
  BY <1>1 DEF BroadcastTypes
<1>4. old.job \in Jobs /\ WorkSound(old, old.job)
  BY <1>2, <1>3, SenderAlone
<1> DEFINE new == [old EXCEPT !.at = "stuck"]
<1>5. new \in SenderStates /\ new.at = "stuck" /\ new.job = old.job /\ new.chunk = old.chunk
      /\ new.todo = old.todo
  BY DEF SenderStates
<1>6. sender' = [sender EXCEPT ![s] = new]
  BY <1>1, <1>3 DEF LoadFindsCancel, BroadcastTypes
<1> HIDE DEF new
<1>7. jobLock' \in [Jobs -> Senders \cup {NoSender}]
  BY <1>1 DEF LoadFindsCancel, BroadcastTypes
<1>8. UNCHANGED <<bcast, rows, reachable, troubles, changes, broadcastHistory>>
  BY DEF LoadFindsCancel
<1>9. WorkSound(new, new.job)
  BY <1>2, <1>3, <1>4, <1>5 DEF WorkSound
<1> QED BY <1>2, <1>3, <1>5, <1>6, <1>7, <1>8, <1>9, WorkStep

\* A sender that leaves a job in another state than running.
LEMMA EndStep ==
  ASSUME BroadcastInv, NEW s \in Senders, sender[s].at # "waiting",
         NEW j \in Jobs, sender[s].job = j,
         NEW status \in {"completed", "failed"},
         bcast' = [bcast EXCEPT ![j].status = status],
         status = "completed" =>
           ~bcast[j].cancel /\ \A u \in steady[j] : rows[j][u] # "none",
         sender' = [sender EXCEPT ![s] = Waiting],
         troubles' \in 0 .. MaxFaults,
         UNCHANGED <<rows, jobLock, reachable, changes, broadcastHistory>>
  PROVE BroadcastInv'
<1> USE DEF broadcastHistory
<1>1. BroadcastTypes
  BY DEF BroadcastInv
<1>2. /\ JobSound(j) /\ WorkSound(sender[s], j) /\ j \notin orphans
      /\ bcast[j].status = "running"
      /\ \A t \in Senders : sender[t].job = j => t = s
  BY SenderAlone
<1>3. PICK old \in JobRows : bcast[j] = old
  BY <1>1 DEF BroadcastTypes
<1> DEFINE row == [old EXCEPT !.status = status]
<1>4. /\ row \in JobRows /\ row.status = status /\ row.cancel = old.cancel
      /\ row.sent = old.sent /\ row.failed = old.failed /\ row.text = old.text
  <2>1. status \in Editable \cup Terminal \cup {"none", "running"}
    BY DEF Terminal
  <2> QED BY <2>1 DEF JobRows
<1>5. bcast' = [bcast EXCEPT ![j] = row]
  BY <1>1, <1>3 DEF BroadcastTypes
<1> HIDE DEF row
<1>6. /\ \A i \in Jobs : bcast'[i] = IF i = j THEN row ELSE bcast[i]
      /\ \A t \in Senders : sender'[t] = IF t = s THEN Waiting ELSE sender[t]
  BY <1>1, <1>5 DEF BroadcastTypes
<1>7. BroadcastTypes'
  <2>1. bcast' \in [Jobs -> JobRows]
    BY <1>1, <1>4, <1>5 DEF BroadcastTypes
  <2>2. sender' \in [Senders -> SenderStates]
    BY <1>1, WaitingIsState DEF BroadcastTypes
  <2> QED BY <1>1, <2>1, <2>2 DEF BroadcastTypes
<1>8. Untouched(j)'
  BY <1>2, <1>4, <1>6 DEF JobSound, Untouched, Editable
<1>9. Tallied(j)' <=> Tallied(j)
  BY <1>3, <1>4, <1>6 DEF Tallied, SentTo, FailedAt
<1>10. Reported(j)'
  BY <1>2, <1>3, <1>4, <1>6, <1>9 DEF JobSound, Reported, Repeated
<1>11. \A t \in Senders : sender'[t].job # j
  BY <1>2, <1>6, BroadcastsAssumption DEF Waiting
<1>12. JobSound(j)'
  BY <1>2, <1>4, <1>6, <1>8, <1>10, <1>11 DEF JobSound, Attended
<1>13. \A i \in Jobs \ {j} :
           /\ bcast'[i] = bcast[i] /\ rows'[i] = rows[i] /\ got'[i] = got[i]
           /\ repeats'[i] = repeats[i] /\ texts'[i] = texts[i] /\ lateSends'[i] = lateSends[i]
           /\ steady'[i] \subseteq steady[i] /\ steady'[i] \subseteq reachable'
           /\ i \in orphans' <=> i \in orphans
  BY <1>6 DEF BroadcastInv, JobSound, Reported
<1>14. Waiting.job \in {j, "none"}
  BY DEF Waiting
<1> QED BY <1>7, <1>12, <1>13, <1>14, SenderStep

LEMMA CompleteStep ==
  ASSUME BroadcastInv, NEW s \in Senders, Complete(s)
  PROVE BroadcastInv'
<1>1. BroadcastTypes
  BY DEF BroadcastInv
<1>2. sender[s].at = "loading"
  BY DEF Complete
<1>3. PICK j \in Jobs : /\ sender[s].job = j /\ JobSound(j) /\ WorkSound(sender[s], j)
  BY <1>2, SenderAlone
<1>4. /\ bcast' = [bcast EXCEPT ![j].status = "completed"]
      /\ ~bcast[j].cancel
      /\ NextChunk(bcast[j].cursor) = {}
      /\ sender' = [sender EXCEPT ![s] = Waiting]
      /\ UNCHANGED <<rows, jobLock, reachable, troubles, changes, broadcastHistory>>
  BY <1>3 DEF Complete, CancelSeen, Rest
<1>5. bcast[j].cursor \in Nat /\ reachable \subseteq Audience
  BY <1>1 DEF BroadcastTypes, JobRows
<1>6. \A u \in reachable : u <= bcast[j].cursor
  BY <1>4, <1>5, ChunkIsBeginning
<1>7. \A u \in steady[j] : rows[j][u] # "none"
  BY <1>3, <1>6 DEF JobSound, Reported, WorkSound
<1>8. sender[s].at # "waiting" /\ troubles' \in 0 .. MaxFaults
  BY <1>1, <1>2, <1>4 DEF BroadcastTypes
<1> QED BY <1>3, <1>4, <1>7, <1>8, EndStep

LEMMA TroubleIsBounded ==
  ASSUME BroadcastTypes, Trouble PROVE troubles' \in 0 .. MaxFaults
<1>1. troubles < MaxFaults /\ troubles' = troubles + 1 /\ troubles \in 0 .. MaxFaults
  BY DEF BroadcastTypes, Trouble
<1> QED BY <1>1, BroadcastsAssumption

LEMMA SenderFailsStep ==
  ASSUME BroadcastInv, NEW s \in Senders, SenderFails(s)
  PROVE BroadcastInv'
<1>1. BroadcastTypes
  BY DEF BroadcastInv
<1>2. sender[s].at # "waiting"
  BY DEF SenderFails
<1>3. PICK j \in Jobs : sender[s].job = j /\ bcast[j].status = "running"
  BY <1>2, SenderAlone
<1>4. /\ bcast' = [bcast EXCEPT ![j].status = "failed"]
      /\ sender' = [sender EXCEPT ![s] = Waiting]
      /\ UNCHANGED <<rows, jobLock, reachable, changes, broadcastHistory>>
  BY <1>3 DEF SenderFails, Rest
<1>5. troubles' \in 0 .. MaxFaults
  BY <1>1, TroubleIsBounded DEF SenderFails
<1> QED BY <1>2, <1>3, <1>4, <1>5, EndStep

LEMMA SenderDiesStep ==
  ASSUME BroadcastInv, NEW s \in Senders, SenderDies(s)
  PROVE BroadcastInv'
<1>1. BroadcastTypes
  BY DEF BroadcastInv
<1>2. sender[s].at # "waiting"
  <2>1. sender[s] # Waiting /\ sender[s] \in SenderStates
    BY <1>1 DEF SenderDies, BroadcastTypes
  <2>2. sender[s].job \in Jobs
    BY <2>1 DEF BroadcastInv, SenderStates
  <2> QED BY <2>2 DEF BroadcastInv, JobSound, WorkSound
<1>3. PICK j \in Jobs : /\ sender[s].job = j /\ JobSound(j) /\ bcast[j].status = "running"
                        /\ j \notin orphans
                        /\ \A t \in Senders : sender[t].job = j => t = s
  BY <1>2, SenderAlone
<1>4. /\ sender' = [sender EXCEPT ![s] = Waiting]
      /\ jobLock' = [i \in Jobs |-> IF jobLock[i] = s THEN NoSender ELSE jobLock[i]]
      /\ orphans' = orphans \cup {j}
      /\ UNCHANGED <<bcast, rows, reachable, changes, got, repeats, texts, steady, lateSends>>
  BY <1>3 DEF SenderDies, Rest
<1>5. troubles' \in 0 .. MaxFaults
  BY <1>1, TroubleIsBounded DEF SenderDies
<1>6. \A t \in Senders : sender'[t] = IF t = s THEN Waiting ELSE sender[t]
  BY <1>1, <1>4 DEF BroadcastTypes
<1>7. BroadcastTypes'
  <2>1. jobLock' \in [Jobs -> Senders \cup {NoSender}]
    BY <1>1, <1>4 DEF BroadcastTypes
  <2>2. sender' \in [Senders -> SenderStates]
    BY <1>1, <1>4, WaitingIsState DEF BroadcastTypes
  <2>3. orphans' \subseteq Jobs
    BY <1>1, <1>4 DEF BroadcastTypes
  <2> QED BY <1>1, <1>4, <1>5, <2>1, <2>2, <2>3 DEF BroadcastTypes
<1>8. Untouched(j)'
  BY <1>3, <1>4 DEF JobSound, Untouched
<1>9. Tallied(j)' <=> Tallied(j)
  BY <1>4 DEF Tallied, SentTo, FailedAt
<1>10. Reported(j)'
  BY <1>3, <1>4, <1>9 DEF JobSound, Reported, Repeated
<1>11. \A t \in Senders : sender'[t].job # j
  BY <1>3, <1>6, BroadcastsAssumption DEF Waiting
<1>12. JobSound(j)'
  BY <1>3, <1>4, <1>8, <1>10, <1>11 DEF JobSound, Attended
<1>13. \A i \in Jobs \ {j} :
           /\ bcast'[i] = bcast[i] /\ rows'[i] = rows[i] /\ got'[i] = got[i]
           /\ repeats'[i] = repeats[i] /\ texts'[i] = texts[i] /\ lateSends'[i] = lateSends[i]
           /\ steady'[i] \subseteq steady[i] /\ steady'[i] \subseteq reachable'
           /\ i \in orphans' <=> i \in orphans
  BY <1>4 DEF BroadcastInv, JobSound, Reported
<1>14. Waiting.job \in {j, "none"}
  BY DEF Waiting
<1> QED BY <1>3, <1>4, <1>7, <1>12, <1>13, <1>14, SenderStep

-----------------------------------------------------------------------------
(* The messages of a chunk.                                                *)

\* The request for user u is over.
LEMMA ResultIsRecorded ==
  ASSUME BroadcastTypes, NEW s \in Senders, NEW u \in sender[s].todo,
         NEW outcome \in Outcomes \ {"none"}, RecordResult(s, u, outcome),
         NEW r \in SenderStates, sender[s] = r
  PROVE \E new \in SenderStates :
          /\ sender' = [sender EXCEPT ![s] = new]
          /\ new.at = r.at /\ new.job = r.job /\ new.chunk = r.chunk /\ new.text = r.text
          /\ new.todo = r.todo \ {u}
          /\ \A v \in Audience : new.results[v] = IF v = u THEN outcome ELSE r.results[v]
<1> DEFINE res == [r.results EXCEPT ![u] = outcome]
           new == [r EXCEPT !.todo = r.todo \ {u}, !.results = res]
<1>1. u \in Audience /\ r.results \in [Audience -> Outcomes] /\ r.todo \in SUBSET Audience
  BY DEF SenderStates
<1>2. res \in [Audience -> Outcomes]
      /\ \A v \in Audience : res[v] = IF v = u THEN outcome ELSE r.results[v]
  BY <1>1
<1>3. sender' = [sender EXCEPT ![s] = new]
  BY DEF RecordResult, BroadcastTypes
<1> HIDE DEF res
<1>4. new \in SenderStates
  BY <1>1, <1>2 DEF SenderStates
<1>5. /\ new.at = r.at /\ new.job = r.job /\ new.chunk = r.chunk /\ new.text = r.text
      /\ new.todo = r.todo \ {u} /\ new.results = res
  BY DEF SenderStates
<1> HIDE DEF new
<1> QED BY <1>2, <1>3, <1>4, <1>5

LEMMA OneLessToDo ==
  ASSUME NEW todo \in SUBSET Audience, NEW u \in todo
  PROVE /\ Cardinality(todo \ {u}) \in Nat
        /\ Cardinality(todo) = Cardinality(todo \ {u}) + 1
<1>1. IsFiniteSet(todo) /\ todo \ {u} \in SUBSET Audience
  BY PartOfAudience
<1>2. Cardinality(todo \ {u}) = Cardinality(todo) - 1 /\ Cardinality(todo) \in Nat
      /\ Cardinality(todo \ {u}) \in Nat
  BY <1>1, PartOfAudience, FS_RemoveElement
<1> QED BY <1>2

LEMMA DeliverStep ==
  ASSUME BroadcastInv, NEW s \in Senders, NEW u \in Audience, Deliver(s, u)
  PROVE BroadcastInv'
<1>1. BroadcastTypes
  BY DEF BroadcastInv
<1>2. sender[s].at = "sending" /\ u \in sender[s].todo
  BY DEF Deliver
<1>3. PICK r \in SenderStates : sender[s] = r
  BY <1>1 DEF BroadcastTypes
<1>4. PICK j \in Jobs : /\ r.job = j /\ JobSound(j) /\ bcast[j].status = "running"
                        /\ WorkSound(r, j) /\ j \notin orphans
                        /\ \A t \in Senders : sender[t].job = j => t = s
  BY <1>2, <1>3, SenderAlone
<1>5. PICK new \in SenderStates :
        /\ sender' = [sender EXCEPT ![s] = new]
        /\ new.at = r.at /\ new.job = j /\ new.chunk = r.chunk /\ new.text = r.text
        /\ new.todo = r.todo \ {u}
        /\ \A v \in Audience : new.results[v] = IF v = u THEN "sent" ELSE r.results[v]
  <2>1. RecordResult(s, u, "sent") /\ "sent" \in Outcomes \ {"none"}
    BY DEF Deliver, Outcomes
  <2> QED BY <2>1, <1>1, <1>2, <1>3, <1>4, ResultIsRecorded
<1> DEFINE late == IF bcast[j].cancel THEN 1 ELSE 0
<1>6. /\ got' = [got EXCEPT ![j][u] = @ + 1]
      /\ texts' = [texts EXCEPT ![j] = @ \cup {r.text}]
      /\ lateSends' = [lateSends EXCEPT ![j] = @ + late]
      /\ UNCHANGED <<bcast, rows, jobLock, reachable, troubles, changes, repeats,
                     steady, orphans>>
  BY <1>3, <1>4 DEF Deliver, Reaches
<1>7. /\ \A i \in Jobs : got'[i] = IF i = j THEN [got[j] EXCEPT ![u] = @ + 1] ELSE got[i]
      /\ \A v \in Audience : got'[j][v] = IF v = u THEN got[j][u] + 1 ELSE got[j][v]
      /\ \A i \in Jobs : texts'[i] = IF i = j THEN texts[j] \cup {r.text} ELSE texts[i]
      /\ \A i \in Jobs : lateSends'[i] = IF i = j THEN lateSends[j] + late ELSE lateSends[i]
      /\ \A t \in Senders : sender'[t] = IF t = s THEN new ELSE sender[t]
  BY <1>1, <1>5, <1>6 DEF BroadcastTypes
<1>8. /\ \A v \in Audience : got[j][v] \in Nat /\ repeats[j][v] \in Nat
      /\ lateSends[j] \in Nat /\ late \in {0, 1} /\ Repeated(j) \in Nat
      /\ Batch \in Nat /\ r.text \in 0 .. 3 /\ r.todo \in SUBSET Audience
  BY <1>1, <1>3, RepeatsAreNumbers, BroadcastsAssumption DEF BroadcastTypes, SenderStates
<1>9. ChunkSound(r, j) /\ u \in r.todo /\ u \in r.chunk
  BY <1>2, <1>3, <1>4 DEF WorkSound, ChunkSound
<1>10. got[j][u] <= repeats[j][u]
  BY <1>2, <1>3, <1>4, <1>9 DEF WorkSound, ChunkSound
<1>11. /\ Cardinality(r.todo \ {u}) \in Nat
       /\ Cardinality(r.todo) = Cardinality(r.todo \ {u}) + 1
  BY <1>8, <1>9, OneLessToDo
<1>12. bcast[j].cancel \in BOOLEAN /\ (~bcast[j].cancel => late = 0 /\ lateSends[j] = 0)
  BY <1>1, <1>4 DEF JobSound, Reported, BroadcastTypes, JobRows
<1> HIDE DEF late
<1>13. lateSends'[j] = lateSends[j] + late
       /\ lateSends'[j] + Cardinality(r.todo \ {u}) <= Batch + Repeated(j)
       /\ lateSends'[j] <= Batch + Repeated(j)
  BY <1>7, <1>8, <1>9, <1>11 DEF ChunkSound
<1>14. BroadcastTypes'
  <2>1. sender' \in [Senders -> SenderStates]
    BY <1>1, <1>5 DEF BroadcastTypes
  <2>2. got' \in [Jobs -> [Audience -> Nat]]
    BY <1>1, <1>6, <1>8 DEF BroadcastTypes
  <2>3. texts' \in [Jobs -> SUBSET (0 .. 3)]
    BY <1>1, <1>6, <1>8 DEF BroadcastTypes
  <2>4. lateSends' \in [Jobs -> Nat]
    BY <1>1, <1>6, <1>8 DEF BroadcastTypes
  <2> QED BY <1>1, <1>6, <2>1, <2>2, <2>3, <2>4 DEF BroadcastTypes
<1>15. Untouched(j)'
  BY <1>4, <1>6, <1>7 DEF Untouched, Editable
<1>16. Tallied(j)' <=> Tallied(j)
  BY <1>6 DEF Tallied, SentTo, FailedAt
<1>17. texts'[j] \subseteq {bcast[j].text} /\ bcast[j].text \in Nat
  BY <1>4, <1>7, <1>9, <1>8 DEF WorkSound, ChunkSound
<1>18. Reported(j)'
  <2>1. \A v \in Audience : got'[j][v] <= 1 + repeats[j][v]
    <3>1. \A v \in Audience : got[j][v] <= 1 + repeats[j][v]
      BY <1>4 DEF JobSound, Reported
    <3> QED BY <3>1, <1>7, <1>8, <1>10
  <2>2. \E t \in Nat : texts'[j] \subseteq {t}
    BY <1>17
  <2>3. ~bcast[j].cancel => lateSends'[j] = 0
    BY <1>12, <1>13
  <2> QED BY <1>4, <1>6, <1>13, <1>16, <2>1, <2>2, <2>3 DEF JobSound, Reported, Repeated
<1>19. Attended(j)'
  BY <1>4, <1>5, <1>6, <1>7 DEF JobSound, Attended
<1>20. ChunkSound(new, j)'
  <2>1. ASSUME NEW v \in new.chunk
        PROVE v > bcast[j].cursor /\ (v \in new.todo \/ new.results[v] # "none")
    <3>1. v \in Audience /\ v \in r.chunk
      BY <2>1, <1>5 DEF SenderStates
    <3> QED BY <3>1, <1>5, <1>9 DEF ChunkSound
  <2>2. new.chunk # {} /\ new.todo \subseteq new.chunk /\ new.text = bcast[j].text
    BY <1>5, <1>9 DEF ChunkSound
  <2>3. \A v \in steady[j], c \in new.chunk :
          bcast[j].cursor < v /\ v <= c => v \in new.chunk
    BY <1>5, <1>9 DEF ChunkSound
  <2>4. lateSends'[j] + Cardinality(new.todo) <= Batch + Repeated(j)
    BY <1>5, <1>13
  <2>5. Repeated(j)' = Repeated(j)
    BY <1>6 DEF Repeated
  <2> QED BY <2>1, <2>2, <2>3, <2>4, <2>5, <1>6 DEF ChunkSound
<1>21. WorkSound(new, j)'
  <2>1. ASSUME NEW v \in Audience, v > bcast[j].cursor, v \in new.todo \/ v \notin new.chunk
        PROVE got'[j][v] <= repeats[j][v]
    <3>1. v # u
      BY <2>1, <1>5, <1>9
    <3> QED BY <3>1, <2>1, <1>4, <1>5, <1>7 DEF WorkSound
  <2>2. new.at = "sending"
    BY <1>2, <1>3, <1>5
  <2> QED BY <2>1, <2>2, <1>4, <1>6, <1>17, <1>20 DEF WorkSound
<1>22. JobSound(j)'
  <2>1. \A t \in Senders : sender'[t].job = j => sender'[t] = new
    BY <1>4, <1>7
  <2> QED BY <2>1, <1>15, <1>18, <1>19, <1>21 DEF JobSound
<1>23. \A i \in Jobs \ {j} :
           /\ bcast'[i] = bcast[i] /\ rows'[i] = rows[i] /\ got'[i] = got[i]
           /\ repeats'[i] = repeats[i] /\ texts'[i] = texts[i] /\ lateSends'[i] = lateSends[i]
           /\ steady'[i] \subseteq steady[i] /\ steady'[i] \subseteq reachable'
           /\ i \in orphans' <=> i \in orphans
  BY <1>6, <1>7 DEF BroadcastInv, JobSound, Reported
<1>24. new.job \in {j, "none"} /\ new.job # "none" /\ sender[s].job \in {j, "none"}
  BY <1>3, <1>4, <1>5, BroadcastsAssumption
<1> QED BY <1>5, <1>14, <1>22, <1>23, <1>24, SenderStep

\* A repeated attempt: one message more and one repetition more.
LEMMA AnswerLostStep ==
  ASSUME BroadcastInv, NEW s \in Senders, NEW u \in Audience, AnswerIsLost(s, u)
  PROVE BroadcastInv'
<1>1. BroadcastTypes
  BY DEF BroadcastInv
<1>2. sender[s].at = "sending" /\ u \in sender[s].todo
  BY DEF AnswerIsLost
<1>3. PICK r \in SenderStates : sender[s] = r
  BY <1>1 DEF BroadcastTypes
<1>4. PICK j \in Jobs : /\ r.job = j /\ JobSound(j) /\ bcast[j].status = "running"
                        /\ WorkSound(r, j)
                        /\ \A t \in Senders : sender[t].job = j => t = s
  BY <1>2, <1>3, SenderAlone
<1> DEFINE late == IF bcast[j].cancel THEN 1 ELSE 0
<1>5. /\ got' = [got EXCEPT ![j][u] = @ + 1]
      /\ repeats' = [repeats EXCEPT ![j][u] = @ + 1]
      /\ texts' = [texts EXCEPT ![j] = @ \cup {r.text}]
      /\ lateSends' = [lateSends EXCEPT ![j] = @ + late]
      /\ UNCHANGED <<bcast, rows, jobLock, sender, reachable, changes, steady, orphans>>
  BY <1>3, <1>4 DEF AnswerIsLost, Reaches
<1>6. troubles' \in 0 .. MaxFaults
  BY <1>1, TroubleIsBounded DEF AnswerIsLost
<1>7. /\ \A i \in Jobs : got'[i] = IF i = j THEN [got[j] EXCEPT ![u] = @ + 1] ELSE got[i]
      /\ \A v \in Audience : got'[j][v] = IF v = u THEN got[j][u] + 1 ELSE got[j][v]
      /\ \A i \in Jobs : repeats'[i] = IF i = j THEN [repeats[j] EXCEPT ![u] = @ + 1]
                                       ELSE repeats[i]
      /\ \A v \in Audience : repeats'[j][v] = IF v = u THEN repeats[j][u] + 1 ELSE repeats[j][v]
      /\ \A i \in Jobs : texts'[i] = IF i = j THEN texts[j] \cup {r.text} ELSE texts[i]
      /\ \A i \in Jobs : lateSends'[i] = IF i = j THEN lateSends[j] + late ELSE lateSends[i]
  BY <1>1, <1>5 DEF BroadcastTypes
<1>8. /\ \A v \in Audience : got[j][v] \in Nat /\ repeats[j][v] \in Nat
      /\ lateSends[j] \in Nat /\ late \in {0, 1} /\ Repeated(j) \in Nat
      /\ Batch \in Nat /\ r.text \in 0 .. 3 /\ r.todo \in SUBSET Audience
  BY <1>1, <1>3, RepeatsAreNumbers, BroadcastsAssumption DEF BroadcastTypes, SenderStates
<1>9. ChunkSound(r, j) /\ Cardinality(r.todo) \in Nat
  BY <1>2, <1>3, <1>4, <1>8, PartOfAudience DEF WorkSound
<1>10. bcast[j].cancel \in BOOLEAN /\ (~bcast[j].cancel => late = 0 /\ lateSends[j] = 0)
  BY <1>1, <1>4 DEF JobSound, Reported, BroadcastTypes, JobRows
<1> HIDE DEF late
<1>11. Repeated(j)' = Repeated(j) + 1
  <2>1. repeats[j] \in [Audience -> Int] /\ repeats'[j] \in [Audience -> Int]
    BY <1>1, <1>7, <1>8 DEF BroadcastTypes
  <2>2. PICK f1 \in [Audience -> Int] : f1 = repeats[j]
    BY <2>1
  <2>3. PICK f2 \in [Audience -> Int] : f2 = repeats'[j]
    BY <2>1
  <2>4. Total(f2, Audience) = Total(f1, Audience) + f2[u] - f1[u]
    <3>1. \A v \in Audience : v # u => f2[v] = f1[v]
      BY <2>2, <2>3, <1>7
    <3>2. IsFiniteSet(Audience)
      BY BroadcastsAssumption
    <3> QED BY <3>1, <3>2, TotalMoves
  <2> QED BY <2>2, <2>3, <2>4, <1>7, <1>8 DEF Repeated
<1>12. /\ lateSends'[j] = lateSends[j] + late
       /\ lateSends'[j] + Cardinality(r.todo) <= Batch + Repeated(j)'
       /\ lateSends'[j] <= Batch + Repeated(j)'
  BY <1>7, <1>8, <1>9, <1>11 DEF ChunkSound
<1>13. BroadcastTypes'
  <2>1. got' \in [Jobs -> [Audience -> Nat]] /\ repeats' \in [Jobs -> [Audience -> Nat]]
    BY <1>1, <1>5, <1>8 DEF BroadcastTypes
  <2>2. texts' \in [Jobs -> SUBSET (0 .. 3)]
    BY <1>1, <1>5, <1>8 DEF BroadcastTypes
  <2>3. lateSends' \in [Jobs -> Nat]
    BY <1>1, <1>5, <1>8 DEF BroadcastTypes
  <2> QED BY <1>1, <1>5, <1>6, <2>1, <2>2, <2>3 DEF BroadcastTypes
<1>14. Untouched(j)'
  <2>1. texts'[j] = texts[j] \cup {r.text}
    BY <1>7
  <2>2. texts'[j] # {}
    BY <2>1
  <2>3. bcast'[j].status = "running"
    BY <1>4, <1>5
  <2> QED BY <2>2, <2>3 DEF Untouched, Editable
<1>15. Tallied(j)' <=> Tallied(j)
  BY <1>5 DEF Tallied, SentTo, FailedAt
<1>16. texts'[j] \subseteq {bcast[j].text} /\ bcast[j].text \in Nat
  BY <1>4, <1>7, <1>9, <1>8 DEF WorkSound, ChunkSound
<1>17. Reported(j)'
  <2>1. \A v \in Audience : got'[j][v] <= 1 + repeats'[j][v]
    <3>1. \A v \in Audience : got[j][v] <= 1 + repeats[j][v]
      BY <1>4 DEF JobSound, Reported
    <3> QED BY <3>1, <1>7, <1>8
  <2>2. \E t \in Nat : texts'[j] \subseteq {t}
    BY <1>16
  <2>3. ~bcast[j].cancel => lateSends'[j] = 0
    BY <1>10, <1>12
  <2> QED BY <1>4, <1>5, <1>12, <1>15, <2>1, <2>2, <2>3 DEF JobSound, Reported
<1>18. Attended(j)'
  BY <1>4, <1>5 DEF JobSound, Attended
<1>19. ChunkSound(r, j)'
  BY <1>5, <1>9, <1>12 DEF ChunkSound
<1>20. WorkSound(r, j)'
  <2>1. \A v \in Audience : got[j][v] <= repeats[j][v] => got'[j][v] <= repeats'[j][v]
    BY <1>7, <1>8
  <2> QED BY <2>1, <1>4, <1>5, <1>16, <1>19 DEF WorkSound
<1>21. JobSound(j)'
  BY <1>3, <1>4, <1>5, <1>14, <1>17, <1>18, <1>20 DEF JobSound
<1>22. ASSUME NEW i \in Jobs, i # j
       PROVE JobSound(i)'
  <2>1. JobSound(i) /\ steady[i] \subseteq reachable
    BY DEF BroadcastInv, JobSound, Reported
  <2> QED BY <2>1, <1>5, <1>7, <1>22, JobKept
<1> QED BY <1>5, <1>13, <1>21, <1>22 DEF BroadcastInv

LEMMA DeliveryFailsStep ==
  ASSUME BroadcastInv, NEW s \in Senders, NEW u \in Audience, DeliveryFails(s, u)
  PROVE BroadcastInv'
<1>1. BroadcastTypes
  BY DEF BroadcastInv
<1>2. sender[s].at = "sending" /\ u \in sender[s].todo
  BY DEF DeliveryFails
<1>3. PICK r \in SenderStates : sender[s] = r
  BY <1>1 DEF BroadcastTypes
<1>4. PICK j \in Jobs : /\ r.job = j /\ JobSound(j) /\ bcast[j].status = "running"
                        /\ WorkSound(r, j)
                        /\ \A t \in Senders : sender[t].job = j => t = s
  BY <1>2, <1>3, SenderAlone
<1>5. PICK outcome \in {"bot_blocked", "failed"} : RecordResult(s, u, outcome)
  BY DEF DeliveryFails
<1>6. PICK new \in SenderStates :
        /\ sender' = [sender EXCEPT ![s] = new]
        /\ new.at = r.at /\ new.job = j /\ new.chunk = r.chunk /\ new.text = r.text
        /\ new.todo = r.todo \ {u}
        /\ \A v \in Audience : new.results[v] = IF v = u THEN outcome ELSE r.results[v]
  <2>1. outcome \in Outcomes \ {"none"}
    BY DEF Outcomes
  <2> QED BY <2>1, <1>1, <1>2, <1>3, <1>4, <1>5, ResultIsRecorded
<1>7. /\ reachable' \in {reachable, reachable \ {u}}
      /\ steady' \in [Jobs -> SUBSET Audience]
      /\ \A i \in Jobs : steady'[i] \subseteq steady[i] /\ steady'[i] \subseteq reachable'
  <2>1. \A i \in Jobs : steady[i] \subseteq reachable /\ steady[i] \subseteq Audience
    BY <1>1 DEF BroadcastInv, JobSound, Reported, BroadcastTypes
  <2>2. CASE reachable' = reachable \ {u} /\ steady' = [i \in Jobs |-> steady[i] \ {u}]
    BY <2>1, <2>2
  <2>3. CASE UNCHANGED <<reachable, steady>>
    BY <2>1, <2>3, <1>1 DEF BroadcastTypes
  <2> QED BY <2>2, <2>3 DEF DeliveryFails
<1>8. UNCHANGED <<bcast, rows, jobLock, changes, got, repeats, texts, lateSends, orphans>>
  BY DEF DeliveryFails
<1>9. \A t \in Senders : sender'[t] = IF t = s THEN new ELSE sender[t]
  BY <1>1, <1>6 DEF BroadcastTypes
<1>10. BroadcastTypes'
  <2>1. troubles' \in 0 .. MaxFaults
    BY <1>1, TroubleIsBounded DEF DeliveryFails
  <2>2. sender' \in [Senders -> SenderStates]
    BY <1>1, <1>6 DEF BroadcastTypes
  <2> QED BY <1>1, <1>7, <1>8, <2>1, <2>2 DEF BroadcastTypes
<1>11. Untouched(j)'
  BY <1>4, <1>8 DEF JobSound, Untouched
<1>12. Tallied(j)' <=> Tallied(j)
  BY <1>8 DEF Tallied, SentTo, FailedAt
<1>13. Repeated(j)' = Repeated(j)
  BY <1>8 DEF Repeated
<1>14. Reported(j)'
  BY <1>4, <1>7, <1>8, <1>12, <1>13 DEF JobSound, Reported
<1>15. Attended(j)'
  BY <1>3, <1>4, <1>6, <1>8, <1>9 DEF JobSound, Attended
<1>16. ChunkSound(r, j) /\ u \in r.todo
  BY <1>2, <1>3, <1>4 DEF WorkSound
<1>17. ChunkSound(new, j)'
  <2>1. ASSUME NEW v \in new.chunk
        PROVE v > bcast[j].cursor /\ (v \in new.todo \/ new.results[v] # "none")
    <3>1. v \in Audience /\ v \in r.chunk
      BY <2>1, <1>6 DEF SenderStates
    <3> QED BY <3>1, <1>6, <1>16 DEF ChunkSound
  <2>2. new.chunk # {} /\ new.todo \subseteq new.chunk /\ new.text = bcast[j].text
    BY <1>6, <1>16 DEF ChunkSound
  <2>3. \A v \in steady'[j], c \in new.chunk :
          bcast[j].cursor < v /\ v <= c => v \in new.chunk
    BY <1>6, <1>7, <1>16 DEF ChunkSound
  <2>4. lateSends[j] + Cardinality(new.todo) <= Batch + Repeated(j)
    <3>1. /\ Cardinality(r.todo \ {u}) \in Nat
          /\ Cardinality(r.todo) = Cardinality(r.todo \ {u}) + 1
      BY <1>3, <1>16, OneLessToDo DEF SenderStates
    <3>2. lateSends[j] \in Nat /\ Batch \in Nat /\ Repeated(j) \in Nat
      BY <1>1, RepeatsAreNumbers, BroadcastsAssumption DEF BroadcastTypes
    <3> QED BY <3>1, <3>2, <1>6, <1>16 DEF ChunkSound
  <2> QED BY <2>1, <2>2, <2>3, <2>4, <1>8, <1>13 DEF ChunkSound
<1>18. WorkSound(new, j)'
  <2>1. ASSUME NEW v \in Audience, v > bcast[j].cursor, v \in new.todo \/ v \notin new.chunk
        PROVE got[j][v] <= repeats[j][v]
    BY <2>1, <1>4, <1>6 DEF WorkSound
  <2>2. new.at = "sending"
    BY <1>2, <1>3, <1>6
  <2>3. \A v \in steady'[j] : v \in steady[j]
    BY <1>7
  <2> QED BY <2>1, <2>2, <2>3, <1>4, <1>8, <1>17 DEF WorkSound
<1>19. JobSound(j)'
  <2>1. \A t \in Senders : sender'[t].job = j => sender'[t] = new
    BY <1>4, <1>3, <1>9
  <2> QED BY <2>1, <1>11, <1>14, <1>15, <1>18 DEF JobSound
<1>20. new.job \in {j, "none"} /\ new.job # "none" /\ sender[s].job \in {j, "none"}
  BY <1>3, <1>4, <1>6, BroadcastsAssumption
<1> QED BY <1>6, <1>7, <1>8, <1>10, <1>19, <1>20, SenderStep

\* The users of a set whose mark is of a kind.
WithMark(mark, users, kind) == {u \in users : mark[u] \in kind}

\* The results of a chunk become delivery rows and counters in one transaction.
LEMMA CountsGrow ==
  ASSUME NEW old \in [Audience -> Outcomes], NEW new \in [Audience -> Outcomes],
         NEW fresh \in SUBSET Audience, NEW kind \in SUBSET (Outcomes \ {"none"}),
         \A u \in Audience : u \notin fresh => new[u] = old[u],
         \A u \in fresh : old[u] = "none"
  PROVE Cardinality(WithMark(new, Audience, kind))
          = Cardinality(WithMark(old, Audience, kind)) + Cardinality(WithMark(new, fresh, kind))
<1> DEFINE was == {u \in Audience : old[u] \in kind}
           more == {u \in fresh : new[u] \in kind}
           is == {u \in Audience : new[u] \in kind}
<1>1. is = was \cup more /\ was \cap more = {}
  OBVIOUS
<1>2. was \in SUBSET Audience /\ more \in SUBSET Audience
  OBVIOUS
<1> HIDE DEF was, more, is
<1>3. /\ IsFiniteSet(was) /\ IsFiniteSet(more)
      /\ Cardinality(was) \in Nat /\ Cardinality(more) \in Nat
  BY <1>2, PartOfAudience
<1>4. Cardinality(is) = Cardinality(was) + Cardinality(more) - Cardinality(was \cap more)
  BY <1>1, <1>3, FS_Union
<1>5. Cardinality(was \cap more) = 0
  BY <1>1, FS_EmptySet
<1>6. Cardinality(is) = Cardinality(was) + Cardinality(more)
  BY <1>3, <1>4, <1>5
<1> QED BY <1>6 DEF was, more, is, WithMark

LEMMA PersistStep ==
  ASSUME BroadcastInv, NEW s \in Senders, PersistChunk(s)
  PROVE BroadcastInv'
<1>1. BroadcastTypes
  BY DEF BroadcastInv
<1>2. sender[s].at = "sending" /\ sender[s].todo = {}
  BY DEF PersistChunk
<1>3. PICK r \in SenderStates : sender[s] = r
  BY <1>1 DEF BroadcastTypes
<1>4. PICK j \in Jobs : /\ r.job = j /\ JobSound(j) /\ bcast[j].status = "running"
                        /\ WorkSound(r, j) /\ j \notin orphans
                        /\ \A t \in Senders : sender[t].job = j => t = s
  BY <1>2, <1>3, SenderAlone
<1>5. PICK old \in JobRows : bcast[j] = old
  BY <1>1 DEF BroadcastTypes
<1>6. /\ r.chunk \in SUBSET Audience /\ r.results \in [Audience -> Outcomes]
      /\ old.cursor \in Nat /\ old.sent \in Nat /\ old.failed \in Nat /\ old.cancel \in BOOLEAN
  BY <1>5 DEF SenderStates, JobRows
<1>7. /\ r.chunk # {}
      /\ \A u \in r.chunk : u > old.cursor /\ r.results[u] # "none"
      /\ \A u \in steady[j], c \in r.chunk : old.cursor < u /\ u <= c => u \in r.chunk
  BY <1>2, <1>3, <1>4, <1>5 DEF WorkSound, ChunkSound
<1> DEFINE sentNow == {u \in r.chunk : r.results[u] = "sent"}
           status == IF old.cancel THEN "cancelled" ELSE "running"
           row == [old EXCEPT !.cursor = Max(r.chunk), !.sent = @ + Cardinality(sentNow),
                              !.failed = @ + Cardinality(r.chunk \ sentNow),
                              !.status = status]
           deliveries == [u \in Audience |-> IF u \in r.chunk THEN r.results[u] ELSE rows[j][u]]
           new == IF old.cancel THEN Waiting ELSE [Waiting EXCEPT !.at = "loading", !.job = j]
<1>8. /\ Max(r.chunk) \in Nat /\ Max(r.chunk) \in r.chunk /\ \A u \in r.chunk : u <= Max(r.chunk)
  BY <1>6, <1>7, MaxIsGreatest, PartOfAudience
<1>9. Cardinality(sentNow) \in Nat /\ Cardinality(r.chunk \ sentNow) \in Nat
  <2>1. sentNow \in SUBSET Audience /\ r.chunk \ sentNow \in SUBSET Audience
    BY <1>6
  <2> HIDE DEF sentNow
  <2> QED BY <2>1, PartOfAudience
<1>10. /\ rows' = [rows EXCEPT ![j] = deliveries]
       /\ sender' = [sender EXCEPT ![s] = new]
       /\ bcast' = [bcast EXCEPT ![j] = row]
       /\ UNCHANGED <<jobLock, reachable, troubles, changes, broadcastHistory>>
  <2>1. Sent(s) = sentNow
    BY <1>3 DEF Sent
  <2>2. Upserted(j, s) = deliveries
    BY <1>3 DEF Upserted
  <2>3. sender' = [sender EXCEPT ![s] = new]
    BY <1>3, <1>4, <1>5 DEF PersistChunk, CancelSeen
  <2>4. rows' = [rows EXCEPT ![j] = deliveries]
    BY <2>2, <1>3, <1>4 DEF PersistChunk
  <2>5. bcast' = [bcast EXCEPT ![j].cursor = Cursor(r.chunk),
                            ![j].sent = @ + Cardinality(sentNow),
                            ![j].failed = @ + Cardinality(r.chunk \ sentNow),
                            ![j].status = IF old.cancel THEN "cancelled" ELSE @]
    BY <2>1, <1>3, <1>4, <1>5 DEF PersistChunk, CancelSeen
  <2>6. bcast' = [bcast EXCEPT ![j] = row]
    <3>1. old.status = "running"
      BY <1>4, <1>5
    <3> HIDE DEF sentNow, deliveries, new
    <3> QED BY <2>5, <3>1, <1>1, <1>5 DEF Cursor, BroadcastTypes, JobRows
  <2> QED BY <2>3, <2>4, <2>6 DEF PersistChunk
<1> HIDE DEF sentNow, deliveries, new
<1>11. /\ row \in JobRows /\ row.cursor = Max(r.chunk) /\ row.status = status
       /\ row.sent = old.sent + Cardinality(sentNow)
       /\ row.failed = old.failed + Cardinality(r.chunk \ sentNow)
       /\ row.cancel = old.cancel /\ row.text = old.text
  <2>1. status \in Editable \cup Terminal \cup {"none", "running"}
    BY DEF Terminal
  <2>2. /\ old.sent + Cardinality(sentNow) \in Nat
        /\ old.failed + Cardinality(r.chunk \ sentNow) \in Nat
    BY <1>6, <1>9
  <2> HIDE DEF status
  <2> QED BY <2>1, <2>2, <1>8 DEF JobRows
<1> HIDE DEF row
<1>12. deliveries \in [Audience -> Outcomes]
       /\ \A u \in Audience : deliveries[u] = IF u \in r.chunk THEN r.results[u] ELSE rows[j][u]
  BY <1>1, <1>6 DEF deliveries, BroadcastTypes
<1>13. /\ new \in SenderStates
       /\ old.cancel => new = Waiting /\ new.job = "none"
       /\ ~old.cancel => new.at = "loading" /\ new.job = j
  <2>1. \A x \in SenderStates : /\ [x EXCEPT !.at = "loading", !.job = j] \in SenderStates
                                /\ [x EXCEPT !.at = "loading", !.job = j].at = "loading"
                                /\ [x EXCEPT !.at = "loading", !.job = j].job = j
    BY DEF SenderStates
  <2>2. Waiting.job = "none"
    BY DEF Waiting
  <2> QED BY <2>1, <2>2, WaitingIsState DEF new
<1>14. /\ \A i \in Jobs : bcast'[i] = IF i = j THEN row ELSE bcast[i]
       /\ \A i \in Jobs : rows'[i] = IF i = j THEN deliveries ELSE rows[i]
       /\ \A t \in Senders : sender'[t] = IF t = s THEN new ELSE sender[t]
  BY <1>1, <1>10 DEF BroadcastTypes
<1>15. BroadcastTypes'
  <2>1. bcast' \in [Jobs -> JobRows]
    BY <1>1, <1>10, <1>11 DEF BroadcastTypes
  <2>2. rows' \in [Jobs -> [Audience -> Outcomes]]
    BY <1>1, <1>10, <1>12 DEF BroadcastTypes
  <2>3. sender' \in [Senders -> SenderStates]
    BY <1>1, <1>10, <1>13 DEF BroadcastTypes
  <2> QED BY <1>1, <1>10, <2>1, <2>2, <2>3 DEF BroadcastTypes, broadcastHistory
<1>16. row.status \in {"running", "cancelled"}
       /\ (old.cancel <=> row.status = "cancelled")
  BY <1>6, <1>11
<1> HIDE DEF status
<1>17. Untouched(j)'
  BY <1>4, <1>10, <1>14, <1>16 DEF JobSound, Untouched, Editable, broadcastHistory
<1>18. \A u \in Audience : rows[j][u] # "none" => u <= old.cursor
  BY <1>4, <1>5 DEF WorkSound
<1>19. \A u \in Audience : u \in Nat
  BY BroadcastsAssumption
<1>20. \A u \in r.chunk : rows[j][u] = "none"
  BY <1>6, <1>7, <1>18, <1>19
<1>21. Tallied(j)'
  <2>1. rows[j] \in [Audience -> Outcomes]
    BY <1>1 DEF BroadcastTypes
  <2>2. old.sent = Cardinality(SentTo(j)) /\ old.failed = Cardinality(FailedAt(j))
    BY <1>4, <1>5 DEF JobSound, Reported, Tallied
  <2>3. ASSUME NEW kind \in SUBSET (Outcomes \ {"none"})
        PROVE Cardinality({u \in Audience : deliveries[u] \in kind})
                = Cardinality({u \in Audience : rows[j][u] \in kind})
                  + Cardinality({u \in r.chunk : deliveries[u] \in kind})
    <3>1. /\ \A u \in Audience : u \notin r.chunk => deliveries[u] = rows[j][u]
          /\ \A u \in r.chunk : rows[j][u] = "none"
          /\ deliveries \in [Audience -> Outcomes] /\ r.chunk \in SUBSET Audience
      BY <1>6, <1>12, <1>20
    <3>2. PICK before \in [Audience -> Outcomes] : before = rows[j]
      BY <2>1
    <3>3. PICK fresh \in SUBSET Audience : fresh = r.chunk
      BY <3>1
    <3>4. PICK after \in [Audience -> Outcomes] : after = deliveries
      BY <3>1
    <3>5. PICK k \in SUBSET (Outcomes \ {"none"}) : k = kind
      OBVIOUS
    <3>6. /\ \A u \in Audience : u \notin fresh => after[u] = before[u]
          /\ \A u \in fresh : before[u] = "none"
      BY <3>1, <3>2, <3>3, <3>4
    <3>7. Cardinality(WithMark(after, Audience, k))
            = Cardinality(WithMark(before, Audience, k))
              + Cardinality(WithMark(after, fresh, k))
      BY <3>6, CountsGrow
    <3> QED BY <3>2, <3>3, <3>4, <3>5, <3>7 DEF WithMark
  <2>4. {"sent"} \in SUBSET (Outcomes \ {"none"})
        /\ {"failed", "bot_blocked"} \in SUBSET (Outcomes \ {"none"})
    BY DEF Outcomes
  <2>5. \A u \in r.chunk : deliveries[u] = r.results[u] /\ r.results[u] \in Outcomes \ {"none"}
    BY <1>6, <1>7, <1>12
  <2>6. {u \in r.chunk : deliveries[u] \in {"sent"}} = sentNow
        /\ {u \in r.chunk : deliveries[u] \in {"failed", "bot_blocked"}} = r.chunk \ sentNow
    BY <2>5 DEF sentNow, Outcomes
  <2>7. /\ SentTo(j) = {u \in Audience : rows[j][u] \in {"sent"}}
        /\ SentTo(j)' = {u \in Audience : deliveries[u] \in {"sent"}}
        /\ FailedAt(j) = {u \in Audience : rows[j][u] \in {"failed", "bot_blocked"}}
        /\ FailedAt(j)' = {u \in Audience : deliveries[u] \in {"failed", "bot_blocked"}}
    BY <1>14 DEF SentTo, FailedAt
  <2>8. Cardinality(SentTo(j)') = Cardinality(SentTo(j)) + Cardinality(sentNow)
    BY <2>3, <2>4, <2>6, <2>7
  <2>9. Cardinality(FailedAt(j)') = Cardinality(FailedAt(j)) + Cardinality(r.chunk \ sentNow)
    BY <2>3, <2>4, <2>6, <2>7
  <2> QED BY <2>2, <2>8, <2>9, <1>11, <1>14 DEF Tallied
<1>22. Reported(j)'
  BY <1>4, <1>5, <1>10, <1>11, <1>14, <1>16, <1>21
     DEF JobSound, Reported, Repeated, broadcastHistory
<1>23. Attended(j)'
  <2>1. \A t \in Senders : sender'[t].job = j => t = s
    BY <1>4, <1>14
  <2>2. sender'[s] = new
    BY <1>14
  <2>3. row.status = "running" => sender'[s].job = j
    BY <2>2, <1>13, <1>16
  <2> QED BY <2>1, <2>3, <1>4, <1>10, <1>14 DEF Attended, broadcastHistory
<1>24. ASSUME ~old.cancel
       PROVE WorkSound(new, j)'
  <2>1. new.at = "loading" /\ row.status = "running"
    BY <1>13, <1>16, <1>24
  <2>2. ASSUME NEW u \in Audience, deliveries[u] # "none"
        PROVE u <= Max(r.chunk)
    BY <2>2, <1>6, <1>7, <1>8, <1>12, <1>18, <1>19
  <2>3. ASSUME NEW u \in steady[j], u <= Max(r.chunk)
        PROVE deliveries[u] # "none"
    <3>1. u \in Audience /\ u \in Nat
      BY <1>1, <1>19 DEF BroadcastTypes
    <3>2. CASE u <= old.cursor
      <4>1. rows[j][u] # "none"
        BY <3>1, <3>2, <1>4, <1>5 DEF WorkSound
      <4>2. u \notin r.chunk
        BY <4>1, <1>20
      <4> QED BY <3>1, <4>1, <4>2, <1>12
    <3>3. CASE ~(u <= old.cursor)
      <4>1. u \in r.chunk
        BY <2>3, <3>1, <3>3, <1>6, <1>7, <1>8
      <4> QED BY <3>1, <4>1, <1>7, <1>12
    <3> QED BY <3>2, <3>3
  <2>4. ASSUME NEW u \in Audience, u > Max(r.chunk)
        PROVE got[j][u] <= repeats[j][u]
    <3>1. u \notin r.chunk /\ u > old.cursor
      BY <2>4, <1>6, <1>7, <1>8, <1>19
    <3> QED BY <3>1, <1>4, <1>5 DEF WorkSound
  <2>5. texts[j] \subseteq {old.text}
    BY <1>4, <1>5 DEF WorkSound
  <2> QED BY <2>1, <2>2, <2>3, <2>4, <2>5, <1>10, <1>11, <1>14 DEF WorkSound, broadcastHistory
<1>25. JobSound(j)'
  <2>1. ASSUME NEW t \in Senders, sender'[t].job = j
        PROVE sender'[t] = new /\ ~old.cancel
    <3>1. t = s /\ sender'[s] = new
      BY <2>1, <1>4, <1>14
    <3> QED BY <2>1, <3>1, <1>13, BroadcastsAssumption
  <2> QED BY <2>1, <1>17, <1>22, <1>23, <1>24 DEF JobSound
<1>26. \A i \in Jobs \ {j} :
           /\ bcast'[i] = bcast[i] /\ rows'[i] = rows[i] /\ got'[i] = got[i]
           /\ repeats'[i] = repeats[i] /\ texts'[i] = texts[i] /\ lateSends'[i] = lateSends[i]
           /\ steady'[i] \subseteq steady[i] /\ steady'[i] \subseteq reachable'
           /\ i \in orphans' <=> i \in orphans
  BY <1>10, <1>14 DEF BroadcastInv, JobSound, Reported, broadcastHistory
<1>27. /\ new.job \in {j, "none"} /\ (new.job = "none" => new = Waiting)
       /\ sender[s].job \in {j, "none"}
  BY <1>3, <1>4, <1>6, <1>13, BroadcastsAssumption
<1> QED BY <1>10, <1>15, <1>25, <1>26, <1>27, SenderStep

-----------------------------------------------------------------------------

LEMMA BroadcastSteps == BroadcastInv /\ [BroadcastNext]_broadcastVars => BroadcastInv'
<1> SUFFICES ASSUME BroadcastInv, [BroadcastNext]_broadcastVars PROVE BroadcastInv'
  OBVIOUS
<1>1. ASSUME NEW j \in Jobs,
             \/ \E status \in Editable : CreateJob(j, status) \/ UpdateJob(j, status)
             \/ DeleteJob(j)
             \/ RequestCancel(j)
             \/ RunAtComes(j)
      PROVE BroadcastInv'
  BY <1>1, CreateStep, UpdateStep, DeleteStep, CancelStep
<1>2. ASSUME NEW u \in Audience, AudienceChanges(u)
      PROVE BroadcastInv'
  BY <1>2, AudienceStep
<1>3. ASSUME NEW s \in Senders, Work(s)
      PROVE BroadcastInv'
  BY <1>3, ClaimStep, LoadChunkStep, CompleteStep, FindCancelStep, PersistStep, DeliverStep DEF Work
<1>4. ASSUME NEW s \in Senders, NEW u \in Audience, DeliveryFails(s, u) \/ AnswerIsLost(s, u)
      PROVE BroadcastInv'
  BY <1>4, DeliveryFailsStep, AnswerLostStep
<1>5. ASSUME NEW s \in Senders, SenderFails(s) \/ SenderDies(s)
      PROVE BroadcastInv'
  BY <1>5, SenderFailsStep, SenderDiesStep
<1>6. CASE UNCHANGED broadcastVars
  <2> USE <1>6 DEF broadcastVars, broadcastHistory
  <2>1. BroadcastTypes'
    BY DEF BroadcastInv, BroadcastTypes
  <2>2. ASSUME NEW i \in Jobs
        PROVE JobSound(i)'
    <3>1. JobSound(i) /\ steady[i] \subseteq reachable
      BY DEF BroadcastInv, JobSound, Reported
    <3> QED BY <3>1, JobKept
  <2> QED BY <2>1, <2>2 DEF BroadcastInv
<1> QED BY <1>1, <1>2, <1>3, <1>4, <1>5, <1>6 DEF BroadcastNext

LEMMA BroadcastHolds == BroadcastSpec => []BroadcastInv
  BY BroadcastStarts, BroadcastSteps, PTL DEF BroadcastSpec

LEMMA BroadcastInvTypes == BroadcastInv => BroadcastTypeOK
<1> SUFFICES ASSUME BroadcastInv PROVE BroadcastTypeOK
  OBVIOUS
<1>1. ASSUME NEW j \in Jobs, bcast[j].status = "running", j \notin orphans
      PROVE Cardinality({s \in Senders : sender[s].job = j}) = 1
  <2>1. PICK s \in Senders : sender[s].job = j
    BY <1>1 DEF BroadcastInv, JobSound, Attended
  <2>2. {t \in Senders : sender[t].job = j} = {s}
    BY <2>1 DEF BroadcastInv, JobSound, Attended
  <2> QED BY <2>2, FS_Singleton
<1>2. ASSUME NEW s \in Senders, sender[s] # Waiting
      PROVE bcast[sender[s].job].status = "running"
  <2>1. sender[s].job \in Jobs
    BY <1>2 DEF BroadcastInv, BroadcastTypes, SenderStates
  <2> QED BY <2>1 DEF BroadcastInv, JobSound, WorkSound
<1>3. \A j \in Jobs :
        /\ bcast[j].status \in Editable \cup Terminal \cup {"none", "running"}
        /\ rows[j] \in [Audience -> {"none", "sent", "failed", "bot_blocked"}]
        /\ jobLock[j] \in Senders \cup {NoSender}
  BY DEF BroadcastInv, BroadcastTypes, JobRows, Outcomes
<1> QED BY <1>1, <1>2, <1>3 DEF BroadcastInv, BroadcastTypes, BroadcastTypeOK

\* Rows, locks and senders keep their types, and a job is running just while one
\* sender is at it, unless that sender has died.
THEOREM BroadcastTypeCorrect == BroadcastSpec => []BroadcastTypeOK
BY BroadcastInvTypes, BroadcastHolds, PTL

\* What a broadcast reports is what its recipients got, through every crash, lost
\* answer, edit and cancel, for any number of senders and users
\* (broadcast_polling.py).
THEOREM BroadcastsAreAccounted == BroadcastSpec => []BroadcastIsAccounted
<1>1. BroadcastInv => BroadcastIsAccounted
  <2> SUFFICES ASSUME BroadcastInv PROVE BroadcastIsAccounted
    OBVIOUS
  <2>1. OncePerUser
    BY DEF BroadcastInv, JobSound, Reported, OncePerUser
  <2>2. CountersAgree
    BY DEF BroadcastInv, JobSound, Reported, Tallied, SentTo, FailedAt, CountersAgree
  <2>3. CompletedTriedAll
    BY DEF BroadcastInv, JobSound, Reported, CompletedTriedAll
  <2>4. ASSUME NEW j \in Jobs
        PROVE Cardinality(texts[j]) <= 1
    <3>1. PICK t \in Nat : texts[j] \subseteq {t}
      BY DEF BroadcastInv, JobSound, Reported
    <3>2. texts[j] = {} \/ texts[j] = {t}
      BY <3>1
    <3>3. Cardinality(texts[j]) \in {0, 1}
      BY <3>2, FS_EmptySet, FS_Singleton
    <3> QED BY <3>3
  <2>5. ASSUME NEW j \in Jobs
        PROVE /\ lateSends[j] <= Batch + MapThenSumSet(LAMBDA u : repeats[j][u], Audience)
              /\ bcast[j].cancel => bcast[j].status # "completed"
    <3>1. lateSends[j] <= Batch + Repeated(j)
      BY DEF BroadcastInv, JobSound, Reported
    <3>2. MapThenSumSet(LAMBDA u : repeats[j][u], Audience) = Repeated(j)
      BY DEF MapThenSumSet, MapThenFoldSet, Total, IsFold, Chosen, Repeated
    <3> QED BY <3>1, <3>2 DEF BroadcastInv, JobSound, Reported
  <2> QED BY <2>1, <2>2, <2>3, <2>4, <2>5 DEF BroadcastIsAccounted, OneText, CancelStops
<1> QED BY <1>1, BroadcastHolds, PTL
=============================================================================
