----------------------------- MODULE RateLimit -----------------------------
(***************************************************************************)
(* The anti-spam check of a message or a press of a button: the settings,  *)
(* read from the database and kept for a while, and the two stores of      *)
(* CacheService that count events, Redis and, when a call to it fails, the *)
(* memory of the process.  Time is whole seconds.                          *)
(***************************************************************************)
EXTENDS Integers, Sequences, FiniteSets

CONSTANTS Origins,        \* a user and a kind of event: the key of a bucket
          Limit, Window,  \* as many events in as many seconds
          BlockTime,      \* seconds a source over the limit is refused for
          MinGap,         \* seconds between two events
          Buckets,        \* _BUCKETS_MAX_ENTRIES
          BucketLife,     \* _BUCKETS_TTL_SECONDS
          SettingsLife,   \* seconds the settings are kept for
          MaxEvents, LastSecond, MaxUpsets  \* bounds

ASSUME LimitAssumption == {Limit, Window, BlockTime, Buckets, SettingsLife} \subseteq Nat \ {0}
ASSUME MinGapAssumption == MinGap \in Nat
ASSUME LastSecondAssumption == LastSecond \in Nat \ {0} /\ MaxUpsets \in Nat

VARIABLES second,
          shared,      \* Redis: [Origins -> [stamps, until]], a stamp being an event's number
          own,         \* the memory: the same for the sources it has, and the last event, "touched"
          up,          \* Redis answers
          enabled,     \* the setting in the database
          kept,        \* the settings in force: [enabled, until]
          events,      \* what happened and when, the latest last
          upsets       \* outages, lost answers, failed reads and edits so far

rateVars == <<second, shared, own, up, enabled, kept, events, upsets>>

Fresh == [stamps |-> {}, until |-> 0]

RateInit ==
  /\ second = 1
  /\ shared = [s \in Origins |-> Fresh]
  /\ own = [s \in {} |-> Fresh]
  /\ up = TRUE
  /\ enabled = TRUE
  /\ kept = [enabled |-> TRUE, until |-> 0]
  /\ events = <<>>
  /\ upsets = 0

Upset == upsets < MaxUpsets /\ upsets' = upsets + 1

-----------------------------------------------------------------------------
(* The decision on an event, of either store: what is left of the bucket   *)
(* and whether the event passes.                                           *)

Number == Len(events) + 1
Age(i) == second - events[i].at

\* A mutant: the event at the limit is let through.
FullAfterOneMore(stamps) == Cardinality(stamps) > Limit
Full(stamps) == Cardinality(stamps) >= Limit

Blocked(bucket) == bucket.until > second

\* A mutant: events are counted for ever.
InWindowForEver(stamps) == stamps
InWindow(stamps) == {i \in stamps : Age(i) < Window}
TooSoon(stamps) == \E i \in stamps : Age(i) < MinGap

Passes(bucket) ==
  ~Blocked(bucket) /\ ~TooSoon(InWindow(bucket.stamps)) /\ ~Full(InWindow(bucket.stamps))
Blocks(bucket) ==
  ~Blocked(bucket) /\ ~TooSoon(InWindow(bucket.stamps)) /\ Full(InWindow(bucket.stamps))
Counted(bucket) == InWindow(bucket.stamps) \cup (IF Passes(bucket) THEN {Number} ELSE {})

\* LUA_RATE_LIMIT: a block leaves the counted events where they are.
AfterRedis(bucket) ==
  IF Blocked(bucket) THEN bucket
  ELSE [stamps |-> Counted(bucket),
        until |-> IF Blocks(bucket) THEN second + BlockTime ELSE bucket.until]

\* _check_rate_limit_memory: a block clears them.
AfterMemory(bucket) ==
  IF Blocked(bucket) THEN bucket
  ELSE [stamps |-> IF Blocks(bucket) THEN {} ELSE Counted(bucket),
        until |-> IF Blocks(bucket) THEN second + BlockTime ELSE 0]

\* _evict_stale_buckets_locked: from the longest unused, those that are neither
\* blocked nor young, up to the first that is; then any beyond the capacity.
Disposable(s) == Age(own[s].touched) >= BucketLife /\ own[s].until <= second
Aged ==
  {s \in DOMAIN own : \E x \in DOMAIN own : own[x].touched <= own[s].touched /\ ~Disposable(x)}
Trimmed ==
  {s \in Aged : Cardinality({x \in Aged : own[x].touched > own[s].touched}) < Buckets}

\* Buckets are dropped before that of the event is found or made.
MemoryBucket(s) ==
  IF s \in Trimmed THEN [stamps |-> own[s].stamps, until |-> own[s].until] ELSE Fresh
CountInMemory(s) ==
  LET bucket == AfterMemory(MemoryBucket(s))
  IN own' = [x \in Trimmed \cup {s} |->
               IF x = s THEN [stamps |-> bucket.stamps, until |-> bucket.until, touched |-> Number]
               ELSE own[x]]

-----------------------------------------------------------------------------
(* The check.                                                              *)

\* get_runtime_settings: kept, read, or those of the environment when the read
\* fails, which are then kept as long.
SettingsAt(current) ==
  IF second < kept.until THEN kept ELSE [enabled |-> current, until |-> second + SettingsLife]

Note(s, by, ok) == events' = Append(events, [source |-> s, at |-> second, by |-> by, ok |-> ok])
Arrives(s) == Len(events) < MaxEvents

\* AntiSpamService.check with anti-spam off.
PassUnchecked(s) ==
  /\ Arrives(s)
  /\ ~SettingsAt(enabled).enabled
  /\ kept' = SettingsAt(enabled)
  /\ Note(s, "nobody", TRUE)
  /\ UNCHANGED <<second, shared, own, up, enabled, upsets>>

CheckInRedis(s) ==
  /\ Arrives(s)
  /\ SettingsAt(enabled).enabled
  /\ up
  /\ kept' = SettingsAt(enabled)
  /\ shared' = [shared EXCEPT ![s] = AfterRedis(@)]
  /\ Note(s, "redis", Passes(shared[s]))
  /\ UNCHANGED <<second, own, up, enabled, upsets>>

CheckInMemory(s) ==
  /\ Arrives(s)
  /\ SettingsAt(enabled).enabled
  /\ ~up
  /\ kept' = SettingsAt(enabled)
  /\ CountInMemory(s)
  /\ Note(s, "memory", Passes(MemoryBucket(s)))
  /\ UNCHANGED <<second, shared, up, enabled, upsets>>

\* Redis ran the script, and its answer was lost: both stores count the event.
CheckInBoth(s) ==
  /\ Arrives(s)
  /\ SettingsAt(enabled).enabled
  /\ up /\ Upset
  /\ kept' = SettingsAt(enabled)
  /\ shared' = [shared EXCEPT ![s] = AfterRedis(@)]
  /\ CountInMemory(s)
  /\ Note(s, "both", Passes(MemoryBucket(s)))
  /\ UNCHANGED <<second, up, enabled>>

\* The settings could not be read: those of the environment have it on.
ReadFails ==
  /\ ~enabled /\ second >= kept.until
  /\ Upset
  /\ kept' = SettingsAt(TRUE)
  /\ UNCHANGED <<second, shared, own, up, enabled, events>>

EditSettings == Upset /\ enabled' = ~enabled /\ UNCHANGED <<second, shared, own, up, kept, events>>
RedisGoes == up /\ Upset /\ up' = FALSE /\ UNCHANGED <<second, shared, own, enabled, kept, events>>
RedisReturns == ~up /\ up' = TRUE /\ UNCHANGED <<second, shared, own, enabled, kept, events, upsets>>
Tick ==
  /\ second < LastSecond /\ second' = second + 1
  /\ UNCHANGED <<shared, own, up, enabled, kept, events, upsets>>

RateNext ==
  \/ \E s \in Origins : PassUnchecked(s) \/ CheckInRedis(s) \/ CheckInMemory(s) \/ CheckInBoth(s)
  \/ ReadFails \/ EditSettings \/ RedisGoes \/ RedisReturns \/ Tick

RateSpec == RateInit /\ [][RateNext]_rateVars

-----------------------------------------------------------------------------
Moments == 0..(LastSecond + BlockTime)
Stamps == SUBSET (1..Len(events))

\* The stores hold well-formed buckets, and the memory at most one more than it may
\* keep.
RateTypeOK ==
  /\ second \in 1..LastSecond
  /\ shared \in [Origins -> [stamps : Stamps, until : Moments]]
  /\ DOMAIN own \subseteq Origins /\ Cardinality(DOMAIN own) <= Buckets + 1
  /\ \A s \in DOMAIN own : own[s] \in [stamps : Stamps, until : Moments, touched : 1..Len(events)]
  /\ {up, enabled, kept.enabled} \subseteq BOOLEAN
  /\ upsets \in 0..MaxUpsets

\* The events of a source that a store counted: those it let through, and for
\* Redis those whose answer was lost.
CountedBy(store) ==
  {i \in 1..Len(events) :
     IF store = "redis" THEN events[i].by = "both" \/ (events[i].by = "redis" /\ events[i].ok)
     ELSE events[i].by \in {"both", "memory"} /\ events[i].ok}
Between(s, from, to) == {i \in 1..Len(events) : events[i].source = s /\ events[i].at \in from..to}

\* Redis never lets more events of a source pass within a window than the limit,
\* however blocks, lost answers and outages fall (cache.py, LUA_RATE_LIMIT).
LimitIsKept ==
  \A s \in Origins, t \in 1..second :
    Cardinality({i \in Between(s, t, t + Window - 1) : events[i].by = "redis" /\ events[i].ok}) <= Limit

\* An event is refused only if one that was counted came less than MinGap before,
\* or if the limit was used up within a window before a block that has not ended:
\* no refusal lengthens a block (cache.py, check_rate_limit).
RefusedForAReason ==
  \A n \in 1..Len(events) :
    LET e == events[n]
        before(k) == {i \in Between(e.source, e.at - k + 1, e.at) \cap
                              CountedBy(IF e.by = "redis" THEN "redis" ELSE "memory") : i < n}
    IN ~e.ok => before(MinGap) # {} \/ Cardinality(before(Window + BlockTime)) >= Limit

\* Spam is limited, and nothing but spam is.
SpamIsLimited == LimitIsKept /\ RefusedForAReason
=============================================================================
