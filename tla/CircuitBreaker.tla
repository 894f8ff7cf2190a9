--------------------------- MODULE CircuitBreaker ---------------------------
(***************************************************************************)
(* The asynchronous circuit breaker that guards every HTTP call to the     *)
(* Marzban panel and to the Platega payment API                            *)
(* (src/app/services/circuit_breaker.py).                                  *)
(*                                                                         *)
(* Calls are asyncio tasks.  The breaker's three handlers run under a lock *)
(* with no await between taking and releasing it, so each is one atomic    *)
(* action; the guarded request runs between them, outside the lock, and    *)
(* many requests overlap.  time.monotonic() is abstracted to the one bit   *)
(* the code derives from it: cooled says that cooldown_seconds have passed *)
(* since _opened_at.                                                       *)
(***************************************************************************)
EXTENDS Naturals

CONSTANTS Calls,             \* concurrent tasks that may call through the breaker
          FailureThreshold,  \* failure_threshold
          MaxFailures        \* bound on the failure counter, for TLC only

ASSUME ThresholdAssumption == FailureThreshold \in Nat \ {0}
ASSUME MaxFailuresAssumption == MaxFailures \in Nat /\ MaxFailures >= FailureThreshold

VARIABLES state,       \* _state
          failures,    \* _consecutive_failures
          probing,     \* _half_open_in_flight
          cooled,      \* now - _opened_at >= cooldown_seconds
          inFlight,    \* the calls admitted and not yet finished
          probes       \* history: those of them admitted as a half-open probe

breakerVars == <<state, failures, probing, cooled, inFlight, probes>>

States == {"closed", "open", "half_open"}

BreakerInit ==
  /\ state = "closed"
  /\ failures = 0
  /\ probing = FALSE
  /\ cooled = FALSE
  /\ inFlight = {}
  /\ probes = {}

-----------------------------------------------------------------------------
(* _on_before_call.  A rejected call changes nothing, so it is a stutter.  *)

Admit(c) ==
  /\ c \notin inFlight
  /\ inFlight' = inFlight \cup {c}

PassClosed(c) ==
  /\ state = "closed"
  /\ Admit(c)
  /\ UNCHANGED <<state, failures, probing, cooled, probes>>

\* mutation: the branch that leaves open is lost
MayProbeHalfOpenOnly == state = "half_open" /\ ~probing

\* After the cooldown the call itself moves the breaker to half_open and
\* becomes its probe; in half_open it is let through while nobody probes.
MayProbe == IF state = "open" THEN cooled ELSE state = "half_open" /\ ~probing

Probe(c) ==
  /\ MayProbe
  /\ Admit(c)
  /\ state' = "half_open"
  /\ probing' = TRUE
  /\ probes' = probes \cup {c}
  /\ UNCHANGED <<failures, cooled>>

-----------------------------------------------------------------------------
(* __aexit__                                                               *)

Leave(c) ==
  /\ c \in inFlight
  /\ inFlight' = inFlight \ {c}
  /\ probes' = probes \ {c}

\* mutation: the counter is decremented instead of cleared
OnSuccessForgivesOne(c) ==
  /\ Leave(c)
  /\ state' = "closed"
  /\ failures' = failures - 1
  /\ probing' = FALSE
  /\ UNCHANGED cooled

\* No exception, or one that _is_failure does not count: a 4xx answer, a user
\* that already exists, a cancelled task.
OnSuccess(c) ==
  /\ Leave(c)
  /\ state' = "closed"
  /\ failures' = 0
  /\ probing' = FALSE
  /\ UNCHANGED cooled

\* mutation: off by one
OpensLate == state = "half_open" \/ failures >= FailureThreshold

Opens == state = "half_open" \/ failures + 1 >= FailureThreshold

\* mutation: a failed probe leaves the in-flight flag set
OnFailureKeepsFlag(c) ==
  /\ failures < MaxFailures
  /\ Leave(c)
  /\ failures' = failures + 1
  /\ state' = IF Opens THEN "open" ELSE state
  /\ cooled' = IF Opens THEN FALSE ELSE cooled
  /\ UNCHANGED probing

\* mutation: the failure of a probe is ignored
OnFailureIgnoresProbe(c) ==
  /\ failures < MaxFailures
  /\ Leave(c)
  /\ IF state = "half_open"
     THEN UNCHANGED <<failures, state, cooled, probing>>
     ELSE /\ failures' = failures + 1
          /\ state' = IF Opens THEN "open" ELSE state
          /\ cooled' = IF Opens THEN FALSE ELSE cooled
          /\ UNCHANGED probing

OnFailure(c) ==
  /\ failures < MaxFailures
  /\ Leave(c)
  /\ failures' = failures + 1
  /\ state' = IF Opens THEN "open" ELSE state
  /\ cooled' = IF Opens THEN FALSE ELSE cooled
  /\ probing' = IF state = "half_open" THEN FALSE ELSE probing

\* time.monotonic() reaches _opened_at + cooldown_seconds
CooldownElapses ==
  /\ state = "open"
  /\ ~cooled
  /\ cooled' = TRUE
  /\ UNCHANGED <<state, failures, probing, inFlight, probes>>

Enter(c) == PassClosed(c) \/ Probe(c)
Exit(c) == OnSuccess(c) \/ OnFailure(c)

BreakerNext ==
  \/ \E c \in Calls : Enter(c) \/ Exit(c)
  \/ CooldownElapses

BreakerSpec == BreakerInit /\ [][BreakerNext]_breakerVars

\* The schedulers keep calling (payment polling every 30 s, node probes), each
\* request ends because the HTTP client has a timeout, and time passes.
BreakerFair ==
  /\ WF_breakerVars(CooldownElapses)
  /\ \A c \in Calls : WF_breakerVars(Enter(c)) /\ WF_breakerVars(Exit(c))

BreakerFairSpec == BreakerSpec /\ BreakerFair
-----------------------------------------------------------------------------
(* Properties                                                              *)

\* Every variable keeps its type; every probe is a call in flight.
BreakerTypeOK ==
  /\ state \in States
  /\ failures \in 0..MaxFailures
  /\ probing \in BOOLEAN
  /\ cooled \in BOOLEAN
  /\ inFlight \subseteq Calls
  /\ probes \subseteq inFlight

\* A half-open breaker is waiting for somebody: the flag that makes it reject
\* every other call is set exactly while it is half-open, and a probe is then
\* really in flight, whose end will move the breaker (otherwise _on_before_call
\* would reject every call for ever).
HalfOpenHasProbe ==
  /\ (probing = TRUE) <=> (state = "half_open")
  /\ state = "half_open" => probes # {}

\* A closed breaker has not reached the threshold, whatever calls admitted
\* earlier report late (_on_failure counts them in every state).
ClosedBelowThreshold == state = "closed" => failures < FailureThreshold

\* Whatever the order in which overlapping calls end, half-open has its probe and
\* closed is below the threshold.
BreakerIsCoherent == HalfOpenHasProbe /\ ClosedBelowThreshold

\* An open breaker does not stay open for ever: late failures of calls admitted
\* before it opened push _opened_at forward, but there are finitely many.
OpenRecovers == state = "open" ~> state # "open"

\* A half-open breaker always decides.
HalfOpenDecides == state = "half_open" ~> state # "half_open"

\* Neither state that rejects calls is for ever.
BreakerRecovers == OpenRecovers /\ HalfOpenDecides
=============================================================================
