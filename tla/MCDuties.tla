------------------------------ MODULE MCDuties ------------------------------
(***************************************************************************)
(* The background duties, the guards of the entrances and the drafts of    *)
(* answers side by side: a behaviour is a behaviour of one component, and  *)
(* the others stand still in an initial state.  They share no variable, so *)
(* this checks what a run of each would, and the numbers of states add up. *)
(***************************************************************************)
EXTENDS CircuitBreaker, SchedulerLeader, Broadcasts, Outbox,
        RateLimit, SignIn, WebAdmins, SupportAi

CONSTANTS c1, c2, c3, c4, i1, i2, i3, ghost, nobody, b1, b2, newsletter,
          m1, w1, w2, alice, nothing, o1, o2, noAccount

\* Two calls that fail and open the breaker, one that is late, one that probes.
FourCalls == {c1, c2, c3, c4}
\* One to be deposed by a second, and the second disturbed by a third.
ThreeInstances == {i1, i2, i3}
TwoSenders == {b1, b2}
OneJob == {newsletter}

\* Two workers that overlap at a change of leader, and the row both may hold.
OneMessage == {m1}
TwoWorkers == {w1, w2}
OneChat == {alice}
ChatOf == [m \in Messages |-> alice]

TwoOrigins == {o1, o2}
TwoClerks == {o1, o2}

VARIABLE focus   \* the component that runs

On(component) == focus = component

jobVars == <<breakerVars, leaderVars, broadcastVars, outboxVars>>
guardVars == <<rateVars, signInVars, adminVars, aiVars>>
dutiesVars == <<focus, jobVars, guardVars>>

DutiesInit ==
  /\ focus \in {"breaker", "leader", "broadcasts", "outbox", "rate", "sign_in", "admins", "drafts"}
  /\ BreakerInit
  /\ LeaderInit /\ (On("leader") \/ lock = Nobody)
  /\ BroadcastInit /\ (On("broadcasts") \/ reachable = Audience)
  /\ OutboxInit
  /\ RateInit /\ SignInInit /\ AdminsInit /\ AiInit

JobNext ==
  \/ On("breaker") /\ BreakerNext /\ UNCHANGED <<leaderVars, broadcastVars, outboxVars, guardVars>>
  \/ On("leader") /\ LeaderNext /\ UNCHANGED <<breakerVars, broadcastVars, outboxVars, guardVars>>
  \/ On("broadcasts") /\ BroadcastNext /\ UNCHANGED <<breakerVars, leaderVars, outboxVars, guardVars>>
  \/ On("outbox") /\ OutboxNext /\ UNCHANGED <<breakerVars, leaderVars, broadcastVars, guardVars>>

GuardNext ==
  \/ On("rate") /\ RateNext /\ UNCHANGED <<signInVars, adminVars, aiVars, jobVars>>
  \/ On("sign_in") /\ SignInNext /\ UNCHANGED <<rateVars, adminVars, aiVars, jobVars>>
  \/ On("admins") /\ AdminsNext /\ UNCHANGED <<rateVars, signInVars, aiVars, jobVars>>
  \/ On("drafts") /\ AiNext /\ UNCHANGED <<rateVars, signInVars, adminVars, jobVars>>

DutiesNext == UNCHANGED focus /\ (JobNext \/ GuardNext)

\* The fairness of each module, for the component that runs.
DutiesFair ==
  /\ WF_breakerVars(On("breaker") /\ CooldownElapses)
  /\ \A c \in Calls : /\ WF_breakerVars(On("breaker") /\ Enter(c))
                      /\ WF_breakerVars(On("breaker") /\ Exit(c))
  /\ \A i \in Instances :
       /\ WF_leaderVars(On("leader") /\ Start(i))
       /\ WF_leaderVars(On("leader") /\ (Acquire(i) \/ Inspect(i) \/ Reclaim(i) \/ Retry(i)))
       /\ WF_leaderVars(On("leader") /\ RefreshFinds(i))
       /\ WF_leaderVars(On("leader") /\ Watchdog(i))
  /\ \A s \in Senders : WF_broadcastVars(On("broadcasts") /\ Work(s))
  /\ \A m \in Messages : /\ WF_outboxVars(On("outbox") /\ BackoffPasses(m))
                         /\ WF_outboxVars(On("outbox") /\ TimeoutPasses(m))
  /\ \A w \in Workers : /\ WF_outboxVars(On("outbox") /\ Claim(w))
                        /\ WF_outboxVars(On("outbox") /\ Dispatch(w))

DutiesSpec == DutiesInit /\ [][DutiesNext]_dutiesVars /\ DutiesFair

\* The type invariant of the component that runs.
DutiesTypeOK ==
  /\ On("breaker") => BreakerTypeOK
  /\ On("leader") => LeaderTypeOK
  /\ On("broadcasts") => BroadcastTypeOK
  /\ On("outbox") => OutboxTypeOK
  /\ On("rate") => RateTypeOK
  /\ On("sign_in") => SignInTypeOK
  /\ On("admins") => AdminsTypeOK
  /\ On("drafts") => AiTypeOK

\* Both entrances hold their limits, the bot's against spam (anti_spam.py) and the
\* console's against guesses of a password (auth.py), and refuse nobody else.
EntrancesAreLimited == SpamIsLimited /\ FailuresAreLimited

\* Whatever was taken up ends: a broadcast (broadcast_polling.py), and a message of the
\* outbox (outbox.py), although whoever was at it may die.
DutiesEnd == BroadcastEnds /\ Finishes
=============================================================================
