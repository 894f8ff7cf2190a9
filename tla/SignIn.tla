------------------------------- MODULE SignIn -------------------------------
(***************************************************************************)
(* The limit on failed sign-ins to the web console: a request is let in if *)
(* its address has few recent failures, its password is then checked, and  *)
(* a failure is recorded last, so that requests overlap between the check  *)
(* and the record.  Everything is in the memory of the process.            *)
(***************************************************************************)
EXTENDS Integers, Sequences, FiniteSets, SequencesExt

CONSTANTS Addresses,
          Guests,         \* requests at once
          FailureLimit,   \* _LOGIN_FAILURE_LIMIT
          FailureWindow,  \* _LOGIN_FAILURE_WINDOW_SECONDS
          Tracked,        \* _LOGIN_FAILURES_MAX_TRACKED_IPS
          Share,          \* one in so many is forgotten at that limit (4)
          LastMinute, MaxKnocks   \* bounds

ASSUME FailuresAssumption == {FailureLimit, FailureWindow, Tracked, Share} \subseteq Nat \ {0}
ASSUME GuestsAssumption == IsFiniteSet(Guests)
ASSUME KnocksAssumption == LastMinute \in Nat \ {0} /\ MaxKnocks \in Nat

VARIABLES minute,
          loginFailures,   \* _login_failures: [address -> failures], and its keys in order
          known,
          guest,      \* the request: [at, from]
          refusals,   \* the times at which an address was refused, until it is forgotten
          misses,     \* the failures of an address that were recorded and not forgotten,
                      \* which number them
          knocks

signInVars == <<minute, loginFailures, known, guest, refusals, misses, knocks>>

Away == [at |-> "away", from |-> "nowhere"]

SignInInit ==
  /\ minute = 1
  /\ loginFailures = [a \in Addresses |-> {}]
  /\ known = <<>>
  /\ guest = [g \in Guests |-> Away]
  /\ refusals = [a \in Addresses |-> {}]
  /\ misses = [a \in Addresses |-> {}]
  /\ knocks = 0

\* A mutant: a failure of exactly a window ago still counts, for ever.
RecentOrNot(failures) == failures
Recent(failures) == {f \in failures : f.at > minute - FailureWindow}

\* _login_rate_limit_check reads and prunes.
Allowed(a) == Cardinality(Recent(loginFailures[a])) < FailureLimit

Knock(g, a) ==
  /\ guest[g] = Away
  /\ knocks < MaxKnocks /\ knocks' = knocks + 1
  /\ loginFailures' = [loginFailures EXCEPT ![a] = Recent(@)]
  /\ IF Allowed(a)
       THEN guest' = [guest EXCEPT ![g] = [at |-> "door", from |-> a]] /\ UNCHANGED refusals
       ELSE refusals' = [refusals EXCEPT ![a] = @ \cup {minute}] /\ UNCHANGED guest
  /\ UNCHANGED <<minute, known, misses>>

\* The password was right.
LetIn(g) ==
  /\ guest[g].at = "door"
  /\ guest' = [guest EXCEPT ![g] = Away]
  /\ UNCHANGED <<minute, loginFailures, known, refusals, misses, knocks>>

\* _record_login_failure: the oldest addresses, so many, make room for a new one.
Forgotten(a) ==
  IF Len(known) >= Tracked /\ a \notin ToSet(known) THEN Len(known) \div Share ELSE 0

TurnAway(g) ==
  /\ guest[g].at = "door"
  /\ LET a == guest[g].from
         failure == [at |-> minute, no |-> Cardinality(misses[a]) + 1]
         gone == ToSet(SubSeq(known, 1, Forgotten(a)))
         left == SubSeq(known, Forgotten(a) + 1, Len(known))
     IN /\ known' = IF a \in ToSet(left) THEN left ELSE Append(left, a)
        /\ loginFailures' = [x \in Addresses |->
                               IF x = a THEN Recent(loginFailures[a] \cup {failure})
                               ELSE IF x \in gone THEN {} ELSE loginFailures[x]]
        /\ misses' = [x \in Addresses |->
                        IF x = a THEN misses[a] \cup {failure}
                        ELSE IF x \in gone THEN {} ELSE misses[x]]
        /\ refusals' = [x \in Addresses |-> IF x \in gone THEN {} ELSE refusals[x]]
  /\ guest' = [guest EXCEPT ![g] = Away]
  /\ UNCHANGED <<minute, knocks>>

TimePasses ==
  /\ minute < LastMinute /\ minute' = minute + 1
  /\ UNCHANGED <<loginFailures, known, guest, refusals, misses, knocks>>

SignInNext ==
  \/ \E g \in Guests : (\E a \in Addresses : Knock(g, a)) \/ LetIn(g) \/ TurnAway(g)
  \/ TimePasses

SignInSpec == SignInInit /\ [][SignInNext]_signInVars

-----------------------------------------------------------------------------
Failures == [at : 1..LastMinute, no : Nat]

\* Failures are kept only for the addresses in order.
SignInTypeOK ==
  /\ minute \in 1..LastMinute
  /\ \A a \in Addresses : loginFailures[a] \subseteq Failures /\ (loginFailures[a] # {} => a \in ToSet(known))
  /\ IsInjective(known)
  /\ guest \in [Guests -> {Away} \cup [at : {"door"}, from : Addresses]]
  /\ knocks \in 0..MaxKnocks

MissesIn(a, from, to) == {f \in misses[a] : f.at \in from..to}

\* Within a window an address fails at most as often as the limit and the requests
\* that were already at the door allow (auth.py, require_role), and it is refused
\* only while its failures are in the window: an address is never shut out for
\* good.
FailuresAreLimited ==
  \A a \in Addresses :
    /\ \A t \in 1..minute :
         Cardinality(MissesIn(a, t, t + FailureWindow - 1)) <= FailureLimit + Cardinality(Guests) - 1
    /\ \A t \in refusals[a] : Cardinality(MissesIn(a, t - FailureWindow + 1, t)) >= FailureLimit
=============================================================================
