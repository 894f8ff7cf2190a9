--------------------------- MODULE Notifications ---------------------------
(***************************************************************************)
(* The notices about one subscription: the periodic jobs that look for a   *)
(* reason to send one (src/app/services/notifications.py) and the          *)
(* dispatcher that applies the admin's rules, the user's snooze, the       *)
(* cooldown in Redis and the unique correlation key of the outbox          *)
(* (src/app/services/notification_dispatcher.py).                          *)
(*                                                                         *)
(* A job reads the panel without a lock and decides later, under the lock  *)
(* of the subscription; its flag and its outbox row commit together, its   *)
(* cooldown does not wait for that commit.  A reason to send a notice is   *)
(* the fact that the panel's expiry or usage is past the threshold of the  *)
(* kind; deliveries are those of module Outbox.                            *)
(***************************************************************************)
EXTENDS Naturals, FiniteSets

CONSTANTS Flagged,      \* kinds with a flag in the row and a correlation key
          Repeating,    \* kinds with neither: the weekly usage report
          TrafficKinds, \* the kinds whose flag a top-up or a reset clears
          Expiry,       \* the kind that reports the end of the subscription
          Cooling,      \* kinds whose rule has a cooldown
          Switchable,   \* kinds an admin may disable
          Snoozable,    \* kinds whose message offers a snooze
          MaxPeriods,   \* bound on renewals and top-ups
          MaxLosses,    \* bound on lost commits and failures of Redis
          MaxWeeks      \* bound on the cooldowns that expire

Kinds == Flagged \cup Repeating

ASSUME NotificationsAssumption ==
  /\ Flagged \cap Repeating = {}
  /\ TrafficKinds \subseteq Flagged
  /\ Cooling \subseteq Kinds /\ Switchable \subseteq Kinds /\ Snoozable \subseteq Kinds
  /\ MaxPeriods \in Nat /\ MaxLosses \in Nat /\ MaxWeeks \in Nat

VARIABLES dueKinds,        \* the kinds the panel gives a reason for
          served,     \* is_active of the row
          flags,      \* the kinds whose notified_ flag is set
          disabled,   \* the kinds whose rule is switched off
          cooldowns,  \* the kinds with a notif_cooldown key in Redis
          snoozed,    \* the kinds with a notif_snooze key in Redis
          keys,       \* the correlation keys the outbox has ever stored
          visit,      \* the job at work: [kind, due] as read from the panel
          periods,    \* renewals and top-ups so far
          losses,     \* lost commits and failures of Redis so far
          queued,     \* history: messages put into the outbox, by kind
          cleared,    \* history: how often the flag of a kind was cleared
          expiries,   \* history: how often the cooldown of a kind ended
          unguarded,  \* history: messages queued although Redis had failed
          suppressed  \* history: flagged kinds the dispatcher did not queue

tally == <<queued, cleared, expiries, unguarded, suppressed>>
noticeVars == <<dueKinds, served, flags, disabled, cooldowns, snoozed, keys, visit,
                periods, losses, tally>>

Idle == [kind |-> "none", dueKinds |-> {}]

NoticeInit ==
  /\ dueKinds = {} /\ served = TRUE
  /\ flags = {} /\ disabled = {} /\ cooldowns = {} /\ snoozed = {} /\ keys = {}
  /\ visit = Idle
  /\ periods = 0 /\ losses = 0
  /\ queued = [k \in Kinds |-> 0] /\ cleared = [k \in Kinds |-> 0]
  /\ expiries = [k \in Kinds |-> 0] /\ unguarded = [k \in Kinds |-> 0]
  /\ suppressed = {}

Loss == losses < MaxLosses /\ losses' = losses + 1

-----------------------------------------------------------------------------
(* What happens to the subscription                                        *)

\* Usage grows, or the end comes near.
BecomesDue(k) ==
  /\ k \in Flagged \ dueKinds
  /\ dueKinds' = dueKinds \cup {k}
  /\ UNCHANGED <<served, flags, disabled, cooldowns, snoozed, keys, visit,
                 periods, losses, tally>>

Clear(kinds) ==
  /\ flags' = flags \ kinds
  /\ cleared' = [k \in Kinds |-> cleared[k] + (IF k \in kinds \cap flags THEN 1 ELSE 0)]

\* A renewal removes every reason and reset_notification_flags every flag.
PeriodRenewed ==
  /\ periods < MaxPeriods
  /\ periods' = periods + 1
  /\ dueKinds' = {}
  /\ served' = TRUE
  /\ Clear(Flagged)
  /\ UNCHANGED <<disabled, cooldowns, snoozed, keys, visit, losses, queued,
                 expiries, unguarded, suppressed>>

\* A top-up or a reset of the traffic clears the traffic flags only.
TrafficAdded ==
  /\ periods < MaxPeriods
  /\ periods' = periods + 1
  /\ dueKinds' = dueKinds \ TrafficKinds
  /\ Clear(TrafficKinds)
  /\ UNCHANGED <<served, disabled, cooldowns, snoozed, keys, visit, losses,
                 queued, expiries, unguarded, suppressed>>

-----------------------------------------------------------------------------
(* The rules page, the snooze button and the clock of Redis                *)

ToggleRule(k) ==
  /\ k \in Switchable
  /\ disabled' = IF k \in disabled THEN disabled \ {k} ELSE disabled \cup {k}
  /\ UNCHANGED <<dueKinds, served, flags, cooldowns, snoozed, keys, visit, periods,
                 losses, tally>>

Snooze(k) ==
  /\ k \in Snoozable
  /\ queued[k] > 0
  /\ snoozed' = snoozed \cup {k}
  /\ UNCHANGED <<dueKinds, served, flags, disabled, cooldowns, keys, visit, periods,
                 losses, tally>>

SnoozeEnds(k) ==
  /\ k \in snoozed
  /\ snoozed' = snoozed \ {k}
  /\ UNCHANGED <<dueKinds, served, flags, disabled, cooldowns, keys, visit, periods,
                 losses, tally>>

CooldownEnds(k) ==
  /\ k \in cooldowns
  /\ expiries[k] < MaxWeeks
  /\ cooldowns' = cooldowns \ {k}
  /\ expiries' = [expiries EXCEPT ![k] = @ + 1]
  /\ UNCHANGED <<dueKinds, served, flags, disabled, snoozed, keys, visit, periods,
                 losses, queued, cleared, unguarded, suppressed>>

-----------------------------------------------------------------------------
(* A job visits the subscription                                           *)

\* _load_active_targets and the request to the panel: no lock is held.
ReadPanel(k) ==
  /\ visit = Idle
  /\ served
  /\ visit' = [kind |-> k, dueKinds |-> dueKinds]
  /\ UNCHANGED <<dueKinds, served, flags, disabled, cooldowns, snoozed, keys,
                 periods, losses, tally>>

\* Under the lock: the row is synced from what was read, and the decision
\* taken on it; a flag that is set already ends the visit.
IsReason(k) == k \in Repeating \/ (k \in visit.dueKinds /\ k \notin flags)

Sync == served' = (Expiry \notin visit.dueKinds)

\* mutation: the flag is forgotten when the notice is queued
SetFlagNever(k) == UNCHANGED flags

\* mutation: the weekly report gets a flag too
SetFlagAlways(k) == flags' = flags \cup {k}

SetFlag(k) == flags' = IF k \in Flagged THEN flags \cup {k} ELSE flags

\* mutation: the cooldown is taken and never looked at
RefusedUncooled(k) == k \in disabled \/ k \in snoozed

\* The order of dispatch: rule, snooze, cooldown (SET NX EX), outbox.
Refused(k) == k \in disabled \/ k \in snoozed \/ k \in Cooling \cap cooldowns

TakeCooldown(k) == cooldowns' = IF k \in Cooling THEN cooldowns \cup {k} ELSE cooldowns

\* mutation: no savepoint, the row counts as queued whether stored or not
EnqueueNoticeBlindly(k) == queued' = queued /\ keys' = keys

\* enqueue_tg_message: a correlation key that exists means a duplicate, which
\* is dropped; keys are never removed.
EnqueueNotice(k) ==
  IF k \in Flagged
  THEN /\ keys' = keys \cup {k}
       /\ queued' = IF k \in keys THEN queued ELSE [queued EXCEPT ![k] = @ + 1]
  ELSE /\ queued' = [queued EXCEPT ![k] = @ + 1]
       /\ UNCHANGED keys

NoReason ==
  /\ visit # Idle
  /\ ~IsReason(visit.kind)
  /\ Sync
  /\ visit' = Idle
  /\ UNCHANGED <<dueKinds, flags, disabled, cooldowns, snoozed, keys, periods, losses, tally>>

\* The flag is set although dispatch returned False.
Suppress ==
  /\ visit # Idle /\ IsReason(visit.kind) /\ Refused(visit.kind)
  /\ Sync
  /\ SetFlag(visit.kind)
  /\ suppressed' = suppressed \cup {visit.kind}
  /\ visit' = Idle
  /\ UNCHANGED <<dueKinds, disabled, cooldowns, snoozed, keys, periods, losses,
                 queued, cleared, expiries, unguarded>>

Notify ==
  /\ visit # Idle /\ IsReason(visit.kind) /\ ~Refused(visit.kind)
  /\ Sync
  /\ SetFlag(visit.kind)
  /\ TakeCooldown(visit.kind)
  /\ EnqueueNotice(visit.kind)
  /\ visit' = Idle
  /\ UNCHANGED <<dueKinds, disabled, snoozed, periods, losses, cleared, expiries,
                 unguarded, suppressed>>

\* An error of Redis neither refuses nor takes a cooldown.
NotifyWithoutRedis ==
  /\ visit # Idle /\ IsReason(visit.kind) /\ visit.kind \notin disabled
  /\ Loss
  /\ Sync
  /\ SetFlag(visit.kind)
  /\ EnqueueNotice(visit.kind)
  /\ unguarded' = [unguarded EXCEPT ![visit.kind] = @ + 1]
  /\ visit' = Idle
  /\ UNCHANGED <<dueKinds, disabled, cooldowns, snoozed, periods, cleared, expiries, suppressed>>

\* The transaction is lost: the cooldown is not.
NotifyIsLost ==
  /\ visit # Idle /\ IsReason(visit.kind) /\ ~Refused(visit.kind)
  /\ Loss
  /\ TakeCooldown(visit.kind)
  /\ visit' = Idle
  /\ UNCHANGED <<dueKinds, served, flags, disabled, snoozed, keys, periods, tally>>

Visit == NoReason \/ Suppress \/ Notify

NoticeNext ==
  \/ \E k \in Kinds :
       \/ BecomesDue(k)
       \/ ToggleRule(k)
       \/ Snooze(k)
       \/ SnoozeEnds(k)
       \/ CooldownEnds(k)
       \/ ReadPanel(k)
  \/ PeriodRenewed
  \/ TrafficAdded
  \/ Visit
  \/ NotifyWithoutRedis
  \/ NotifyIsLost

NoticeSpec == NoticeInit /\ [][NoticeNext]_noticeVars

-----------------------------------------------------------------------------
(* Properties                                                              *)

NoticeTypeOK ==
  /\ dueKinds \subseteq Flagged /\ flags \subseteq Flagged /\ keys \subseteq Flagged
  /\ disabled \subseteq Switchable /\ snoozed \subseteq Snoozable
  /\ cooldowns \subseteq Cooling /\ suppressed \subseteq Kinds
  /\ served \in BOOLEAN
  /\ visit = Idle \/ (visit.kind \in Kinds /\ visit.dueKinds \subseteq Flagged)
  /\ periods \in 0 .. MaxPeriods /\ losses \in 0 .. MaxLosses

\* A user is not told the same thing twice: after a notice its flag stays set
\* until a payment clears it, whatever snapshot the jobs work from and
\* whichever commits are lost (check_expiring and its siblings).
NotToldTwice ==
  \A k \in Flagged : queued[k] <= cleared[k] + (IF k \in flags THEN 1 ELSE 0)

\* The weekly report has no flag: one report per cooldown, and only an error of
\* Redis lets another through (check_weekly_usage_report).
OneReportPerCooldown ==
  \A k \in Repeating \cap Cooling :
    queued[k] <= expiries[k] + unguarded[k] + (IF k \in cooldowns THEN 1 ELSE 0)

\* A flag without a message has a reason: the rule, the snooze or the cooldown
\* suppressed it, or its correlation key was used before.
FlagHasMessage == flags \subseteq keys \cup suppressed

\* A notice is sent once for its reason, and not marked without one.
NoticesAreHonest ==
  /\ NotToldTwice
  /\ OneReportPerCooldown
  /\ FlagHasMessage

\* What CODE_QUALITY.md says of the transactional outbox: a flag is not set
\* without the message being sent; here for the period since the last clearing.
FlagMeansQueued ==
  \A k \in flags \ suppressed : queued[k] > cleared[k]
=============================================================================
