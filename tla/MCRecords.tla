------------------------------ MODULE MCRecords ------------------------------
(***************************************************************************)
(* The components that keep rows in agreement with something outside them, *)
(* side by side.                                                           *)
(***************************************************************************)
EXTENDS MCFocus, Outbox, ManualReset, Subscription, Notifications, PromoCodes

CONSTANTS m1, m2, w1, alice, bob, nothing, s1, s2, r1, t1, u1, u2, g1

\* Without a second worker, so that the outbox refines Delivery.
TwoMessages == {m1, m2}
OneWorker == {w1}
TwoChats == {alice, bob}
ChatOf == [m \in Messages |-> IF m = m1 THEN alice ELSE bob]

TwoSessions == {s1, s2}

\* The note of the renewal is overwritten by the reset and by the pages.
OneRenewal == {r1}

\* Bound: after a write from an outdated reading, of which nothing more is claimed than
\* the types and the notes, a subscription is not followed any further.
UntilMisread == ~misread
OneTopup == {t1}

\* One notice of each sort: the end of the subscription, low traffic with a
\* snooze and a rule that is toggled, and the weekly report.
FlaggedKinds == {"expired", "low_traffic"}
WeeklyKind == {"weekly_usage"}
LowTraffic == {"low_traffic"}
Cooled == {"low_traffic", "weekly_usage"}

TwoRedeemers == {u1, u2}
OnePage == {g1}

recordVars == <<outboxVars, resetVars, subscriptionVars, noticeVars, promoVars>>
recordsVars == <<focus, recordVars>>

RowsInit == OutboxInit /\ ResetInit /\ SubscriptionInit /\ NoticeInit /\ PromoInit

RecordsInit ==
  /\ focus \in {"outbox", "reset", "subscription", "notices", "promos"}
  /\ RowsInit

RecordsNext ==
  /\ UNCHANGED focus
  /\ \/ /\ On("outbox") /\ OutboxNext
        /\ UNCHANGED <<resetVars, subscriptionVars, noticeVars, promoVars>>
     \/ /\ On("reset") /\ ResetNext
        /\ UNCHANGED <<outboxVars, subscriptionVars, noticeVars, promoVars>>
     \/ /\ On("subscription") /\ SubscriptionNext
        /\ UNCHANGED <<outboxVars, resetVars, noticeVars, promoVars>>
     \/ /\ On("notices") /\ NoticeNext
        /\ UNCHANGED <<outboxVars, resetVars, subscriptionVars, promoVars>>
     \/ /\ On("promos") /\ PromoNext
        /\ UNCHANGED <<outboxVars, resetVars, subscriptionVars, noticeVars>>

RecordsSpec == RecordsInit /\ [][RecordsNext]_recordsVars

\* The type invariants of the five components.
RecordsTypeOK ==
  OutboxTypeOK /\ ResetTypeOK /\ SubscriptionTypeOK /\ NoticeTypeOK /\ PromoTypeOK
=============================================================================
