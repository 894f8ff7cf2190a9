---------------------------- MODULE OutboxProofs ----------------------------
(***************************************************************************)
(* Theorems about the outbox, for any number of messages, workers, crashes *)
(* and reclaimed rows.                                                     *)
(*                                                                         *)
(* The inductive invariant says what a worker knows between Telegram's     *)
(* answer and its record: that is all that a row another worker may have   *)
(* reclaimed, sent and recorded meanwhile has to rely on.                  *)
(***************************************************************************)
EXTENDS Outbox, FiniteSetTheorems, TLAPS

InHand ==
  \A w \in Workers :
    /\ sending[w] = Nothing <=> answer[w] = "none"
    /\ answer[w] = "ok" => delivered[sending[w]] > 0
    /\ answer[w] = "forbidden" => sending[w] \in refused

IInv == OutboxTypeOK /\ InHand /\ SentWasDelivered /\ DeadForAReason

LEMMA InitInv == OutboxInit => IInv
  BY MaxMishapsAssumption
  DEF OutboxInit, IInv, OutboxTypeOK, InHand, SentWasDelivered, DeadForAReason, Statuses, Answers

LEMMA ClockInv ==
  ASSUME IInv, NEW m \in Messages, Enqueue(m) \/ BackoffPasses(m) \/ TimeoutPasses(m)
  PROVE IInv'
<1> USE DEF IInv, OutboxTypeOK, InHand, SentWasDelivered, DeadForAReason, Statuses,
            workerVars, telegram
<1>1. CASE Enqueue(m)
  BY <1>1 DEF Enqueue
<1>2. CASE BackoffPasses(m)
  BY <1>2 DEF BackoffPasses
<1>3. CASE TimeoutPasses(m)
  BY <1>3 DEF TimeoutPasses
<1> QED
  BY <1>1, <1>2, <1>3

LEMMA ClaimInv ==
  ASSUME IInv, NEW w \in Workers, Claim(w)
  PROVE IInv'
<1> USE DEF IInv, OutboxTypeOK, InHand, SentWasDelivered, DeadForAReason, telegram
<1>1. PICK S \in SUBSET Messages : ClaimRows(w, S)
  BY DEF Claim, Backlog
<1>2. UNCHANGED <<sending, answer, telegram, botBlocked, mishaps>>
  BY DEF Claim
<1>3. OutboxTypeOK'
  BY <1>1, <1>2 DEF ClaimRows, Statuses
<1>4. InHand'
  BY <1>2
<1>5. SentWasDelivered'
  BY <1>1, <1>2 DEF ClaimRows
<1>6. DeadForAReason'
  BY <1>1, <1>2, MaxAttemptsAssumption DEF ClaimRows
<1> QED
  BY <1>3, <1>4, <1>5, <1>6

LEMMA SendInv ==
  ASSUME IInv, NEW w \in Workers, NEW m \in Messages, NEW a \in Answers \ {"none"},
         Send(w, m, a)
  PROVE IInv'
<1> USE DEF IInv, OutboxTypeOK, Send, rowVars
<1>1. /\ \A n \in Messages : delivered'[n] \in Nat /\ delivered'[n] >= delivered[n]
      /\ delivered' \in [Messages -> Nat]
      /\ a = "ok" => delivered'[m] > 0
  OBVIOUS
<1>2. OutboxTypeOK'
  BY <1>1 DEF Answers
<1>3. InHand'
  BY <1>1, NothingAssumption DEF InHand, Answers
<1>4. SentWasDelivered'
  BY <1>1 DEF SentWasDelivered
<1>5. DeadForAReason'
  BY DEF DeadForAReason
<1> QED
  BY <1>2, <1>3, <1>4, <1>5

\* What the users' bot_blocked may become keeps its type.
LEMMA BlockedType ==
  ASSUME OutboxTypeOK, NEW w \in Workers, sending[w] # Nothing, botBlocked' \in BlockedAfter(w)
  PROVE botBlocked' \subseteq Chats
  BY ChatAssumption DEF OutboxTypeOK, BlockedAfter

LEMMA RecordInv ==
  ASSUME IInv, NEW w \in Workers, RecordSent(w) \/ RecordFailed(w)
  PROVE IInv'
<1> USE DEF IInv, OutboxTypeOK, Proceed, telegram
<1>1. sending[w] \in Messages
  BY DEF InHand, RecordSent, RecordFailed
<1>2. botBlocked' \subseteq Chats
  BY <1>1, NothingAssumption, BlockedType DEF RecordSent, RecordFailed
<1>3. OutboxTypeOK'
  BY <1>1, <1>2 DEF RecordSent, RecordFailed, Statuses, Answers
<1>4. InHand'
  BY DEF InHand, RecordSent, RecordFailed
<1>5. SentWasDelivered'
  BY <1>1 DEF InHand, SentWasDelivered, RecordSent, RecordFailed
<1>6. DeadForAReason'
  BY <1>1 DEF InHand, DeadForAReason, RecordSent, RecordFailed, Hopeless
<1> QED
  BY <1>3, <1>4, <1>5, <1>6

LEMMA MishapInv ==
  ASSUME IInv, NEW w \in Workers, RecordIsLost(w) \/ WorkerDies(w)
  PROVE IInv'
<1> USE DEF IInv, OutboxTypeOK, Proceed, telegram, rowVars, Mishap
<1>1. botBlocked' \subseteq Chats
  BY BlockedType DEF RecordIsLost, WorkerDies
<1>2. OutboxTypeOK'
  BY <1>1, MaxMishapsAssumption DEF RecordIsLost, WorkerDies, Answers
<1>3. InHand'
  BY DEF InHand, RecordIsLost, WorkerDies
<1>4. SentWasDelivered' /\ DeadForAReason'
  BY DEF SentWasDelivered, DeadForAReason, RecordIsLost, WorkerDies
<1> QED
  BY <1>2, <1>3, <1>4

LEMMA NextInv == IInv /\ [OutboxNext]_outboxVars => IInv'
<1> SUFFICES ASSUME IInv, [OutboxNext]_outboxVars PROVE IInv'
  OBVIOUS
<1>1. CASE UNCHANGED outboxVars
  BY <1>1 DEF IInv, OutboxTypeOK, InHand, SentWasDelivered, DeadForAReason, outboxVars,
              rowVars, workerVars, telegram
<1>2. CASE OutboxNext
  BY <1>2, ClockInv, ClaimInv, SendInv, RecordInv, MishapInv DEF OutboxNext, Clock, Dispatch
<1> QED
  BY <1>1, <1>2

LEMMA InvHolds == OutboxSpec => []IInv
  BY InitInv, NextInv, PTL DEF OutboxSpec

\* A row that says sent was accepted by Telegram, although a worker records without
\* looking at what another worker may have made of the row meanwhile.
THEOREM SentIsTrue == OutboxSpec => []SentWasDelivered
  BY InvHolds, PTL DEF IInv

\* No crash, reclaim or overlap makes the outbox give up early.
THEOREM DeadIsTrue == OutboxSpec => []DeadForAReason
  BY InvHolds, PTL DEF IInv

\* Both together: the end a row shows is the end its message came to.
THEOREM EndsHold == OutboxSpec => []EndsAreTrue
  BY SentIsTrue, DeadIsTrue, PTL DEF EndsAreTrue

-----------------------------------------------------------------------------
(* Copies and claims.  A claim is spent by the sending of the row, so it is *)
(* what was delivered and what may still be that the attempts pay for.      *)

Holders(m) == {w \in Workers : m \in batch[w]}

ClaimsCover(m) ==
  /\ IsFiniteSet(Holders(m))
  /\ delivered[m] + Cardinality(Holders(m)) <= attempts[m]

ClaimsInv == \A m \in Messages : ClaimsCover(m)

LEMMA InitClaims == OutboxInit => ClaimsInv
<1> SUFFICES ASSUME OutboxInit, NEW m \in Messages PROVE ClaimsCover(m)
  BY DEF ClaimsInv
<1>1. Holders(m) = {}
  BY DEF OutboxInit, Holders
<1> QED
  BY <1>1, FS_EmptySet DEF OutboxInit, ClaimsCover

\* A claim that is given back, spent or lost.
LEMMA ClaimsKept ==
  ASSUME OutboxTypeOK, NEW m \in Messages, ClaimsCover(m), UNCHANGED attempts,
         \/ Holders(m)' \subseteq Holders(m) /\ delivered'[m] = delivered[m]
         \/ /\ delivered'[m] \in {delivered[m], delivered[m] + 1}
            /\ \E w \in Holders(m) : Holders(m)' = Holders(m) \ {w}
  PROVE ClaimsCover(m)'
<1> DEFINE H == Holders(m)
           K == Holders(m)'
<1>1. IsFiniteSet(H) /\ Cardinality(H) \in Nat
  BY FS_CardinalityType DEF ClaimsCover
<1>2. delivered[m] \in Nat /\ attempts[m] \in Nat /\ delivered[m] + Cardinality(H) <= attempts[m]
  BY DEF OutboxTypeOK, ClaimsCover
<1>3. CASE K \subseteq H /\ delivered'[m] = delivered[m]
  <2> HIDE DEF H, K
  <2>1. IsFiniteSet(K) /\ Cardinality(K) <= Cardinality(H) /\ Cardinality(K) \in Nat
    BY <1>1, <1>3, FS_Subset, FS_CardinalityType
  <2>2. delivered'[m] + Cardinality(K) <= attempts'[m]
    BY <1>1, <1>2, <1>3, <2>1
  <2> QED
    BY <2>1, <2>2 DEF ClaimsCover, K
<1>4. ASSUME delivered'[m] \in {delivered[m], delivered[m] + 1}, NEW w \in H, K = H \ {w}
      PROVE ClaimsCover(m)'
  <2> HIDE DEF H, K
  <2>1. IsFiniteSet(K) /\ Cardinality(K) = Cardinality(H) - 1
    BY <1>1, <1>4, FS_RemoveElement
  <2>2. delivered'[m] + Cardinality(K) <= attempts'[m]
    BY <1>1, <1>2, <1>4, <2>1
  <2> QED
    BY <2>1, <2>2 DEF ClaimsCover, K
<1> QED
  BY <1>3, <1>4

\* Each row that is claimed is counted, once, and the worker's hands were empty.
LEMMA ClaimsAfterClaim ==
  ASSUME IInv, NEW m \in Messages, ClaimsCover(m), NEW w \in Workers, Claim(w)
  PROVE ClaimsCover(m)'
<1> USE DEF IInv, OutboxTypeOK
<1>1. PICK S \in SUBSET Messages : ClaimRows(w, S)
  BY DEF Claim, Backlog
<1>2. batch[w] = {} /\ delivered' = delivered
  BY DEF Claim, IdleWorker, telegram
<1>3. /\ Holders(m)' = IF m \in S THEN Holders(m) \cup {w} ELSE Holders(m)
      /\ w \notin Holders(m)
      /\ attempts'[m] = IF m \in S THEN attempts[m] + 1 ELSE attempts[m]
  BY <1>1, <1>2 DEF ClaimRows, Holders
<1>4. /\ IsFiniteSet(Holders(m)) /\ Cardinality(Holders(m)) \in Nat
      /\ delivered[m] \in Nat /\ attempts[m] \in Nat
  BY FS_CardinalityType DEF ClaimsCover
<1>5. CASE m \in S
  <2>1. /\ IsFiniteSet(Holders(m)')
        /\ Cardinality(Holders(m)') = Cardinality(Holders(m)) + 1
    BY <1>3, <1>4, <1>5, FS_AddElement
  <2> QED
    BY <1>2, <1>3, <1>4, <1>5, <2>1 DEF ClaimsCover
<1>6. CASE m \notin S
  BY <1>2, <1>3, <1>4, <1>6 DEF ClaimsCover
<1> QED
  BY <1>5, <1>6

LEMMA ClaimsStep == IInv /\ ClaimsInv /\ [OutboxNext]_outboxVars => ClaimsInv'
<1> SUFFICES ASSUME IInv, ClaimsInv, [OutboxNext]_outboxVars, NEW m \in Messages
             PROVE ClaimsCover(m)'
  BY DEF ClaimsInv
<1> USE DEF IInv, OutboxTypeOK
<1>0. ClaimsCover(m)
  BY DEF ClaimsInv
<1>1. ASSUME UNCHANGED <<attempts, batch, delivered>> PROVE ClaimsCover(m)'
  BY <1>0, <1>1, ClaimsKept DEF Holders
<1>2. CASE (\E n \in Messages : Enqueue(n)) \/ Clock \/ UNCHANGED outboxVars
  BY <1>1, <1>2 DEF Enqueue, Clock, BackoffPasses, TimeoutPasses, outboxVars, rowVars,
                    workerVars, telegram
<1>3. ASSUME NEW w \in Workers, NEW n \in Messages, NEW a \in Answers \ {"none"}, Send(w, n, a)
      PROVE ClaimsCover(m)'
  <2>1. UNCHANGED attempts /\ batch'[w] = batch[w] \ {n}
        /\ \A v \in Workers : v # w => batch'[v] = batch[v]
    BY <1>3 DEF Send, rowVars
  <2>2. CASE m = n
    <3>1. w \in Holders(m) /\ Holders(m)' = Holders(m) \ {w}
      BY <1>3, <2>1, <2>2 DEF Send, Holders
    <3>2. delivered'[m] \in {delivered[m], delivered[m] + 1}
      BY <1>3, <2>2 DEF Send
    <3> QED
      BY <1>0, <2>1, <3>1, <3>2, ClaimsKept
  <2>3. CASE m # n
    <3>1. Holders(m)' = Holders(m) /\ delivered'[m] = delivered[m]
      BY <1>3, <2>1, <2>3 DEF Send, Holders
    <3> QED
      BY <1>0, <2>1, <3>1, ClaimsKept
  <2> QED
    BY <2>2, <2>3
<1>4. ASSUME NEW w \in Workers, RecordSent(w) \/ RecordFailed(w) \/ RecordIsLost(w)
      PROVE ClaimsCover(m)'
  BY <1>1, <1>4 DEF RecordSent, RecordFailed, RecordIsLost, Proceed, telegram, rowVars
<1>5. ASSUME NEW w \in Workers, WorkerDies(w) PROVE ClaimsCover(m)'
  <2>1. Holders(m)' \subseteq Holders(m)
    BY <1>5 DEF WorkerDies, Holders
  <2> QED
    BY <1>0, <1>5, <2>1, ClaimsKept DEF WorkerDies, rowVars, telegram
<1> QED
  BY <1>0, <1>2, <1>3, <1>4, <1>5, ClaimsAfterClaim DEF OutboxNext, Dispatch

\* However many workers overlap, crash and reclaim each other's rows, nobody gets more
\* copies of a message than its row counts attempts.
THEOREM CopiesAreCounted == OutboxSpec => []DeliveriesAreCounted
<1>1. IInv /\ ClaimsInv => DeliveriesAreCounted
  <2> SUFFICES ASSUME IInv, NEW m \in Messages, ClaimsCover(m)
               PROVE delivered[m] <= attempts[m]
    BY DEF ClaimsInv, DeliveriesAreCounted
  <2> QED
    BY FS_CardinalityType DEF ClaimsCover, IInv, OutboxTypeOK
<1> QED
  BY <1>1, InitClaims, ClaimsStep, InvHolds, PTL DEF OutboxSpec

-----------------------------------------------------------------------------
(* With one worker, the outbox implements Delivery.  The worker owns the   *)
(* rows it holds: nobody reclaims them, so no end it records is undone.    *)

WorksAlone == \A a, b \in Workers : a = b

Owned ==
  \A w \in Workers, m \in Messages :
    /\ m \in batch[w] \/ sending[w] = m => status[m] = "processing"
    /\ sending[w] = m => m \notin batch[w]

OInv == IInv /\ Owned

LEMMA PhaseOfStatus ==
  /\ PhaseOf["none"] = "new"
  /\ PhaseOf["pending"] = "queued"
  /\ PhaseOf["processing"] = "queued"
  /\ PhaseOf["sent"] = "finished"
  /\ PhaseOf["dead"] = "given_up"
  BY DEF PhaseOf

LEMMA NextOwned ==
  ASSUME WorksAlone, OInv, [OutboxNext]_outboxVars
  PROVE Owned'
<1> USE DEF OInv, IInv, OutboxTypeOK, Owned, WorksAlone
<1>1. ASSUME NEW m \in Messages, Enqueue(m) \/ BackoffPasses(m) \/ TimeoutPasses(m)
      PROVE Owned'
  BY <1>1 DEF Enqueue, BackoffPasses, TimeoutPasses, workerVars
<1>2. ASSUME NEW w \in Workers, Claim(w) PROVE Owned'
  <2>1. PICK S \in SUBSET Messages : ClaimRows(w, S)
    BY <1>2 DEF Claim, Backlog
  <2>2. sending[w] = Nothing /\ UNCHANGED sending
    BY <1>2 DEF Claim, IdleWorker
  <2> QED
    BY <2>1, <2>2, NothingAssumption DEF ClaimRows
<1>3. ASSUME NEW w \in Workers, NEW m \in Messages, NEW a \in Answers \ {"none"},
             Send(w, m, a)
      PROVE Owned'
  BY <1>3, NothingAssumption DEF Send, rowVars
<1>4. ASSUME NEW w \in Workers, RecordSent(w) \/ RecordFailed(w) PROVE Owned'
  BY <1>4, NothingAssumption DEF RecordSent, RecordFailed, Proceed
<1>5. ASSUME NEW w \in Workers, RecordIsLost(w) \/ WorkerDies(w) PROVE Owned'
  BY <1>5, NothingAssumption DEF RecordIsLost, WorkerDies, Proceed, rowVars
<1>6. CASE UNCHANGED outboxVars
  BY <1>6 DEF outboxVars, rowVars, workerVars
<1> QED
  BY <1>1, <1>2, <1>3, <1>4, <1>5, <1>6 DEF OutboxNext, Clock, Dispatch

\* What one step of the outbox is to Delivery.
phases == [m \in Messages |-> Phase(m)]
gotten == {m \in Messages : delivered[m] > 0}

LEMMA QuietStep ==
  ASSUME \A m \in Messages : Phase(m)' = Phase(m), delivered' = delivered
  PROVE UNCHANGED D!vars
  BY DEF D!vars

LEMMA PhaseStep ==
  ASSUME OutboxTypeOK, NEW m \in Messages, NEW st \in Statuses,
         status' = [status EXCEPT ![m] = st], delivered' = delivered
  PROVE /\ phases' = [phases EXCEPT ![m] = PhaseOf[st]]
        /\ phases[m] = PhaseOf[status[m]]
        /\ gotten' = gotten
<1>1. \A n \in Messages : status'[n] = IF n = m THEN st ELSE status[n]
  BY DEF OutboxTypeOK
<1>2. \A n \in Messages : Phase(n)' = IF n = m THEN PhaseOf[st] ELSE Phase(n)
  BY <1>1 DEF Phase
<1> QED
  BY <1>2 DEF phases, gotten, Phase

LEMMA StepRefines ==
  ASSUME OInv, [OutboxNext]_outboxVars
  PROVE [D!Next]_(D!vars)
<1> USE DEF OInv, IInv
<1>1. ASSUME NEW m \in Messages, Enqueue(m) PROVE D!Next
  <2>1. phases' = [phases EXCEPT ![m] = "queued"] /\ phases[m] = "new" /\ gotten' = gotten
    BY <1>1, PhaseStep, PhaseOfStatus DEF Enqueue, Statuses, telegram
  <2>2. D!Queue(m)
    BY <2>1 DEF D!Queue, D!Move, phases, gotten
  <2> QED
    BY <2>2 DEF D!Next
<1>2. ASSUME NEW m \in Messages, BackoffPasses(m) \/ TimeoutPasses(m)
      PROVE UNCHANGED D!vars
  BY <1>2, QuietStep DEF BackoffPasses, TimeoutPasses, telegram, Phase
<1>3. ASSUME NEW w \in Workers, Claim(w) PROVE UNCHANGED D!vars
  <2>1. PICK S \in SUBSET Backlog : ClaimRows(w, S)
    BY <1>3 DEF Claim
  <2>2. \A m \in S : status[m] \in {"pending", "processing"}
    BY <2>1 DEF Backlog, Claimable
  <2>3. \A m \in Messages : Phase(m)' = Phase(m)
    BY <2>1, <2>2, PhaseOfStatus DEF ClaimRows, Phase
  <2> QED
    BY <1>3, <2>3, QuietStep DEF Claim, telegram
<1>4. ASSUME NEW w \in Workers, NEW m \in Messages, NEW a \in Answers \ {"none"},
             Send(w, m, a)
      PROVE D!Next \/ UNCHANGED D!vars
  <2>1. phases' = phases /\ status[m] = "processing"
    BY <1>4 DEF Send, rowVars, phases, Phase, Owned
  <2>2. CASE UNCHANGED delivered
    BY <1>4, <2>2, QuietStep DEF Send, rowVars, Phase
  <2>3. CASE delivered' = [delivered EXCEPT ![m] = @ + 1]
    <3>1. gotten' = gotten \cup {m}
      BY <2>3 DEF gotten, OutboxTypeOK
    <3>2. phases[m] = "queued"
      BY <2>1, PhaseOfStatus DEF phases, Phase
    <3>3. D!Arrive(m)
      BY <2>1, <3>1, <3>2 DEF D!Arrive, phases, gotten
    <3> QED
      BY <3>3 DEF D!Next
  <2> QED
    BY <1>4, <2>2, <2>3 DEF Send
<1>5. ASSUME NEW w \in Workers, RecordSent(w) PROVE D!Next
  <2> DEFINE m == sending[w]
  <2>1. m \in Messages /\ status[m] = "processing" /\ delivered[m] > 0
    BY <1>5 DEF RecordSent, InHand, Owned, OutboxTypeOK
  <2>2. status' = [status EXCEPT ![m] = "sent"] /\ delivered' = delivered
    BY <1>5 DEF RecordSent, Proceed, telegram
  <2> HIDE DEF m
  <2>3. phases' = [phases EXCEPT ![m] = "finished"] /\ phases[m] = "queued" /\ gotten' = gotten
    BY <2>1, <2>2, PhaseStep, PhaseOfStatus DEF Statuses
  <2>4. D!Finish(m)
    BY <2>1, <2>3 DEF D!Finish, D!Move, phases, gotten
  <2> QED
    BY <2>1, <2>4 DEF D!Next
<1>6. ASSUME NEW w \in Workers, RecordFailed(w) PROVE D!Next \/ UNCHANGED D!vars
  <2> DEFINE m == sending[w]
  <2>1. m \in Messages /\ status[m] = "processing" /\ UNCHANGED delivered
    BY <1>6 DEF RecordFailed, InHand, Owned, OutboxTypeOK, Proceed, telegram
  <2>2. CASE Hopeless(m, answer[w])
    <3>1. status' = [status EXCEPT ![m] = "dead"] /\ delivered' = delivered
      BY <1>6, <2>1, <2>2 DEF RecordFailed
    <3> HIDE DEF m
    <3>2. phases' = [phases EXCEPT ![m] = "given_up"] /\ phases[m] = "queued" /\ gotten' = gotten
      BY <2>1, <3>1, PhaseStep, PhaseOfStatus DEF Statuses
    <3>3. D!GiveUp(m)
      BY <3>2 DEF D!GiveUp, D!Move, phases, gotten
    <3> QED
      BY <2>1, <3>3 DEF D!Next
  <2>3. CASE ~Hopeless(m, answer[w])
    <3>1. status' = [status EXCEPT ![m] = "pending"]
      BY <1>6, <2>3 DEF RecordFailed
    <3>2. \A n \in Messages : Phase(n)' = Phase(n)
      BY <2>1, <3>1, PhaseOfStatus DEF Phase, OutboxTypeOK
    <3> QED
      BY <2>1, <3>2, QuietStep
  <2> QED
    BY <2>2, <2>3
<1>7. ASSUME NEW w \in Workers, RecordIsLost(w) \/ WorkerDies(w) PROVE UNCHANGED D!vars
  BY <1>7, QuietStep DEF RecordIsLost, WorkerDies, Proceed, telegram, rowVars, Phase
<1>8. CASE UNCHANGED outboxVars
  BY <1>8, QuietStep DEF outboxVars, rowVars, telegram, Phase
<1> QED
  BY <1>1, <1>2, <1>3, <1>4, <1>5, <1>6, <1>7, <1>8 DEF OutboxNext, Clock, Dispatch

\* A single worker makes the outbox an at-least-once delivery with final ends,
\* whatever the crashes; with two workers a late failure may undo "sent".
THEOREM OneWorkerRefines ==
  ASSUME WorksAlone
  PROVE OutboxSpec => ImplementsDelivery
<1>1. OutboxInit => D!Init
  BY PhaseOfStatus DEF OutboxInit, D!Init, Phase
<1>2. OutboxInit => OInv
  BY InitInv, NothingAssumption DEF OutboxInit, OInv, Owned
<1>3. OInv /\ [OutboxNext]_outboxVars => OInv'
  BY NextInv, NextOwned DEF OInv
<1>4. OInv /\ [OutboxNext]_outboxVars => [D!Next]_(D!vars)
  BY StepRefines
<1> QED
  BY <1>1, <1>2, <1>3, <1>4, PTL DEF OutboxSpec, ImplementsDelivery, D!Spec
=============================================================================
