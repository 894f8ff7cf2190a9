----------------------------- MODULE DesksProofs -----------------------------
(***************************************************************************)
(* Theorems about the components that lock the row of a user, for any      *)
(* number of users, transactions and workers.                              *)
(***************************************************************************)
EXTENDS MCDesks, FiniteSetTheorems, TLAPS

(***************************************************************************)
(* Wallets.  The inductive invariant says what a lock is worth: a          *)
(* transaction that is locked holds the row of its user, and of the        *)
(* inviter it is about to pay, so the copy of the inviter's row is the     *)
(* row; nothing is known of the copy of the user's own row, which may have *)
(* been read before the lock.                                              *)
(***************************************************************************)
RowType == [bal : Nat, trial : BOOLEAN, paid : BOOLEAN, erased : BOOLEAN]
DealType == [op : Operations \cup {"none"}, user : People \cup {NoPerson},
             other : People \cup {NoPerson}, at : {"idle", "copied", "fresh", "locked"},
             copy : RowType, otherCopy : RowType]

WalletTypes ==
  /\ row \in [People -> RowType]
  /\ referral \in [People -> People \cup {NoPerson}]
  /\ activeRef \subseteq People
  /\ trialSub \subseteq People
  /\ rowHolder \in [People -> Desks \cup {NoDesk}]
  /\ deal \in [Desks -> DealType]
  /\ deals \in 0 .. MaxDeals

HistoryTypes ==
  /\ book \in [People -> Int] /\ spared \in [People -> Int]
  /\ outdated \subseteq People
  /\ bonuses \in [People -> Nat] /\ trials \in [People -> Nat]
  /\ resets \in [People -> Nat] /\ endings \in [People -> Nat]

\* What a transaction knows at each of its stages.
Knows(s) ==
  /\ deal[s].at # "idle" => deal[s].user \in People
  /\ deal[s].at # "locked" => deal[s].other = NoPerson
  /\ deal[s].at = "locked" => rowHolder[deal[s].user] = s
  /\ deal[s].other # NoPerson =>
       /\ deal[s].other # deal[s].user
       /\ rowHolder[deal[s].other] = s
       /\ deal[s].otherCopy = row[deal[s].other]

LocksHeld ==
  /\ \A s \in Desks : Knows(s)
  /\ \A u \in People : rowHolder[u] # NoDesk => deal[rowHolder[u]].at = "locked"
  /\ \A u \in People : referral[u] # u

\* The trials of a user: each was refused while another lived, and unless a copy was
\* outdated the flag tells the ones that no reset has taken back.
TrialsOf(u) ==
  /\ trials[u] = endings[u] + (IF u \in trialSub THEN 1 ELSE 0)
  /\ u \notin outdated => trials[u] = resets[u] + (IF row[u].trial THEN 1 ELSE 0)

BonusOf(u) == bonuses[u] <= 1 /\ (bonuses[u] > 0 => u \in activeRef)

Accounts ==
  /\ BalanceIsBooked
  /\ \A u \in People : TrialsOf(u) /\ BonusOf(u)

WalletInv == WalletTypes /\ HistoryTypes /\ LocksHeld /\ Accounts

USE WalletsAssumption, SpareNamesAssumption

LEMMA FreshRowType == FreshRow \in RowType
  BY DEF FreshRow, RowType

LEMMA NoDealType ==
  /\ NoDeal \in DealType /\ NoDeal.at = "idle" /\ NoDeal.other = NoPerson
  BY FreshRowType DEF NoDeal, DealType

LEMMA WalletInitInv == WalletInit => WalletInv
<1> SUFFICES ASSUME WalletInit PROVE WalletInv
  OBVIOUS
<1> USE DEF WalletInit
<1>1. WalletTypes
  BY FreshRowType, NoDealType DEF WalletTypes
<1>2. HistoryTypes
  BY DEF HistoryTypes
<1>3. LocksHeld
  BY NoDealType DEF LocksHeld, Knows
<1>4. Accounts
  BY DEF Accounts, BalanceIsBooked, TrialsOf, BonusOf, FreshRow
<1> QED
  BY <1>1, <1>2, <1>3, <1>4 DEF WalletInv

\* A step that leaves the rows and what was booked alone.
LEMMA AccountsKept ==
  ASSUME WalletInv, UNCHANGED <<walletRows, walletHistory>>
  PROVE Accounts' /\ HistoryTypes'
  BY DEF WalletInv, Accounts, BalanceIsBooked, TrialsOf, BonusOf, HistoryTypes, walletRows,
         walletHistory

LEMMA BeginInv ==
  ASSUME WalletInv, NEW s \in Desks, NEW u \in People, NEW op \in Operations,
         NEW at \in {"copied", "fresh"}, BeginDeal(s, u, op, at)
  PROVE WalletInv'
<1> USE DEF WalletInv, WalletTypes, LocksHeld, BeginDeal, walletRows
<1> DEFINE d == [deal[s] EXCEPT !.op = op, !.user = u, !.at = at, !.copy = row[u]]
<1>1. /\ d \in DealType /\ d.at = at /\ d.user = u /\ d.other = NoPerson
  BY NoDealType DEF DealType
<1>2. deal' = [deal EXCEPT ![s] = d]
  BY DEF DealType
<1> HIDE DEF d
<1>3. WalletTypes'
  <2>1. deal' \in [Desks -> DealType]
    BY <1>1, <1>2
  <2>2. deals' \in 0 .. MaxDeals
    OBVIOUS
  <2>3. UNCHANGED <<row, referral, activeRef, trialSub, rowHolder>>
    OBVIOUS
  <2> QED
    BY <2>1, <2>2, <2>3
<1>4. \A t \in Desks : deal'[t] = IF t = s THEN d ELSE deal[t]
  BY <1>2
<1>5. deal[s].at = "idle"
  BY NoDealType
<1>6. LocksHeld'
  BY <1>1, <1>4, <1>5 DEF Knows
<1> QED
  BY <1>3, <1>6, AccountsKept

\* A transaction that ends lets go of what it locked, and of nothing else.
LEMMA ReleaseEffects ==
  ASSUME WalletInv, NEW s \in Desks, ReleaseRows(s)
  PROVE /\ deal' \in [Desks -> DealType] /\ rowHolder' \in [People -> Desks \cup {NoDesk}]
        /\ deal'[s] = NoDeal
        /\ \A t \in Desks \ {s} : deal'[t] = deal[t]
        /\ \A u \in People : /\ rowHolder[u] # s => rowHolder'[u] = rowHolder[u]
                             /\ rowHolder'[u] # NoDesk => rowHolder'[u] = rowHolder[u] /\ rowHolder[u] # s
<1> USE DEF WalletInv, WalletTypes, ReleaseRows
<1>1. deal' \in [Desks -> DealType] /\ deal'[s] = NoDeal
      /\ \A t \in Desks \ {s} : deal'[t] = deal[t]
  BY NoDealType
<1> QED
  BY <1>1

\* What the others know survives: the rows they rely on are theirs.
LEMMA LocksAfterRelease ==
  ASSUME WalletInv, NEW s \in Desks, ReleaseRows(s),
         \A u \in People : rowHolder[u] \notin {s, NoDesk} => row'[u] = row[u],
         \A u \in People : referral'[u] # u
  PROVE LocksHeld'
<1> USE DEF WalletInv, WalletTypes, LocksHeld
<1>1. /\ deal'[s] = NoDeal
      /\ \A t \in Desks \ {s} : deal'[t] = deal[t]
      /\ \A u \in People : /\ rowHolder[u] # s => rowHolder'[u] = rowHolder[u]
                           /\ rowHolder'[u] # NoDesk => rowHolder'[u] = rowHolder[u] /\ rowHolder[u] # s
  BY ReleaseEffects
<1>2. Knows(s)'
  BY <1>1, NoDealType DEF Knows
<1>3. ASSUME NEW t \in Desks \ {s} PROVE Knows(t)'
  <2>1. deal[t].user \in People \cup {NoPerson} /\ deal[t].other \in People \cup {NoPerson}
    BY DEF DealType
  <2>2. Knows(t) /\ deal'[t] = deal[t]
    BY <1>1
  <2>3. deal[t].other # NoPerson =>
          rowHolder'[deal[t].other] = t /\ row'[deal[t].other] = row[deal[t].other]
    BY <1>1, <2>1, <2>2 DEF Knows
  <2>4. deal[t].at = "locked" => rowHolder'[deal[t].user] = t
    BY <1>1, <2>1, <2>2 DEF Knows
  <2> QED
    BY <2>2, <2>3, <2>4 DEF Knows
<1>4. ASSUME NEW u \in People, rowHolder'[u] # NoDesk PROVE deal'[rowHolder'[u]].at = "locked"
  BY <1>1, <1>4
<1> QED
  BY <1>2, <1>3, <1>4

LEMMA RollBackInv ==
  ASSUME WalletInv, NEW s \in Desks, RollBack(s) \/ DeadlockIsBroken(s)
  PROVE WalletInv'
<1>1. ReleaseRows(s) /\ UNCHANGED <<walletRows, deals, walletHistory>>
  BY DEF RollBack, DeadlockIsBroken
<1>2. LocksHeld'
  BY <1>1, LocksAfterRelease DEF walletRows, WalletInv, LocksHeld
<1>3. WalletTypes'
  BY <1>1, ReleaseEffects DEF WalletInv, WalletTypes, walletRows
<1> QED
  BY <1>1, <1>2, <1>3, AccountsKept DEF WalletInv

LEMMA LockUserInv ==
  ASSUME WalletInv, NEW s \in Desks, LockUser(s)
  PROVE WalletInv'
<1> USE DEF WalletInv, WalletTypes, LocksHeld, walletRows
<1> DEFINE u == deal[s].user
           c == IF deal[s].at = "fresh" THEN row[u] ELSE deal[s].copy
           d == [deal[s] EXCEPT !.at = "locked", !.copy = c]
<1>1. u \in People /\ deal[s].other = NoPerson /\ deal[s].at # "locked" /\ rowHolder[u] \in {NoDesk, s}
  BY DEF LockUser, LockRow, Knows
<1>a. c \in RowType /\ deal[s] \in DealType
  BY <1>1 DEF DealType
<1>b. deal' = [deal EXCEPT ![s].at = "locked", ![s].copy = c]
  BY <1>a DEF LockUser, DealType
<1>c. deal' = [deal EXCEPT ![s] = d]
  BY <1>a, <1>b DEF DealType
<1>2. d \in DealType /\ d.at = "locked" /\ d.user = u /\ d.other = NoPerson
  <2> HIDE DEF c
  <2> QED
    BY <1>1, <1>a DEF DealType
<1>3. deal' = [deal EXCEPT ![s] = d] /\ rowHolder' = [rowHolder EXCEPT ![u] = s]
      /\ UNCHANGED <<walletRows, deals, walletHistory>>
  BY <1>c DEF LockUser, LockRow
<1>4. rowHolder[u] = NoDesk
  BY <1>1
<1> HIDE DEF d, c, u
<1>5. /\ \A t \in Desks : deal'[t] = IF t = s THEN d ELSE deal[t]
      /\ \A v \in People : rowHolder'[v] = IF v = u THEN s ELSE rowHolder[v]
  BY <1>3
<1>6. WalletTypes'
  BY <1>1, <1>2, <1>3
<1>7. \A t \in Desks : Knows(t)'
  <2>1. Knows(s)'
    BY <1>1, <1>2, <1>5 DEF Knows
  <2>2. ASSUME NEW t \in Desks \ {s} PROVE Knows(t)'
    <3>1. deal[t].other \in People \cup {NoPerson}
      BY DEF DealType
    <3> QED
      BY <1>3, <1>4, <1>5, <3>1 DEF Knows
  <2> QED
    BY <2>1, <2>2
<1>8. \A v \in People : rowHolder'[v] # NoDesk => deal'[rowHolder'[v]].at = "locked"
  BY <1>2, <1>5
<1>9. LocksHeld'
  BY <1>3, <1>7, <1>8
<1> QED
  BY <1>3, <1>6, <1>9, AccountsKept

LEMMA LockInviterInv ==
  ASSUME WalletInv, NEW s \in Desks, NEW v \in People, LockInviter(s, v)
  PROVE WalletInv'
<1> USE DEF WalletInv, WalletTypes, LocksHeld, walletRows
<1> DEFINE d == [deal[s] EXCEPT !.other = v, !.otherCopy = row[v]]
<1>1. deal[s].at = "locked" /\ deal[s].other = NoPerson /\ rowHolder[v] \in {NoDesk, s}
      /\ deal[s].user \in People /\ rowHolder[deal[s].user] = s
  BY DEF LockInviter, WantsOther, LockRow, Knows
<1>2. v # deal[s].user
  BY <1>1 DEF LockInviter, WantsOther, Activates
<1>a. deal[s] \in DealType /\ row[v] \in RowType
  OBVIOUS
<1>3. /\ d \in DealType /\ d.at = "locked" /\ d.user = deal[s].user /\ d.other = v
      /\ d.otherCopy = row[v]
  <2>1. d \in DealType
    BY <1>a DEF DealType
  <2> QED
    BY <1>1, <1>a DEF DealType
<1>4. deal' = [deal EXCEPT ![s] = d] /\ rowHolder' = [rowHolder EXCEPT ![v] = s]
      /\ UNCHANGED <<walletRows, deals, walletHistory>>
  BY DEF LockInviter, LockRow, DealType
<1> HIDE DEF d
<1>5. /\ \A t \in Desks : deal'[t] = IF t = s THEN d ELSE deal[t]
      /\ \A w \in People : rowHolder'[w] = IF w = v THEN s ELSE rowHolder[w]
  BY <1>4
<1>6. WalletTypes'
  BY <1>3, <1>4
<1>7. \A t \in Desks : Knows(t)'
  <2>1. Knows(s)'
    BY <1>1, <1>2, <1>3, <1>4, <1>5 DEF Knows
  <2>2. ASSUME NEW t \in Desks \ {s} PROVE Knows(t)'
    <3>1. deal[t].other \in People \cup {NoPerson}
      BY DEF DealType
    <3> QED
      BY <1>1, <1>4, <1>5, <3>1 DEF Knows
  <2> QED
    BY <2>1, <2>2
<1>8. \A w \in People : rowHolder'[w] # NoDesk => deal'[rowHolder'[w]].at = "locked"
  BY <1>3, <1>5
<1>9. LocksHeld'
  BY <1>4, <1>7, <1>8
<1> QED
  BY <1>4, <1>6, <1>9, AccountsKept

LEMMA TrialEndsInv ==
  ASSUME WalletInv, NEW u \in People, TrialEnds(u)
  PROVE WalletInv'
<1> USE DEF WalletInv, TrialEnds
<1>1. WalletTypes'
  BY DEF WalletTypes
<1>2. LocksHeld'
  BY DEF LocksHeld, Knows
<1>3. HistoryTypes'
  BY DEF HistoryTypes
<1>4. Accounts'
  BY DEF Accounts, BalanceIsBooked, TrialsOf, BonusOf, HistoryTypes
<1> QED
  BY <1>1, <1>2, <1>3, <1>4

\* A merge has each column from the row or from what the session has made.
LEMMA MergedType ==
  ASSUME WalletInv, NEW u \in People, NEW old \in RowType, NEW new \in RowType
  PROVE /\ Merged(u, old, new) \in RowType
        /\ Merged(u, old, new).bal = IF new.bal = old.bal THEN row[u].bal ELSE new.bal
        /\ Merged(u, old, new).trial = IF new.trial = old.trial THEN row[u].trial ELSE new.trial
<1>1. row[u] \in RowType
  BY DEF WalletInv, WalletTypes
<1>2. DOMAIN FreshRow = {"bal", "trial", "paid", "erased"}
  BY DEF FreshRow
<1> QED
  BY <1>1, <1>2 DEF Merged, RowType

LEMMA NewRowType ==
  ASSUME NEW d \in DealType
  PROVE NewRow(d) \in RowType /\ Booked(d) \in {-2, -1, 0, 1}
<1>1. d.copy \in RowType
  BY DEF DealType
<1>2. Booked(d) \in {-2, -1, 0, 1}
  BY DEF Booked
<1>3. AtLeastZero(d.copy.bal + Booked(d)) \in Nat
  BY <1>1, <1>2 DEF AtLeastZero, RowType
<1> QED
  BY <1>1, <1>2, <1>3 DEF NewRow, RowType

\* The cases of Booked one at a time.
LEMMA BookedValues ==
  ASSUME NEW d
  PROVE /\ d.op \in {"promo", "credit", "increase"} => Booked(d) = 1
        /\ d.op = "spend" => Booked(d) = -1
        /\ d.op \in {"decrease", "menu decrease"} => Booked(d) = -2
        /\ Activates(d) => Booked(d) = 1
        /\ d.op \in Purchases /\ ~Activates(d) => Booked(d) = 0
        /\ d.op \notin Purchases \cup {"promo", "credit", "increase", "spend", "decrease", "menu decrease"}
             => Booked(d) = 0
<1>1. d.op \in {"promo", "credit", "increase"} => Booked(d) = 1
  BY DEF Booked, Purchases
<1>2. d.op = "spend" => Booked(d) = -1
  BY DEF Booked, Purchases
<1>3. d.op \in {"decrease", "menu decrease"} => Booked(d) = -2
  BY DEF Booked, Purchases
<1>4. Activates(d) => Booked(d) = 1
  BY DEF Booked, Purchases, Activates
<1>5. d.op \in Purchases /\ ~Activates(d) => Booked(d) = 0
  BY DEF Booked, Purchases
<1>6. d.op \notin Purchases \cup {"promo", "credit", "increase", "spend", "decrease", "menu decrease"}
             => Booked(d) = 0
  BY DEF Booked, Purchases
<1> QED
  BY <1>1, <1>2, <1>3, <1>4, <1>5, <1>6

LEMMA CommitInv ==
  ASSUME WalletInv, NEW s \in Desks, CommitDeal(s)
  PROVE WalletInv'
<1> DEFINE d == deal[s]
           u == d.user
           new == NewRow(d)
           merged == Merged(u, d.copy, new)
           bonus == Activates(d)
           undone == d.op = "trial reset" /\ d.copy.trial
<1>1. /\ d \in DealType /\ u \in People /\ rowHolder[u] = s /\ d.copy \in RowType
      /\ ReleaseRows(s)
  <2>1. d \in DealType /\ d.at = "locked" /\ Knows(s)
    BY DEF CommitDeal, WalletInv, WalletTypes, LocksHeld
  <2> QED
    BY <2>1 DEF DealType, Knows, CommitDeal
<1>2. /\ new \in RowType /\ Booked(d) \in {-2, -1, 0, 1} /\ merged \in RowType
      /\ merged.bal = IF new.bal = d.copy.bal THEN row[u].bal ELSE new.bal
      /\ merged.trial = IF new.trial = d.copy.trial THEN row[u].trial ELSE new.trial
  BY <1>1, NewRowType, MergedType
<1>3. bonus => /\ d.other \in People /\ d.other # u /\ rowHolder[d.other] = s
               /\ d.otherCopy = row[d.other]
  BY <1>1 DEF CommitDeal, DealType, WalletInv, LocksHeld, Knows
<1>4. Binds(d) => d.other \in People /\ d.other # u
  BY <1>1 DEF CommitDeal, DealType, WalletInv, LocksHeld, Knows
<1>5. /\ row' \in [People -> RowType]
      /\ row'[u] = merged
      /\ \A v \in People \ {u} :
           /\ row'[v].bal = row[v].bal + (IF bonus /\ v = d.other THEN 1 ELSE 0)
           /\ row'[v].trial = row[v].trial
           /\ rowHolder[v] # s => row'[v] = row[v]
  <2>1. row' = [v \in People |->
                  IF v = u THEN merged
                  ELSE IF bonus /\ v = d.other THEN [row[v] EXCEPT !.bal = d.otherCopy.bal + 1]
                  ELSE row[v]]
    BY DEF CommitDeal
  <2>2. row \in [People -> RowType] /\ \A v \in People : row[v] \in RowType
    BY DEF WalletInv, WalletTypes
  <2> HIDE DEF d, u, merged, bonus
  <2>3. ASSUME NEW v \in People \ {u}
        PROVE /\ row'[v] \in RowType
              /\ row'[v].bal = row[v].bal + (IF bonus /\ v = d.other THEN 1 ELSE 0)
              /\ row'[v].trial = row[v].trial
              /\ rowHolder[v] # s => row'[v] = row[v]
    <3>1. CASE bonus /\ v = d.other
      BY <1>3, <2>1, <2>2, <3>1 DEF RowType
    <3>2. CASE ~(bonus /\ v = d.other)
      BY <2>1, <2>2, <3>2 DEF RowType
    <3> QED
      BY <3>1, <3>2
  <2>4. row'[u] = merged
    BY <1>1, <2>1
  <2> QED
    BY <1>2, <2>1, <2>3, <2>4
<1>6. \A v \in People : referral'[v] \in People \cup {NoPerson} /\ referral'[v] # v
  BY <1>1, <1>4 DEF CommitDeal, WalletInv, WalletTypes, LocksHeld
<1>7. WalletTypes'
  <2>1. referral' \in [People -> People \cup {NoPerson}]
    BY <1>1, <1>4 DEF CommitDeal, WalletInv, WalletTypes
  <2>2. activeRef' \subseteq People /\ trialSub' \subseteq People
    BY <1>1 DEF CommitDeal, ActivatedBy, WalletInv, WalletTypes
  <2>3. deal' \in [Desks -> DealType] /\ rowHolder' \in [People -> Desks \cup {NoDesk}]
    BY <1>1, ReleaseEffects
  <2>4. deals' \in 0 .. MaxDeals
    BY DEF CommitDeal, WalletInv, WalletTypes
  <2> QED
    BY <1>5, <2>1, <2>2, <2>3, <2>4 DEF WalletTypes
<1>8. LocksHeld'
  <2>1. ASSUME NEW v \in People, rowHolder[v] \notin {s, NoDesk} PROVE row'[v] = row[v]
    BY <1>1, <1>5, <2>1
  <2> QED
    BY <1>1, <1>6, <2>1, LocksAfterRelease
<1>9. u \in outdated' \/ (u \notin outdated /\ row[u] = d.copy)
  BY <1>1 DEF CommitDeal, Stale, WalletInv, HistoryTypes
<1>10. outdated \subseteq outdated' /\ outdated' \subseteq People
  BY <1>1 DEF CommitDeal, WalletInv, HistoryTypes
<1>11. new.bal = IF d.op \in Erasures THEN 0 ELSE AtLeastZero(d.copy.bal + Booked(d))
  BY DEF NewRow
<1>t. new.trial = IF d.op = "trial reset" THEN FALSE ELSE d.copy.trial \/ d.op = "trial"
  BY DEF NewRow
<1>12. /\ book' = [v \in People |->
                book[v] + (IF v = u THEN Booked(d) ELSE 0)
                        + (IF bonus /\ v = d.other THEN 1 ELSE 0)
                        - (IF v = u /\ d.op \in Erasures THEN d.copy.bal ELSE 0)]
       /\ spared' = IF d.op = "decrease"
                    THEN [spared EXCEPT ![u] = @ + new.bal - (d.copy.bal - 2)]
                    ELSE spared
  BY DEF CommitDeal
<1>b. /\ bonuses' = IF bonus THEN [bonuses EXCEPT ![u] = @ + 1] ELSE bonuses
      /\ activeRef' = IF bonus THEN activeRef \cup {u} ELSE activeRef
  BY DEF CommitDeal, ActivatedBy
<1>g. trials' = IF d.op = "trial" THEN [trials EXCEPT ![u] = @ + 1] ELSE trials
  BY DEF CommitDeal
<1>r. resets' = IF undone THEN [resets EXCEPT ![u] = @ + 1] ELSE resets
  BY DEF CommitDeal
<1>e. endings' = IF d.op \in Erasures /\ u \in trialSub
                 THEN [endings EXCEPT ![u] = @ + 1] ELSE endings
  BY DEF CommitDeal
<1>s. trialSub' = IF d.op = "trial" THEN trialSub \cup {u}
                  ELSE IF d.op \in Erasures THEN trialSub \ {u} ELSE trialSub
  <2>1. trialSub' = CASE d.op = "trial" -> trialSub \cup {u}
                      [] d.op \in Erasures -> trialSub \ {u}
                      [] OTHER -> trialSub
    BY DEF CommitDeal
  <2>2. "trial" \notin Erasures
    BY DEF Erasures
  <2> HIDE DEF d, u
  <2> QED
    BY <2>1, <2>2, Zenon
<1>m. (d.op = "spend" => d.copy.bal >= 1) /\ (d.op = "menu decrease" => d.copy.bal >= 2)
  BY DEF CommitDeal, Accepted, Covered
<1>14. d.op = "trial" => ~d.copy.trial /\ u \notin trialSub
  BY DEF CommitDeal, Accepted, TrialAllowed
<1>a. bonus => u \notin activeRef
  BY DEF Activates
<1>15. /\ WalletTypes /\ HistoryTypes /\ BalanceIsBooked
       /\ \A v \in People : TrialsOf(v) /\ BonusOf(v)
  BY DEF WalletInv, Accounts
<1>u. undone <=> d.op = "trial reset" /\ d.copy.trial
  OBVIOUS
<1> HIDE DEF d, u, new, merged, bonus, undone
<1>16. HistoryTypes'
  <2>1. book' \in [People -> Int]
    BY <1>1, <1>2, <1>12, <1>15 DEF HistoryTypes, RowType
  <2>2. spared' \in [People -> Int]
    BY <1>1, <1>2, <1>12, <1>15 DEF HistoryTypes, RowType
  <2>3. bonuses' \in [People -> Nat]
    BY <1>1, <1>b, <1>15 DEF HistoryTypes
  <2>4. trials' \in [People -> Nat]
    BY <1>1, <1>g, <1>15 DEF HistoryTypes
  <2>5. resets' \in [People -> Nat]
    BY <1>1, <1>r, <1>15 DEF HistoryTypes
  <2>6. endings' \in [People -> Nat]
    BY <1>1, <1>e, <1>15 DEF HistoryTypes
  <2> QED
    BY <1>10, <2>1, <2>2, <2>3, <2>4, <2>5, <2>6 DEF HistoryTypes
<1>17. BalanceIsBooked'
  <2>1. ASSUME NEW v \in People \ {u}, v \notin outdated'
        PROVE row'[v].bal = book'[v] + spared'[v]
    <3>1. row[v].bal = book[v] + spared[v] /\ row[v].bal \in Nat
      BY <1>10, <1>15, <2>1 DEF BalanceIsBooked, WalletTypes, RowType
    <3>2. /\ book'[v] = book[v] + (IF bonus /\ v = d.other THEN 1 ELSE 0)
          /\ spared'[v] = spared[v] /\ book[v] \in Int /\ spared[v] \in Int
      BY <1>12, <1>15 DEF HistoryTypes
    <3>3. row'[v].bal = row[v].bal + (IF bonus /\ v = d.other THEN 1 ELSE 0)
      BY <1>5
    <3> QED
      BY <3>1, <3>2, <3>3
  <2>2. ASSUME u \notin outdated'
        PROVE row'[u].bal = book'[u] + spared'[u]
    <3>1. d.copy.bal = book[u] + spared[u] /\ d.copy.bal \in Nat /\ new.bal \in Nat
          /\ book[u] \in Int /\ spared[u] \in Int
      BY <1>1, <1>2, <1>9, <1>15, <2>2 DEF BalanceIsBooked, HistoryTypes, RowType
    <3>2. row'[u].bal = new.bal
      BY <1>2, <1>5, <1>9, <2>2
    <3>3. book'[u] = book[u] + Booked(d) - (IF d.op \in Erasures THEN d.copy.bal ELSE 0)
      BY <1>1, <1>2, <1>3, <1>12, <3>1
    <3>4. spared'[u] = IF d.op = "decrease" THEN spared[u] + new.bal - (d.copy.bal - 2)
                       ELSE spared[u]
      BY <1>1, <1>12, <1>15 DEF HistoryTypes
    <3>5. CASE d.op \in Erasures
      <4>1. Booked(d) = 0 /\ d.op # "decrease"
        BY <3>5, BookedValues DEF Erasures, Purchases
      <4> QED
        BY <1>11, <3>1, <3>2, <3>3, <3>4, <3>5, <4>1
    <3>6. CASE d.op = "decrease"
      <4>1. Booked(d) = -2 /\ d.op \notin Erasures
        BY <3>6, BookedValues DEF Erasures
      <4> QED
        BY <3>1, <3>2, <3>3, <3>4, <3>6, <4>1
    <3>7. CASE d.op \notin Erasures /\ d.op # "decrease"
      <4>1. d.copy.bal + Booked(d) >= 0
        <5>1. CASE d.op = "spend"
          <6>1. Booked(d) = -1
            BY <5>1, BookedValues
          <6> QED
            BY <1>m, <3>1, <5>1, <6>1
        <5>2. CASE d.op = "menu decrease"
          <6>1. Booked(d) = -2
            BY <5>2, BookedValues
          <6>2. d.copy.bal >= 2
            BY <1>m, <5>2
          <6> QED
            BY <3>1, <6>1, <6>2
        <5>3. CASE d.op \notin {"spend", "menu decrease"}
          <6>1. Booked(d) = 0 \/ Booked(d) = 1
            BY <3>7, <5>3, BookedValues
          <6> QED
            BY <3>1, <6>1
        <5> QED
          BY <5>1, <5>2, <5>3
      <4>2. new.bal = d.copy.bal + Booked(d)
        BY <1>2, <1>11, <3>1, <3>7, <4>1 DEF AtLeastZero
      <4> QED
        BY <1>2, <3>1, <3>2, <3>3, <3>4, <3>7, <4>2
    <3> QED
      BY <3>5, <3>6, <3>7
  <2> QED
    BY <2>1, <2>2 DEF BalanceIsBooked
<1>18. ASSUME NEW v \in People PROVE TrialsOf(v)'
  <2>1. CASE v # u
    <3>1. /\ trials'[v] = trials[v] /\ resets'[v] = resets[v] /\ endings'[v] = endings[v]
          /\ v \in trialSub' <=> v \in trialSub
      BY <1>g, <1>r, <1>e, <1>s, <1>15, <2>1 DEF HistoryTypes
    <3> QED
      BY <1>5, <1>10, <1>15, <2>1, <3>1 DEF TrialsOf
  <2>2. CASE v = u
    <3>1. TrialsOf(u) /\ trials[u] \in Nat /\ endings[u] \in Nat /\ resets[u] \in Nat
      BY <1>1, <1>15 DEF HistoryTypes
    <3>2. trials'[u] = trials[u] + (IF d.op = "trial" THEN 1 ELSE 0)
      BY <1>1, <1>g, <1>15 DEF HistoryTypes
    <3>r. resets'[u] = resets[u] + (IF undone THEN 1 ELSE 0)
      BY <1>1, <1>r, <1>15 DEF HistoryTypes
    <3>e. endings'[u] = endings[u] + (IF d.op \in Erasures /\ u \in trialSub THEN 1 ELSE 0)
      BY <1>1, <1>e, <1>15 DEF HistoryTypes
    <3>3. u \notin outdated' => row'[u].trial = new.trial /\ row[u].trial = d.copy.trial
      BY <1>1, <1>2, <1>5, <1>9 DEF RowType
    <3>4. trials'[u] = endings'[u] + (IF u \in trialSub' THEN 1 ELSE 0)
      <4>1. CASE d.op = "trial"
        BY <1>s, <1>14, <3>1, <3>2, <3>e, <4>1 DEF TrialsOf, Erasures
      <4>2. CASE d.op # "trial"
        BY <1>s, <3>1, <3>2, <3>e, <4>2 DEF TrialsOf
      <4> QED
        BY <4>1, <4>2
    <3>5. ASSUME u \notin outdated'
          PROVE trials'[u] = resets'[u] + (IF row'[u].trial THEN 1 ELSE 0)
      <4>1. trials[u] = resets[u] + (IF d.copy.trial THEN 1 ELSE 0)
        BY <1>9, <3>1, <3>5 DEF TrialsOf
      <4>2. CASE d.op = "trial"
        <5>1. row'[u].trial /\ ~d.copy.trial /\ ~undone
          BY <1>t, <1>u, <1>14, <3>3, <3>5, <4>2
        <5> QED
          BY <3>1, <3>2, <3>r, <4>1, <4>2, <5>1
      <4>3. CASE d.op = "trial reset"
        <5>1. ~row'[u].trial /\ (undone <=> d.copy.trial)
          BY <1>t, <1>u, <3>3, <3>5, <4>3
        <5> QED
          BY <3>1, <3>2, <3>r, <4>1, <4>3, <5>1
      <4>4. CASE d.op \notin {"trial", "trial reset"}
        <5>1. row'[u].trial = d.copy.trial
          BY <1>1, <1>t, <3>3, <3>5, <4>4 DEF RowType
        <5>2. trials'[u] = trials[u]
          <6>1. d.op # "trial"
            BY <4>4
          <6>2. trials'[u] = trials[u] + 0
            BY <3>2, <6>1
          <6> QED
            BY <3>1, <6>2
        <5>3. ~undone
          BY <1>u, <4>4
        <5>4. resets'[u] = resets[u]
          BY <3>1, <3>r, <5>3
        <5> QED
          BY <4>1, <5>1, <5>2, <5>4
      <4> QED
        BY <4>2, <4>3, <4>4
    <3> QED
      BY <2>2, <3>4, <3>5 DEF TrialsOf
  <2> QED
    BY <2>1, <2>2
<1>19. ASSUME NEW v \in People PROVE BonusOf(v)'
  <2>1. BonusOf(v) /\ bonuses[v] \in Nat
    BY <1>15 DEF HistoryTypes
  <2>2. CASE bonus /\ v = u
    <3>1. bonuses[v] = 0
      BY <1>a, <2>1, <2>2 DEF BonusOf
    <3>2. bonuses'[v] = 1 /\ v \in activeRef'
      BY <1>b, <1>15, <2>2, <3>1 DEF HistoryTypes
    <3> QED
      BY <3>2 DEF BonusOf
  <2>3. CASE ~(bonus /\ v = u)
    <3>1. bonuses'[v] = bonuses[v] /\ (v \in activeRef => v \in activeRef')
      BY <1>b, <1>15, <2>3 DEF HistoryTypes
    <3> QED
      BY <2>1, <3>1 DEF BonusOf
  <2> QED
    BY <2>2, <2>3
<1> QED
  BY <1>7, <1>8, <1>16, <1>17, <1>18, <1>19 DEF WalletInv, Accounts

LEMMA WalletNextInv == WalletInv /\ [WalletNext]_walletVars => WalletInv'
<1> SUFFICES ASSUME WalletInv, [WalletNext]_walletVars PROVE WalletInv'
  OBVIOUS
<1>1. ASSUME NEW s \in Desks, NEW u \in People, NEW op \in Operations,
             BotStarts(s, u, op) \/ OthersStart(s, u, op)
      PROVE WalletInv'
  <2>1. BeginDeal(s, u, op, "copied") \/ BeginDeal(s, u, op, "fresh")
    BY <1>1 DEF BotStarts, OthersStart
  <2> QED
    BY <2>1, BeginInv
<1>2. ASSUME NEW s \in Desks, Proceed(s) PROVE WalletInv'
  BY <1>2, LockUserInv, LockInviterInv, CommitInv, RollBackInv DEF Proceed
<1>3. ASSUME UNCHANGED walletVars PROVE WalletInv'
  <2>1. WalletTypes' /\ LocksHeld'
    BY <1>3 DEF WalletInv, WalletTypes, LocksHeld, Knows, walletVars, walletRows
  <2> QED
    BY <1>3, <2>1, AccountsKept DEF WalletInv, walletVars
<1> QED
  BY <1>1, <1>2, <1>3, TrialEndsInv DEF WalletNext

LEMMA WalletInvProps == WalletInv => WalletTypeOK /\ BalanceIsBooked /\ GiftsAreCounted
<1> SUFFICES ASSUME WalletInv PROVE WalletTypeOK /\ GiftsAreCounted
  BY DEF WalletInv, Accounts
<1>1. WalletTypeOK
  BY DEF WalletTypeOK, WalletInv, WalletTypes, LocksHeld, Knows, RowType
<1>2. ASSUME NEW u \in People
      PROVE trials[u] <= 1 + resets[u] + (IF u \in outdated THEN endings[u] ELSE 0)
  <2>1. /\ TrialsOf(u) /\ trials[u] \in Nat /\ endings[u] \in Nat /\ resets[u] \in Nat
    BY DEF WalletInv, Accounts, HistoryTypes
  <2> QED
    BY <2>1 DEF TrialsOf
<1>3. \A u \in People : bonuses[u] <= 1
  BY DEF WalletInv, Accounts, BonusOf
<1> QED
  BY <1>1, <1>2, <1>3 DEF GiftsAreCounted, BonusIsGrantedOnce, TrialNeedsReset

\* The balance of a user of whom no transaction wrote from an outdated copy is the sum of
\* what the transactions booked, however they interleave, lock and roll back
\* (UserRepository.add_balance, subtract_balance; privacy.py; referrals.py).
THEOREM MoneyIsBooked == WalletSpec => []BalanceIsBooked
<1>1. WalletSpec => []WalletInv
  BY WalletInitInv, WalletNextInv, PTL DEF WalletSpec
<1> QED
  BY <1>1, WalletInvProps, PTL

\* No interleaving of two transactions of a user gives the bonus of a referral twice, or a
\* second trial without a reset (ReferralService._grant_bonus, issue_trial).
THEOREM GiftsAreGivenOnce == WalletSpec => []GiftsAreCounted
<1>1. WalletSpec => []WalletInv
  BY WalletInitInv, WalletNextInv, PTL DEF WalletSpec
<1> QED
  BY <1>1, WalletInvProps, PTL

-----------------------------------------------------------------------------
(***************************************************************************)
(* Support tickets.  The inductive invariant says what each lock is worth: *)
(* a worker that locked a ticket finds it open until it is done, and one   *)
(* that locked a user knows of every open ticket of the user, for nobody   *)
(* else opens one.  The first message alone reads a ticket without its     *)
(* lock, so nothing is known of the status it read.                        *)
(***************************************************************************)
NewOps == {"newFound", "newSent"}
RowOps == {"replyLocked", "replySent", "answerLocked", "answerSent", "marking"}
SentOps == {"newSent", "replySent", "answerSent"}
LockedUserOps == {"newFound", "newSent", "replyLocked", "replySent", "eraseRead"}
LooseOps == {"idle", "bulk", "auto"}
WorkOps == LooseOps \cup RowOps \cup LockedUserOps \cup {"new", "reply", "close", "erase"}

TicketType == [user : Users \cup {"none"}, status : Active \cup {"closed", "absent"},
               recent : BOOLEAN, texts : Nat]
WorkType == [op : WorkOps, user : Users \cup {"none"}, ticket : Tickets \cup {NoTicket},
             saw : Active \cup {"absent"}, todo : Seq(Tickets)]

TicketTypes ==
  /\ ticket \in [Tickets -> TicketType]
  /\ rowLock \in [Tickets -> Workers \cup {Free}]
  /\ userLock \in [Users -> Workers \cup {Free}]
  /\ erased \subseteq Users /\ late \subseteq Users
  /\ work \in [Workers -> WorkType]
  /\ carried \in [Tickets -> Nat] /\ stored \in [Tickets -> Nat]
  /\ closings \in [Tickets -> Nat] /\ reopenings \in [Tickets -> Nat]
  /\ breaks \in 0 .. MaxBreaks

\* A row has a user once it is there, and a user has one open ticket at most.
RowsSound ==
  /\ \A t \in Tickets : ticket[t].user = "none" \/ ticket[t].status = "absent" => ticket[t] = Absent
  /\ \A s, t \in Tickets : IsActive(s) /\ IsActive(t) /\ ticket[s].user = ticket[t].user => s = t

\* The id of an insert that has not been committed.
Opening(w) == work[w].op \in NewOps /\ work[w].saw = "absent"

\* What a worker knows at each of its steps.
WorkSound(w) ==
  /\ work[w].op \notin LooseOps => work[w].user \in Users
  /\ work[w].op = "new" => work[w].saw = "absent"
  /\ work[w].op \in LockedUserOps => userLock[work[w].user] = w
  /\ work[w].op \in {"reply", "close"} \cup RowOps =>
       work[w].ticket \in Tickets /\ ticket[work[w].ticket].user = work[w].user
  /\ work[w].op \in RowOps => rowLock[work[w].ticket] = w /\ IsActive(work[w].ticket)
  /\ work[w].op \in NewOps =>
       /\ work[w].ticket \in Tickets
       /\ ActiveOf(work[w].user) \subseteq {work[w].ticket}
       /\ work[w].saw # "absent" => ticket[work[w].ticket].user = work[w].user
  /\ Opening(w) =>
       /\ ticket[work[w].ticket] = Absent
       /\ \A v \in Workers \ {w} : work[v].ticket # work[w].ticket
  /\ work[w].op = "eraseRead" =>
       /\ \A t \in ToSet(work[w].todo) : t \in Tickets /\ ticket[t].user = work[w].user
       /\ ActiveOf(work[w].user) \subseteq ToSet(work[w].todo)

\* Whoever holds a lock is at a step that has taken it.
LocksSound(w) ==
  /\ \A t \in Tickets : rowLock[t] = w =>
       work[w].op = "bulk" \/ (work[w].op \in RowOps /\ work[w].ticket = t)
  /\ \A u \in Users : userLock[u] = w =>
       work[w].user = u /\ work[w].op \in LockedUserOps \cup {"reply", "close"}

\* The messages on their way into the history of a ticket.
Sent(t) == {w \in Workers : work[w].op \in SentOps /\ work[w].ticket = t}

Counted == \A t \in Tickets : stored[t] + Cardinality(Sent(t)) <= carried[t]

\* After an erasure the tickets are closed and empty, and no first message is written.
Forgets ==
  \A u \in erased \ late :
    /\ \A t \in Tickets : ticket[t].user = u => ticket[t].texts = 0 /\ ~IsActive(t)
    /\ \A w \in Workers : work[w].user = u => work[w].op \notin NewOps \cup {"new"}

TicketsInv ==
  /\ TicketTypes
  /\ RowsSound
  /\ \A w \in Workers : WorkSound(w) /\ LocksSound(w)
  /\ Counted
  /\ ClosingIsRecordedOnce
  /\ Forgets

LEMMA TicketRecords ==
  /\ Absent \in TicketType /\ Absent.user = "none" /\ Absent.status = "absent" /\ Absent.texts = 0
  /\ AtRest \in WorkType /\ AtRest.op = "idle" /\ AtRest.ticket = NoTicket
  /\ NoTicket \notin Tickets
<1>1. Absent.user = "none" /\ Absent.status = "absent" /\ Absent.texts = 0 /\ Absent \in TicketType
  BY DEF Absent, TicketType
<1>2. AtRest = [op |-> "idle", user |-> "none", ticket |-> NoTicket, saw |-> "absent", todo |-> << >>]
  BY DEF AtRest
<1>3. AtRest \in WorkType /\ AtRest.op = "idle" /\ AtRest.ticket = NoTicket
  BY <1>2 DEF WorkType, WorkOps, LooseOps
<1> QED
  BY <1>1, <1>3, TicketsAssumption DEF NoTicket

LEMMA TicketsInitInv == TicketsInit => TicketsInv
<1> SUFFICES ASSUME TicketsInit PROVE TicketsInv
  OBVIOUS
<1>1. TicketTypes
  BY TicketRecords, TicketsAssumption DEF TicketsInit, TicketTypes
<1>2. /\ \A t \in Tickets : ticket[t] = Absent /\ ~IsActive(t) /\ rowLock[t] = Free /\ closings[t] = 0 /\ reopenings[t] = 0
      /\ \A w \in Workers : work[w].op = "idle"
      /\ \A u \in Users : userLock[u] = Free
      /\ erased = {} /\ \A t \in Tickets : carried[t] = 0 /\ stored[t] = 0
  BY TicketRecords DEF TicketsInit, IsActive, Active
<1>3. RowsSound
  BY <1>2 DEF RowsSound
<1>4. \A w \in Workers : WorkSound(w) /\ LocksSound(w)
  BY <1>2, LocksAssumption DEF WorkSound, LocksSound, Opening, LooseOps, LockedUserOps, RowOps, NewOps
<1>5. Counted
  <2>1. \A t \in Tickets : Sent(t) = {}
    BY <1>2 DEF Sent, SentOps
  <2>2. \A t \in Tickets : Cardinality(Sent(t)) = 0
    BY <2>1, FS_EmptySet
  <2>3. \A t \in Tickets : stored[t] = 0 /\ carried[t] = 0
    BY <1>2
  <2> QED
    BY <2>2, <2>3 DEF Counted
<1>6. ClosingIsRecordedOnce
  BY <1>2, TicketRecords DEF ClosingIsRecordedOnce
<1>7. Forgets
  BY <1>2 DEF Forgets
<1> QED
  BY <1>1, <1>3, <1>4, <1>5, <1>6, <1>7 DEF TicketsInv

-----------------------------------------------------------------------------
\* A worker keeps its locks and its place.
Kept(v) ==
  /\ work'[v] = work[v]
  /\ \A t \in Tickets : rowLock'[t] = v <=> rowLock[t] = v
  /\ \A u \in Users : userLock'[u] = v <=> userLock[u] = v

\* A worker is done, or between two tickets, and has no lock.
Gone(v) ==
  /\ work'[v].op \in {"idle", "auto"} /\ work'[v].ticket \in {NoTicket, work[v].ticket}
  /\ \A t \in Tickets : rowLock'[t] # v
  /\ \A u \in Users : userLock'[u] # v

LEMMA FinishEffects ==
  ASSUME TicketTypes, NEW w \in Workers, Finish(w)
  PROVE /\ work' \in [Workers -> WorkType]
        /\ rowLock' \in [Tickets -> Workers \cup {Free}]
        /\ userLock' \in [Users -> Workers \cup {Free}]
        /\ work' = [work EXCEPT ![w] = AtRest]
        /\ Gone(w)
        /\ \A v \in Workers \ {w} : Kept(v)
<1>1. work' = [work EXCEPT ![w] = AtRest] /\ work' \in [Workers -> WorkType] /\ work'[w] = AtRest
      /\ \A v \in Workers \ {w} : work'[v] = work[v]
  BY TicketRecords DEF Finish, TicketTypes
<1>2. rowLock' = [t \in Tickets |-> IF rowLock[t] = w THEN Free ELSE rowLock[t]]
      /\ userLock' = [u \in Users |-> IF userLock[u] = w THEN Free ELSE userLock[u]]
  BY DEF Finish
<1>3. rowLock' \in [Tickets -> Workers \cup {Free}] /\ userLock' \in [Users -> Workers \cup {Free}]
  BY <1>2 DEF TicketTypes
<1>4. Gone(w)
  BY <1>1, <1>2, TicketRecords, LocksAssumption DEF Gone
<1>5. \A v \in Workers \ {w} : Kept(v)
  BY <1>1, <1>2, LocksAssumption DEF Kept
<1> QED
  BY <1>1, <1>3, <1>4, <1>5

\* Workers that go on, or are done, while rows change that they have not locked.
LEMMA WorkersKept ==
  ASSUME TicketsInv,
         \A v \in Workers : Kept(v) \/ Gone(v),
         \A t \in Tickets : ticket[t] # Absent => ticket'[t].user = ticket[t].user,
         \A v \in Workers : Kept(v) =>
           /\ \A t \in Tickets : rowLock[t] = v /\ IsActive(t) => IsActive(t)'
           /\ \A u \in Users : userLock[u] = v => ActiveOf(u)' \subseteq ActiveOf(u)
           /\ Opening(v) => ticket'[work[v].ticket] = Absent
  PROVE \A v \in Workers : WorkSound(v)' /\ LocksSound(v)'
<1> SUFFICES ASSUME NEW v \in Workers PROVE WorkSound(v)' /\ LocksSound(v)'
  OBVIOUS
<1>1. CASE Gone(v)
  <2>1. WorkSound(v)'
    BY <1>1 DEF Gone, WorkSound, Opening, LooseOps, LockedUserOps, RowOps, NewOps
  <2>2. LocksSound(v)'
    BY <1>1 DEF Gone, LocksSound
  <2> QED
    BY <2>1, <2>2
<1>2. CASE Kept(v)
  <2>1. PICK s \in WorkType : s = work[v]
    BY DEF TicketsInv, TicketTypes
  <2>2. work'[v] = s /\ WorkSound(v) /\ LocksSound(v)
    BY <1>2, <2>1 DEF Kept, TicketsInv
  <2>3. LocksSound(v)'
    BY <1>2, <2>1, <2>2 DEF Kept, LocksSound
  <2>4. s.op \notin LooseOps => s.user \in Users
    BY <2>1, <2>2 DEF WorkSound
  <2>5. s.op \in LockedUserOps => userLock[s.user] = v /\ userLock'[s.user] = v
    BY <1>2, <2>1, <2>2, <2>4 DEF Kept, WorkSound, LockedUserOps, LooseOps
  <2>6. s.op \in {"reply", "close"} \cup RowOps =>
          s.ticket \in Tickets /\ ticket[s.ticket].user = s.user /\ ticket'[s.ticket].user = s.user
    BY <2>1, <2>2, <2>4, TicketRecords, LocksAssumption DEF WorkSound, RowOps, LooseOps
  <2>7. s.op \in RowOps => rowLock'[s.ticket] = v /\ IsActive(s.ticket)'
    BY <1>2, <2>1, <2>2, <2>6 DEF Kept, WorkSound
  <2>8. s.op \in NewOps =>
          /\ s.ticket \in Tickets
          /\ ActiveOf(s.user)' \subseteq {s.ticket}
          /\ s.saw # "absent" => ticket'[s.ticket].user = s.user
    <3> SUFFICES ASSUME s.op \in NewOps
                 PROVE /\ s.ticket \in Tickets
                       /\ ActiveOf(s.user)' \subseteq {s.ticket}
                       /\ s.saw # "absent" => ticket'[s.ticket].user = s.user
      OBVIOUS
    <3>1. /\ s.ticket \in Tickets /\ ActiveOf(s.user) \subseteq {s.ticket}
          /\ s.saw # "absent" => ticket[s.ticket].user = s.user
      BY <2>1, <2>2 DEF WorkSound
    <3>2. s.user \in Users /\ userLock[s.user] = v
      BY <2>4, <2>5 DEF NewOps, LockedUserOps, LooseOps
    <3>3. s.saw # "absent" => ticket'[s.ticket].user = s.user
      BY <3>1, <3>2, TicketRecords, LocksAssumption
    <3> QED
      BY <1>2, <3>1, <3>2, <3>3
  <2>9. s.op \in NewOps /\ s.saw = "absent" =>
          /\ ticket'[s.ticket] = Absent
          /\ \A x \in Workers \ {v} : work'[x].ticket # s.ticket
    <3> SUFFICES ASSUME s.op \in NewOps, s.saw = "absent"
                 PROVE /\ ticket'[s.ticket] = Absent
                       /\ \A x \in Workers \ {v} : work'[x].ticket # s.ticket
      OBVIOUS
    <3>1. Opening(v)
      BY <2>1 DEF Opening
    <3>2. \A x \in Workers \ {v} : work[x].ticket # s.ticket
      BY <2>1, <2>2, <3>1 DEF WorkSound
    <3>3. \A x \in Workers \ {v} : work'[x].ticket = work[x].ticket \/ work'[x].ticket = NoTicket
      BY DEF Kept, Gone
    <3> QED
      BY <1>2, <2>1, <2>8, <3>1, <3>2, <3>3, TicketRecords
  <2>10. s.op = "eraseRead" =>
           /\ \A t \in ToSet(s.todo) : t \in Tickets /\ ticket'[t].user = s.user
           /\ ActiveOf(s.user)' \subseteq ToSet(s.todo)
    <3> SUFFICES ASSUME s.op = "eraseRead"
                 PROVE /\ \A t \in ToSet(s.todo) : t \in Tickets /\ ticket'[t].user = s.user
                       /\ ActiveOf(s.user)' \subseteq ToSet(s.todo)
      OBVIOUS
    <3>1. /\ \A t \in ToSet(s.todo) : t \in Tickets /\ ticket[t].user = s.user
          /\ ActiveOf(s.user) \subseteq ToSet(s.todo)
      BY <2>1, <2>2 DEF WorkSound
    <3>2. s.user \in Users /\ userLock[s.user] = v
      BY <2>4, <2>5 DEF LockedUserOps, LooseOps
    <3> QED
      BY <1>2, <3>1, <3>2, TicketRecords, LocksAssumption
  <2>12. s.op = "new" => s.saw = "absent"
    BY <2>1, <2>2 DEF WorkSound
  <2>11. WorkSound(v)'
    BY <2>12, <2>2, <2>4, <2>5, <2>6, <2>7, <2>8, <2>9, <2>10 DEF WorkSound, Opening
  <2> QED
    BY <2>3, <2>11
<1> QED
  BY <1>1, <1>2

LEMMA SentCounted ==
  ASSUME NEW t \in Tickets
  PROVE /\ IsFiniteSet(Sent(t)) /\ Cardinality(Sent(t)) \in Nat
        /\ IsFiniteSet(Sent(t)') /\ Cardinality(Sent(t)') \in Nat
<1>1. Sent(t) \in SUBSET Workers /\ Sent(t)' \in SUBSET Workers
  BY DEF Sent
<1> QED
  BY <1>1, LocksAssumption, FS_Subset, FS_CardinalityType

\* A worker that says nothing new leaves no more messages on their way.
LEMMA SentLess ==
  ASSUME TicketTypes, NEW w \in Workers, NEW next \in WorkType, work' = [work EXCEPT ![w] = next],
         next.op \notin SentOps, NEW t \in Tickets
  PROVE /\ Cardinality(Sent(t)') <= Cardinality(Sent(t))
        /\ w \in Sent(t) => Cardinality(Sent(t)') = Cardinality(Sent(t)) - 1
<1>1. Sent(t)' = Sent(t) \ {w}
  BY DEF Sent, TicketTypes
<1>2. IsFiniteSet(Sent(t)) /\ Cardinality(Sent(t)) \in Nat
  BY SentCounted
<1>3. Cardinality(Sent(t) \ {w}) = IF w \in Sent(t) THEN Cardinality(Sent(t)) - 1 ELSE Cardinality(Sent(t))
  BY <1>2, FS_RemoveElement
<1>4. Cardinality(Sent(t)') = IF w \in Sent(t) THEN Cardinality(Sent(t)) - 1 ELSE Cardinality(Sent(t))
  BY <1>1, <1>3
<1> QED
  BY <1>2, <1>4

LEMMA SentMore ==
  ASSUME TicketTypes, NEW w \in Workers, NEW next \in WorkType, work' = [work EXCEPT ![w] = next],
         NEW t \in Tickets
  PROVE /\ Cardinality(Sent(t)') <= Cardinality(Sent(t)) + 1
        /\ next.ticket # t => Cardinality(Sent(t)') <= Cardinality(Sent(t))
<1>1. CASE w \in Sent(t)'
  <2>1. Sent(t)' = Sent(t) \cup {w} /\ next.ticket = t
    BY <1>1 DEF Sent, TicketTypes
  <2>2. IsFiniteSet(Sent(t)) /\ Cardinality(Sent(t)) \in Nat
    BY SentCounted
  <2>3. Cardinality(Sent(t) \cup {w}) = IF w \in Sent(t) THEN Cardinality(Sent(t)) ELSE Cardinality(Sent(t)) + 1
    BY <2>2, FS_AddElement
  <2>4. Cardinality(Sent(t)') = Cardinality(Sent(t)) \/ Cardinality(Sent(t)') = Cardinality(Sent(t)) + 1
    BY <2>1, <2>3
  <2> QED
    BY <2>1, <2>2, <2>4
<1>2. CASE w \notin Sent(t)'
  <2>1. Sent(t)' \in SUBSET Sent(t)
    BY <1>2 DEF Sent, TicketTypes
  <2> QED
    BY <2>1, SentCounted, FS_Subset
<1> QED
  BY <1>1, <1>2

LEMMA SentGone ==
  ASSUME \A v \in Workers : Kept(v) \/ Gone(v), NEW t \in Tickets
  PROVE Cardinality(Sent(t)') <= Cardinality(Sent(t))
<1>1. Sent(t)' \in SUBSET Sent(t)
  BY DEF Sent, Kept, Gone, SentOps
<1> QED
  BY <1>1, SentCounted, FS_Subset

\* A worker takes a step, and perhaps a lock, and writes nothing.
LEMMA StepInv ==
  ASSUME TicketsInv, NEW w \in Workers, NEW next \in WorkType,
         work' = [work EXCEPT ![w] = next],
         UNCHANGED <<ticket, erased, stored, closings, reopenings, late, breaks>>,
         rowLock' \in [Tickets -> Workers \cup {Free}],
         userLock' \in [Users -> Workers \cup {Free}],
         carried' \in [Tickets -> Nat],
         \A t \in Tickets : rowLock'[t] = rowLock[t] \/ (rowLock[t] = Free /\ rowLock'[t] = w),
         \A u \in Users : userLock'[u] = userLock[u] \/ (userLock[u] = Free /\ userLock'[u] = w),
         \A t \in Tickets : stored[t] + Cardinality(Sent(t)') <= carried'[t],
         next.user \in erased \ late => next.op \notin NewOps \cup {"new"},
         \A v \in Workers \ {w} : Opening(v) => next.ticket # work[v].ticket,
         WorkSound(w)', LocksSound(w)'
  PROVE TicketsInv'
<1>1. TicketTypes'
  BY DEF TicketsInv, TicketTypes
<1>2. work'[w] = next /\ \A v \in Workers \ {w} : work'[v] = work[v]
  BY DEF TicketsInv, TicketTypes
<1>3. /\ RowsSound' /\ ClosingIsRecordedOnce' /\ Counted'
      /\ \A t \in Tickets : IsActive(t)' = IsActive(t)
      /\ \A u \in Users : ActiveOf(u)' = ActiveOf(u)
  BY DEF TicketsInv, RowsSound, ClosingIsRecordedOnce, IsActive, ActiveOf, Counted
<1>4. Forgets'
  <2> SUFFICES ASSUME NEW u \in erased \ late
               PROVE /\ \A t \in Tickets : ticket[t].user = u => ticket[t].texts = 0 /\ ~IsActive(t)'
                     /\ \A v \in Workers : work'[v].user = u => work'[v].op \notin NewOps \cup {"new"}
    BY DEF Forgets
  <2> QED
    BY <1>2, <1>3 DEF TicketsInv, Forgets
<1>5. ASSUME NEW v \in Workers, v # w PROVE WorkSound(v)' /\ LocksSound(v)'
  <2>1. PICK s \in WorkType : s = work[v]
    BY DEF TicketsInv, TicketTypes
  <2>2. WorkSound(v) /\ LocksSound(v) /\ work'[v] = s
    BY <1>2, <1>5, <2>1 DEF TicketsInv
  <2>3. LocksSound(v)'
    BY <1>5, <2>1, <2>2 DEF LocksSound
  <2>4. /\ \A t \in Tickets : rowLock[t] = v => rowLock'[t] = v
        /\ \A u \in Users : userLock[u] = v => userLock'[u] = v
    BY <1>5, LocksAssumption
  <2>5. s.op \notin LooseOps => s.user \in Users
    BY <2>1, <2>2 DEF WorkSound
  <2>6. s.op \in LockedUserOps => userLock'[s.user] = v
    BY <2>1, <2>2, <2>4, <2>5 DEF WorkSound, LockedUserOps, LooseOps
  <2>7. s.op \in {"reply", "close"} \cup RowOps => s.ticket \in Tickets /\ ticket[s.ticket].user = s.user
    BY <2>1, <2>2 DEF WorkSound
  <2>8. s.op \in RowOps => rowLock'[s.ticket] = v /\ IsActive(s.ticket)'
    BY <1>3, <2>1, <2>2, <2>4, <2>7 DEF WorkSound
  <2>9. s.op \in NewOps =>
          /\ s.ticket \in Tickets
          /\ ActiveOf(s.user)' \subseteq {s.ticket}
          /\ s.saw # "absent" => ticket[s.ticket].user = s.user
    BY <1>3, <2>1, <2>2, <2>5 DEF WorkSound, NewOps, LooseOps
  <2>10. s.op \in NewOps /\ s.saw = "absent" =>
           /\ ticket[s.ticket] = Absent
           /\ \A x \in Workers \ {v} : work'[x].ticket # s.ticket
    <3> SUFFICES ASSUME s.op \in NewOps, s.saw = "absent"
                 PROVE /\ ticket[s.ticket] = Absent
                       /\ \A x \in Workers \ {v} : work'[x].ticket # s.ticket
      OBVIOUS
    <3>1. Opening(v)
      BY <2>1 DEF Opening
    <3>2. ticket[s.ticket] = Absent /\ \A x \in Workers \ {v} : work[x].ticket # s.ticket
      BY <2>1, <2>2, <3>1 DEF WorkSound
    <3>3. next.ticket # s.ticket
      BY <1>5, <2>1, <3>1
    <3> QED
      BY <1>2, <3>2, <3>3
  <2>11. s.op = "eraseRead" =>
           /\ \A t \in ToSet(s.todo) : t \in Tickets /\ ticket[t].user = s.user
           /\ ActiveOf(s.user)' \subseteq ToSet(s.todo)
    BY <1>3, <2>1, <2>2, <2>5 DEF WorkSound, LooseOps
  <2>13. s.op = "new" => s.saw = "absent"
    BY <2>1, <2>2 DEF WorkSound
  <2>12. WorkSound(v)'
    BY <2>13, <2>2, <2>5, <2>6, <2>7, <2>8, <2>9, <2>10, <2>11 DEF WorkSound, Opening
  <2> QED
    BY <2>3, <2>12
<1> QED
  BY <1>1, <1>3, <1>4, <1>5 DEF TicketsInv

\* A transaction is rolled back, or ends without a word.
LEMMA TicketsRollBackInv ==
  ASSUME TicketsInv, NEW w \in Workers, Finish(w),
         UNCHANGED <<ticket, erased, carried, stored, closings, reopenings, late>>,
         breaks' \in 0 .. MaxBreaks
  PROVE TicketsInv'
<1>1. TicketTypes
  BY DEF TicketsInv
<1>2. /\ work' = [work EXCEPT ![w] = AtRest] /\ Gone(w) /\ \A v \in Workers \ {w} : Kept(v)
      /\ TicketTypes'
  BY <1>1, FinishEffects DEF TicketTypes
<1>3. /\ RowsSound' /\ ClosingIsRecordedOnce'
      /\ \A t \in Tickets : IsActive(t)' = IsActive(t)
      /\ \A u \in Users : ActiveOf(u)' = ActiveOf(u)
  BY DEF TicketsInv, RowsSound, ClosingIsRecordedOnce, IsActive, ActiveOf
<1>4. \A v \in Workers : Opening(v) => ticket[work[v].ticket] = Absent
  BY DEF TicketsInv, WorkSound
<1>5. \A v \in Workers : WorkSound(v)' /\ LocksSound(v)'
  BY <1>2, <1>3, <1>4, WorkersKept
<1>6. Counted'
  <2> SUFFICES ASSUME NEW t \in Tickets PROVE stored[t] + Cardinality(Sent(t)') <= carried[t]
    BY DEF Counted
  <2>1. Cardinality(Sent(t)') <= Cardinality(Sent(t))
    BY <1>2, SentGone
  <2> QED
    BY <1>1, <2>1, SentCounted DEF TicketsInv, Counted, TicketTypes
<1>7. Forgets'
  BY <1>2, <1>3 DEF TicketsInv, Forgets, Kept, Gone, NewOps
<1> QED
  BY <1>2, <1>3, <1>5, <1>6, <1>7 DEF TicketsInv

\* Open tickets that nobody goes on holding are closed.
LEMMA ClosingInv ==
  ASSUME TicketsInv, TicketTypes', NEW S \in SUBSET Tickets,
         \A v \in Workers : Kept(v) \/ Gone(v),
         \A t \in S : IsActive(t) /\ \A v \in Workers : Kept(v) => rowLock[t] # v,
         \A t \in Tickets :
           /\ ticket'[t].user = ticket[t].user /\ ticket'[t].texts = ticket[t].texts
           /\ ticket[t] = Absent => ticket'[t] = Absent
           /\ ticket'[t].status = IF t \in S THEN "closed" ELSE ticket[t].status,
         \A t \in Tickets : closings'[t] = closings[t] + (IF t \in S THEN 1 ELSE 0),
         UNCHANGED <<erased, carried, stored, reopenings, late>>
  PROVE TicketsInv'
<1>1. \A t \in Tickets : IsActive(t)' <=> IsActive(t) /\ t \notin S
  BY DEF IsActive, Active
<1>2. \A u \in Users : ActiveOf(u)' \subseteq ActiveOf(u)
  BY <1>1 DEF ActiveOf
<1>3. RowsSound'
  <2>1. \A t \in Tickets : ticket'[t].user = "none" \/ ticket'[t].status = "absent" => ticket[t] = Absent
    BY DEF TicketsInv, RowsSound
  <2>2. \A s, t \in Tickets : IsActive(s)' /\ IsActive(t)' /\ ticket'[s].user = ticket'[t].user => s = t
    BY <1>1 DEF TicketsInv, RowsSound
  <2> QED
    BY <2>1, <2>2 DEF RowsSound
<1>4. \A v \in Workers : Opening(v) => work[v].ticket \in Tickets /\ ticket[work[v].ticket] = Absent
  BY DEF TicketsInv, WorkSound, Opening
<1>5. \A v \in Workers : WorkSound(v)' /\ LocksSound(v)'
  BY <1>1, <1>2, <1>4, WorkersKept
<1>6. Counted'
  <2> SUFFICES ASSUME NEW t \in Tickets PROVE stored[t] + Cardinality(Sent(t)') <= carried[t]
    BY DEF Counted
  <2>1. Cardinality(Sent(t)') <= Cardinality(Sent(t))
    BY SentGone
  <2> QED
    BY <2>1, SentCounted DEF TicketsInv, Counted, TicketTypes
<1>7. ClosingIsRecordedOnce'
  <2> SUFFICES ASSUME NEW t \in Tickets, ticket'[t].user \notin erased
               PROVE closings'[t] = reopenings[t] + (IF ticket'[t].status = "closed" THEN 1 ELSE 0)
    BY DEF ClosingIsRecordedOnce
  <2>1. closings[t] \in Nat /\ reopenings[t] \in Nat
    BY DEF TicketsInv, TicketTypes
  <2>2. closings[t] = reopenings[t] + (IF ticket[t].status = "closed" THEN 1 ELSE 0)
    BY DEF TicketsInv, ClosingIsRecordedOnce
  <2>3. CASE t \in S
    <3>1. ticket[t].status # "closed" /\ ticket'[t].status = "closed" /\ closings'[t] = closings[t] + 1
      BY <2>3 DEF IsActive, Active
    <3> QED
      BY <2>1, <2>2, <3>1
  <2>4. CASE t \notin S
    <3>1. ticket'[t].status = ticket[t].status /\ closings'[t] = closings[t] + 0
      BY <2>4
    <3> QED
      BY <2>1, <2>2, <3>1
  <2> QED
    BY <2>3, <2>4
<1>8. Forgets'
  <2> SUFFICES ASSUME NEW u \in erased \ late
               PROVE /\ \A t \in Tickets : ticket'[t].user = u => ticket'[t].texts = 0 /\ ~IsActive(t)'
                     /\ \A v \in Workers : work'[v].user = u => work'[v].op \notin NewOps \cup {"new"}
    BY DEF Forgets
  <2>1. /\ \A t \in Tickets : ticket[t].user = u => ticket[t].texts = 0 /\ ~IsActive(t)
        /\ \A v \in Workers : work[v].user = u => work[v].op \notin NewOps \cup {"new"}
    BY DEF TicketsInv, Forgets
  <2> QED
    BY <1>1, <2>1 DEF Kept, Gone, NewOps
<1> QED
  BY <1>3, <1>5, <1>6, <1>7, <1>8 DEF TicketsInv

-----------------------------------------------------------------------------
(* The steps.                                                              *)

LEMMA ActiveHasUser ==
  ASSUME TicketsInv, NEW t \in Tickets, IsActive(t)
  PROVE ticket[t].user \in Users /\ ticket[t] # Absent
<1>1. ticket[t].user # "none" /\ ticket[t] # Absent
  BY TicketRecords DEF TicketsInv, RowsSound, IsActive, Active
<1> QED
  BY <1>1 DEF TicketsInv, TicketTypes, TicketType

\* A step that takes no lock and says nothing.
LEMMA QuietInv ==
  ASSUME TicketsInv, NEW w \in Workers, NEW next \in WorkType,
         work' = [work EXCEPT ![w] = next],
         UNCHANGED <<ticket, rowLock, userLock, erased, carried, stored, closings, reopenings, late, breaks>>,
         next.op \notin SentOps,
         next.user \in erased \ late => next.op \notin NewOps \cup {"new"},
         \A v \in Workers \ {w} : Opening(v) => next.ticket # work[v].ticket,
         WorkSound(w)', LocksSound(w)'
  PROVE TicketsInv'
<1>1. TicketTypes
  BY DEF TicketsInv
<1>2. \A t \in Tickets : stored[t] + Cardinality(Sent(t)') <= carried'[t]
  <2> SUFFICES ASSUME NEW t \in Tickets PROVE stored[t] + Cardinality(Sent(t)') <= carried[t]
    OBVIOUS
  <2>1. Cardinality(Sent(t)') <= Cardinality(Sent(t))
    BY <1>1, SentLess
  <2> QED
    BY <1>1, <2>1, SentCounted DEF TicketsInv, Counted, TicketTypes
<1> QED
  BY <1>1, <1>2, StepInv DEF TicketTypes

\* A worker at rest, or at a step that locks nothing, holds nothing.
LEMMA HoldsNothing ==
  ASSUME TicketsInv, NEW w \in Workers, work[w].op \in {"idle", "auto", "new", "erase"}
  PROVE /\ \A t \in Tickets : rowLock[t] # w
        /\ \A u \in Users : userLock[u] # w
  BY DEF TicketsInv, LocksSound, RowOps, LockedUserOps

\* An id that is being inserted has no row.
LEMMA OpeningIsAbsent ==
  ASSUME TicketsInv, NEW v \in Workers, Opening(v)
  PROVE work[v].ticket \in Tickets /\ ticket[work[v].ticket] = Absent
  BY DEF TicketsInv, WorkSound, Opening

LEMMA ArriveInv ==
  ASSUME TicketsInv, NEW w \in Workers, NEW u \in Users,
         NEW op \in {"new", "reply", "close", "erase"}, NEW t \in Tickets \cup {NoTicket},
         op \in {"reply", "close"} => t \in Tickets /\ ticket[t].user = u,
         t # NoTicket => ticket[t] # Absent,
         Arrive(w, u, op, t)
  PROVE TicketsInv'
<1> DEFINE next == [op |-> op, user |-> u, ticket |-> t, saw |-> "absent", todo |-> << >>]
<1>1. next \in WorkType /\ next.op = op /\ next.user = u /\ next.ticket = t /\ next.saw = "absent"
  BY DEF WorkType, WorkOps
<1>2. work' = [work EXCEPT ![w] = next]
  BY DEF Arrive
<1> HIDE DEF next
<1>3. work[w].op = "idle" /\ u \notin erased
      /\ UNCHANGED <<ticket, rowLock, userLock, erased, carried, stored, closings, reopenings, late, breaks>>
  BY TicketRecords DEF Arrive, ticketHistory
<1>4. work'[w] = next
  BY <1>2 DEF TicketsInv, TicketTypes
<1>5. WorkSound(w)'
  BY <1>1, <1>3, <1>4 DEF WorkSound, Opening, LooseOps, LockedUserOps, RowOps, NewOps
<1>6. LocksSound(w)'
  BY <1>3, HoldsNothing DEF LocksSound
<1>7. \A v \in Workers \ {w} : Opening(v) => next.ticket # work[v].ticket
  BY <1>1, OpeningIsAbsent, TicketRecords
<1> QED
  BY <1>1, <1>2, <1>3, <1>5, <1>6, <1>7, QuietInv DEF SentOps, NewOps

LEMMA LookForTicketInv ==
  ASSUME TicketsInv, NEW w \in Workers, LookForTicket(w)
  PROVE TicketsInv'
<1>1. PICK s \in WorkType : s = work[w]
  BY DEF TicketsInv, TicketTypes
<1>2. /\ s.op = "new" /\ userLock[s.user] = Free /\ userLock' = [userLock EXCEPT ![s.user] = w]
      /\ UNCHANGED <<ticket, rowLock, erased, carried, stored, closings, reopenings, late, breaks>>
  BY <1>1 DEF LookForTicket, TakeUser, ticketHistory
<1>3. s.user \in Users
  BY <1>1, <1>2 DEF TicketsInv, WorkSound, LooseOps
<1>4. PICK t \in Tickets, saw \in Active \cup {"absent"} :
        /\ work' = [work EXCEPT ![w] = [s EXCEPT !.op = "newFound", !.ticket = t, !.saw = saw]]
        /\ ActiveOf(s.user) \subseteq {t}
        /\ saw # "absent" => ticket[t].user = s.user /\ ticket[t] # Absent
        /\ saw = "absent" => ticket[t] = Absent
        /\ ticket[t] = Absent => \A v \in Workers : work[v].ticket # t
  <2>1. CASE ActiveOf(s.user) # {}
    <3>1. PICK t \in ActiveOf(s.user) :
            work' = [work EXCEPT ![w].op = "newFound", ![w].ticket = t, ![w].saw = ticket[t].status]
      BY <1>1, <2>1 DEF LookForTicket
    <3>2. t \in Tickets /\ ticket[t].user = s.user /\ IsActive(t) /\ ticket[t].status \in Active
      BY <3>1 DEF ActiveOf, IsActive
    <3>3. ticket[t] # Absent /\ ticket[t].status # "absent"
      BY <3>2, ActiveHasUser DEF Active
    <3>4. ActiveOf(s.user) \subseteq {t}
      BY <3>2 DEF TicketsInv, RowsSound, ActiveOf
    <3>5. work' = [work EXCEPT ![w] = [s EXCEPT !.op = "newFound", !.ticket = t, !.saw = ticket[t].status]]
      BY <1>1, <3>1 DEF TicketsInv, TicketTypes
    <3> QED
      BY <3>2, <3>3, <3>4, <3>5
  <2>2. CASE ActiveOf(s.user) = {}
    <3>1. PICK t \in Fresh : work' = [work EXCEPT ![w].op = "newFound", ![w].ticket = t]
      BY <1>1, <2>2 DEF LookForTicket
    <3>2. t \in Tickets /\ ticket[t] = Absent /\ \A v \in Workers : work[v].ticket # t
      BY <3>1 DEF Fresh
    <3>3. s.saw = "absent"
      BY <1>1, <1>2 DEF TicketsInv, WorkSound
    <3>4. [s EXCEPT !.op = "newFound", !.ticket = t] = [s EXCEPT !.op = "newFound", !.ticket = t, !.saw = "absent"]
      BY <3>3 DEF WorkType
    <3>5. work' = [work EXCEPT ![w] = [s EXCEPT !.op = "newFound", !.ticket = t]]
      BY <1>1, <3>1 DEF TicketsInv, TicketTypes
    <3>6. work' = [work EXCEPT ![w] = [s EXCEPT !.op = "newFound", !.ticket = t, !.saw = "absent"]]
      BY <3>4, <3>5
    <3> QED
      BY <2>2, <3>2, <3>6
  <2> QED
    BY <2>1, <2>2
<1> DEFINE next == [s EXCEPT !.op = "newFound", !.ticket = t, !.saw = saw]
<1>5. next \in WorkType /\ next.op = "newFound" /\ next.ticket = t /\ next.saw = saw /\ next.user = s.user
  BY DEF WorkType, WorkOps, LockedUserOps
<1>6. work' = [work EXCEPT ![w] = next]
  BY <1>4
<1> HIDE DEF next
<1>7. work'[w] = next /\ \A v \in Workers \ {w} : work'[v] = work[v]
  BY <1>6 DEF TicketsInv, TicketTypes
<1>8. ActiveOf(s.user)' = ActiveOf(s.user)
  BY <1>2 DEF ActiveOf, IsActive
<1>9. userLock'[s.user] = w
  BY <1>2, <1>3 DEF TicketsInv, TicketTypes
<1>10. WorkSound(w)'
  BY <1>2, <1>3, <1>4, <1>5, <1>7, <1>8, <1>9
     DEF WorkSound, Opening, LooseOps, LockedUserOps, RowOps, NewOps
<1>11. LocksSound(w)'
  <2>1. \A r \in Tickets : rowLock[r] # w
    BY <1>1, <1>2, HoldsNothing
  <2>2. \A u \in Users : u # s.user => userLock'[u] # w
    BY <1>1, <1>2, HoldsNothing DEF TicketsInv, TicketTypes
  <2> QED
    BY <1>2, <1>5, <1>7, <2>1, <2>2 DEF LocksSound, LockedUserOps
<1>12. \A v \in Workers \ {w} : Opening(v) => next.ticket # work[v].ticket
  BY <1>4, <1>5, OpeningIsAbsent
<1>13. next.user \in erased \ late => FALSE
  BY <1>1, <1>2, <1>5 DEF TicketsInv, Forgets
<1>14. TicketTypes
  BY DEF TicketsInv
<1>15. \A r \in Tickets : stored[r] + Cardinality(Sent(r)') <= carried'[r]
  <2> SUFFICES ASSUME NEW r \in Tickets PROVE stored[r] + Cardinality(Sent(r)') <= carried[r]
    BY <1>2
  <2>1. Cardinality(Sent(r)') <= Cardinality(Sent(r))
    BY <1>5, <1>6, <1>14, SentLess DEF SentOps
  <2> QED
    BY <1>14, <2>1, SentCounted DEF TicketsInv, Counted, TicketTypes
<1>16. /\ userLock' \in [Users -> Workers \cup {Free}]
       /\ \A u \in Users : userLock'[u] = userLock[u] \/ (userLock[u] = Free /\ userLock'[u] = w)
  BY <1>2, <1>14 DEF TicketTypes
<1> QED
  BY <1>2, <1>5, <1>6, <1>10, <1>11, <1>12, <1>13, <1>14, <1>15, <1>16, StepInv DEF TicketTypes

\* A step that takes a lock and says nothing.
LEMMA LockingInv ==
  ASSUME TicketsInv, NEW w \in Workers, NEW next \in WorkType,
         work' = [work EXCEPT ![w] = next],
         UNCHANGED <<ticket, erased, carried, stored, closings, reopenings, late, breaks>>,
         rowLock' = rowLock \/ \E t \in Tickets : rowLock[t] = Free /\ rowLock' = [rowLock EXCEPT ![t] = w],
         userLock' = userLock \/ \E u \in Users : userLock[u] = Free /\ userLock' = [userLock EXCEPT ![u] = w],
         next.op \notin SentOps,
         next.user \in erased \ late => next.op \notin NewOps \cup {"new"},
         \A v \in Workers \ {w} : Opening(v) => next.ticket # work[v].ticket,
         WorkSound(w)', LocksSound(w)'
  PROVE TicketsInv'
<1>1. TicketTypes
  BY DEF TicketsInv
<1>2. \A t \in Tickets : stored[t] + Cardinality(Sent(t)') <= carried'[t]
  <2> SUFFICES ASSUME NEW t \in Tickets PROVE stored[t] + Cardinality(Sent(t)') <= carried[t]
    OBVIOUS
  <2>1. Cardinality(Sent(t)') <= Cardinality(Sent(t))
    BY <1>1, SentLess
  <2> QED
    BY <1>1, <2>1, SentCounted DEF TicketsInv, Counted, TicketTypes
<1>3. /\ rowLock' \in [Tickets -> Workers \cup {Free}]
      /\ \A t \in Tickets : rowLock'[t] = rowLock[t] \/ (rowLock[t] = Free /\ rowLock'[t] = w)
  BY <1>1 DEF TicketTypes
<1>4. /\ userLock' \in [Users -> Workers \cup {Free}]
      /\ \A u \in Users : userLock'[u] = userLock[u] \/ (userLock[u] = Free /\ userLock'[u] = w)
  BY <1>1 DEF TicketTypes
<1> QED
  BY <1>1, <1>2, <1>3, <1>4, StepInv DEF TicketTypes

\* A message is delivered: one more is on its way into the history.
LEMMA SendInv ==
  ASSUME TicketsInv, NEW w \in Workers, NEW op \in SentOps,
         \/ work[w].op = "newFound" /\ op = "newSent"
         \/ work[w].op = "replyLocked" /\ op = "replySent"
         \/ work[w].op = "answerLocked" /\ op = "answerSent",
         Now(w, op), Carry(work[w].ticket),
         UNCHANGED <<ticket, rowLock, userLock, erased, stored, closings, reopenings, late, breaks>>
  PROVE TicketsInv'
<1>1. TicketTypes
  BY DEF TicketsInv
<1>2. PICK s \in WorkType : s = work[w]
  BY <1>1 DEF TicketTypes
<1> DEFINE next == [s EXCEPT !.op = op]
<1>3. /\ next \in WorkType /\ next.op = op /\ next.user = s.user /\ next.ticket = s.ticket
      /\ next.saw = s.saw /\ next.todo = s.todo
  BY DEF WorkType, WorkOps, LockedUserOps, RowOps, SentOps
<1>4. work' = [work EXCEPT ![w] = next]
  BY <1>1, <1>2 DEF Now, TicketTypes
<1> HIDE DEF next
<1>5. work'[w] = next /\ \A v \in Workers \ {w} : work'[v] = work[v]
  BY <1>1, <1>4 DEF TicketTypes
<1>6. WorkSound(w) /\ LocksSound(w) /\ s.ticket \in Tickets
  BY <1>2 DEF TicketsInv, WorkSound, NewOps, RowOps
<1>7. \A u \in Users : ActiveOf(u)' = ActiveOf(u) /\ \A t \in Tickets : IsActive(t)' = IsActive(t)
  BY DEF ActiveOf, IsActive
<1>8. WorkSound(w)'
  <2>1. s.user \in Users
    BY <1>2, <1>6 DEF WorkSound, LooseOps
  <2>2. op \in LockedUserOps => userLock[s.user] = w
    BY <1>2, <1>6 DEF WorkSound, LockedUserOps
  <2>3. op \in RowOps => ticket[s.ticket].user = s.user /\ rowLock[s.ticket] = w /\ IsActive(s.ticket)'
    BY <1>2, <1>6 DEF WorkSound, RowOps, IsActive
  <2>4. op \in NewOps => /\ ActiveOf(s.user)' \subseteq {s.ticket}
                         /\ s.saw # "absent" => ticket[s.ticket].user = s.user
    BY <1>2, <1>6, <1>7, <2>1 DEF WorkSound, NewOps
  <2>5. op \in NewOps /\ s.saw = "absent" =>
          ticket[s.ticket] = Absent /\ \A v \in Workers \ {w} : work'[v].ticket # s.ticket
    BY <1>2, <1>5, <1>6 DEF WorkSound, NewOps, Opening
  <2>6. op # "eraseRead" /\ op # "new" /\ op \notin {"reply", "close"}
    BY DEF SentOps
  <2> QED
    BY <1>3, <1>5, <1>6, <2>1, <2>2, <2>3, <2>4, <2>5, <2>6 DEF WorkSound, Opening
<1>9. LocksSound(w)'
  BY <1>2, <1>3, <1>5, <1>6 DEF LocksSound, RowOps, LockedUserOps
<1>10. next.user \in erased \ late => next.op \notin NewOps \cup {"new"}
  BY <1>2, <1>3 DEF TicketsInv, Forgets, NewOps
<1>11. \A v \in Workers \ {w} : Opening(v) => next.ticket # work[v].ticket
  BY <1>2, <1>3 DEF TicketsInv, WorkSound
<1>12. carried' = [carried EXCEPT ![s.ticket] = carried[s.ticket] + 1]
  BY <1>2 DEF Carry
<1>13. carried' \in [Tickets -> Nat]
  BY <1>1, <1>6, <1>12 DEF TicketTypes
<1>14. ASSUME NEW t \in Tickets PROVE stored[t] + Cardinality(Sent(t)') <= carried'[t]
  <2>1. Cardinality(Sent(t)') <= Cardinality(Sent(t)) + 1
        /\ (next.ticket # t => Cardinality(Sent(t)') <= Cardinality(Sent(t)))
    BY <1>1, <1>3, <1>4, SentMore
  <2>2. carried'[t] = IF t = s.ticket THEN carried[t] + 1 ELSE carried[t]
    BY <1>1, <1>12 DEF TicketTypes
  <2>3. stored[t] + Cardinality(Sent(t)) <= carried[t] /\ stored[t] \in Nat /\ carried[t] \in Nat
    BY <1>1 DEF TicketsInv, Counted, TicketTypes
  <2> QED
    BY <1>3, <2>1, <2>2, <2>3, SentCounted
<1> QED
  BY <1>1, <1>3, <1>4, <1>8, <1>9, <1>10, <1>11, <1>13, <1>14, StepInv DEF TicketTypes

LEMMA UserIsLockedInv ==
  ASSUME TicketsInv, NEW w \in Workers, UserIsLocked(w)
  PROVE TicketsInv'
<1>1. TicketTypes
  BY DEF TicketsInv
<1>2. PICK s \in WorkType : s = work[w]
  BY <1>1 DEF TicketTypes
<1>3. /\ s.op \in {"reply", "close"} /\ userLock[s.user] = Free /\ userLock' = [userLock EXCEPT ![s.user] = w]
      /\ UNCHANGED <<ticket, rowLock, erased, work, carried, stored, closings, reopenings, late, breaks>>
  BY <1>2 DEF UserIsLocked, TakeUser, ticketHistory
<1>4. work' = [work EXCEPT ![w] = s] /\ work'[w] = s
  BY <1>1, <1>2, <1>3 DEF TicketTypes
<1>5. WorkSound(w) /\ LocksSound(w) /\ s.user \in Users
  BY <1>2, <1>3 DEF TicketsInv, WorkSound, LooseOps
<1>6. WorkSound(w)'
  BY <1>2, <1>3, <1>4, <1>5 DEF WorkSound, Opening, LooseOps, LockedUserOps, RowOps, NewOps
<1>7. LocksSound(w)'
  BY <1>1, <1>2, <1>3, <1>4, <1>5 DEF LocksSound, TicketTypes
<1>8. \A v \in Workers \ {w} : Opening(v) => s.ticket # work[v].ticket
  BY <1>2 DEF TicketsInv, WorkSound
<1> QED
  BY <1>3, <1>4, <1>5, <1>6, <1>7, <1>8, LockingInv DEF SentOps, NewOps

LEMMA LockReplyInv ==
  ASSUME TicketsInv, NEW w \in Workers, LockReply(w)
  PROVE TicketsInv'
<1>1. TicketTypes
  BY DEF TicketsInv
<1>2. PICK s \in WorkType : s = work[w]
  BY <1>1 DEF TicketTypes
<1>3. /\ s.op = "reply" /\ userLock[s.user] = w /\ IsActive(s.ticket)
      /\ rowLock[s.ticket] = Free /\ rowLock' = [rowLock EXCEPT ![s.ticket] = w]
      /\ UNCHANGED <<ticket, userLock, erased, carried, stored, closings, reopenings, late, breaks>>
  BY <1>2 DEF LockReply, TakeRow, ticketHistory
<1> DEFINE next == [s EXCEPT !.op = "replyLocked"]
<1>4. /\ next \in WorkType /\ next.op = "replyLocked" /\ next.user = s.user /\ next.ticket = s.ticket
  BY DEF WorkType, WorkOps, LockedUserOps, RowOps, SentOps
<1>5. work' = [work EXCEPT ![w] = next]
  BY <1>1, <1>2 DEF LockReply, Now, TicketTypes
<1> HIDE DEF next
<1>6. work'[w] = next
  BY <1>1, <1>5 DEF TicketTypes
<1>7. WorkSound(w) /\ LocksSound(w) /\ s.user \in Users /\ s.ticket \in Tickets /\ ticket[s.ticket].user = s.user
  BY <1>2, <1>3 DEF TicketsInv, WorkSound, LooseOps
<1>8. IsActive(s.ticket)' /\ rowLock'[s.ticket] = w
  BY <1>1, <1>3, <1>7 DEF IsActive, TicketTypes
<1>9. WorkSound(w)'
  BY <1>3, <1>4, <1>6, <1>7, <1>8 DEF WorkSound, Opening, LooseOps, LockedUserOps, RowOps, NewOps
<1>10. LocksSound(w)'
  BY <1>1, <1>2, <1>3, <1>4, <1>6, <1>7 DEF LocksSound, TicketTypes, RowOps, LockedUserOps
<1>11. \A v \in Workers \ {w} : Opening(v) => next.ticket # work[v].ticket
  BY <1>2, <1>4 DEF TicketsInv, WorkSound
<1> QED
  BY <1>3, <1>4, <1>5, <1>7, <1>9, <1>10, <1>11, LockingInv DEF SentOps, NewOps

LEMMA LockAnswerInv ==
  ASSUME TicketsInv, NEW w \in Workers, NEW t \in Tickets, LockAnswer(w, t)
  PROVE TicketsInv'
<1>1. TicketTypes
  BY DEF TicketsInv
<1>3. /\ work[w].op = "idle" /\ IsActive(t) /\ rowLock[t] = Free /\ rowLock' = [rowLock EXCEPT ![t] = w]
      /\ UNCHANGED <<ticket, userLock, erased, carried, stored, closings, reopenings, late, breaks>>
  BY TicketRecords DEF LockAnswer, TakeRow, ticketHistory
<1>2. ticket[t].user \in Users /\ ticket[t] # Absent
  BY <1>3, ActiveHasUser
<1> DEFINE next == [AtRest EXCEPT !.op = "answerLocked", !.ticket = t, !.user = ticket[t].user]
<1>4. /\ next \in WorkType /\ next.op = "answerLocked" /\ next.user = ticket[t].user /\ next.ticket = t
  BY <1>2, TicketRecords DEF WorkType, WorkOps, LockedUserOps, RowOps, SentOps
<1>5. work' = [work EXCEPT ![w] = next]
  BY DEF LockAnswer
<1> HIDE DEF next
<1>6. work'[w] = next
  BY <1>1, <1>5 DEF TicketTypes
<1>8. IsActive(t)' /\ rowLock'[t] = w
  BY <1>1, <1>3 DEF IsActive, TicketTypes
<1>9. WorkSound(w)'
  BY <1>2, <1>3, <1>4, <1>6, <1>8 DEF WorkSound, Opening, LooseOps, LockedUserOps, RowOps, NewOps
<1>10. LocksSound(w)'
  BY <1>1, <1>3, <1>4, <1>6, HoldsNothing DEF LocksSound, TicketTypes, RowOps, LockedUserOps
<1>11. \A v \in Workers \ {w} : Opening(v) => next.ticket # work[v].ticket
  BY <1>2, <1>4, OpeningIsAbsent
<1> QED
  BY <1>3, <1>4, <1>5, <1>9, <1>10, <1>11, LockingInv DEF SentOps, NewOps

LEMMA AnswerForbiddenInv ==
  ASSUME TicketsInv, NEW w \in Workers, AnswerForbidden(w)
  PROVE TicketsInv'
<1>1. TicketTypes
  BY DEF TicketsInv
<1>2. PICK s \in WorkType : s = work[w]
  BY <1>1 DEF TicketTypes
<1>3. /\ s.op = "answerLocked"
      /\ UNCHANGED <<ticket, rowLock, userLock, erased, carried, stored, closings, reopenings, late, breaks>>
  BY <1>2 DEF AnswerForbidden, ticketHistory
<1> DEFINE next == [s EXCEPT !.op = "marking"]
<1>4. /\ next \in WorkType /\ next.op = "marking" /\ next.user = s.user /\ next.ticket = s.ticket
  BY DEF WorkType, WorkOps, LockedUserOps, RowOps, SentOps
<1>5. work' = [work EXCEPT ![w] = next]
  BY <1>1, <1>2 DEF AnswerForbidden, Now, TicketTypes
<1> HIDE DEF next
<1>6. work'[w] = next
  BY <1>1, <1>5 DEF TicketTypes
<1>7. /\ WorkSound(w) /\ LocksSound(w) /\ s.user \in Users /\ s.ticket \in Tickets
      /\ ticket[s.ticket].user = s.user /\ rowLock[s.ticket] = w /\ IsActive(s.ticket)'
  BY <1>2, <1>3 DEF TicketsInv, WorkSound, LooseOps, RowOps, IsActive
<1>9. WorkSound(w)'
  BY <1>3, <1>4, <1>6, <1>7 DEF WorkSound, Opening, LooseOps, LockedUserOps, RowOps, NewOps
<1>10. LocksSound(w)'
  BY <1>2, <1>3, <1>4, <1>6, <1>7 DEF LocksSound, RowOps, LockedUserOps
<1>11. \A v \in Workers \ {w} : Opening(v) => next.ticket # work[v].ticket
  BY <1>2, <1>4 DEF TicketsInv, WorkSound
<1> QED
  BY <1>3, <1>4, <1>5, <1>9, <1>10, <1>11, QuietInv DEF SentOps, NewOps

\* What the two ways of putting tickets into a sequence give.
LEMMA SeqsOfTickets ==
  ASSUME NEW S \in SUBSET Tickets
  PROVE /\ SetToSeqs(S) \subseteq Seq(Tickets)
        /\ SetToSeq(S) \in Seq(Tickets) /\ ToSet(SetToSeq(S)) = S
<1> DEFINE n == Cardinality(S)
<1>1. IsFiniteSet(S) /\ n \in Nat
  BY TicketsAssumption, FS_Subset, FS_CardinalityType
<1>2. SetToSeqs(S) \subseteq Seq(Tickets)
  <2> SUFFICES ASSUME NEW s \in SetToSeqs(S) PROVE s \in Seq(Tickets)
    OBVIOUS
  <2>1. s \in [1..n -> S]
    BY DEF SetToSeqs
  <2> QED
    BY <1>1, <2>1
<1>3. PICK g \in [1..n -> S] : IsInjective(g)
  <2>1. ExistsBijection(1..n, S)
    BY <1>1, FS_CardinalityType
  <2> QED
    BY <2>1 DEF ExistsBijection, Bijection, Injection
<1>4. SetToSeq(S) \in [1..n -> S] /\ IsInjective(SetToSeq(S))
  BY <1>3 DEF SetToSeq
<1>5. SetToSeq(S) \in Injection(1..n, S)
  BY <1>4 DEF Injection
<1>6. Cardinality(1..n) = n
  BY <1>1, FS_Interval
<1>7. SetToSeq(S) \in Surjection(1..n, S)
  BY <1>1, <1>5, <1>6, FS_Injection
<1>8. ToSet(SetToSeq(S)) = S
  BY <1>4, <1>7 DEF Surjection, ToSet
<1>9. SetToSeq(S) \in Seq(Tickets)
  BY <1>1, <1>4
<1> QED
  BY <1>2, <1>8, <1>9

\* The lists of the bulk close and of the auto-close job.
LEMMA ListInv ==
  ASSUME TicketsInv, NEW w \in Workers, NEW op \in {"bulk", "auto"}, NEW s \in Seq(Tickets),
         work[w] = AtRest, work' = [work EXCEPT ![w] = [AtRest EXCEPT !.op = op, !.todo = s]],
         UNCHANGED <<ticket, rowLock, userLock, erased, ticketHistory>>
  PROVE TicketsInv'
<1>1. TicketTypes
  BY DEF TicketsInv
<1> DEFINE next == [AtRest EXCEPT !.op = op, !.todo = s]
<1>2. /\ next \in WorkType /\ next.op = op /\ next.ticket = NoTicket
  BY TicketRecords DEF WorkType, WorkOps, LooseOps
<1>3. work' = [work EXCEPT ![w] = next]
  OBVIOUS
<1> HIDE DEF next
<1>4. work[w].op = "idle"
      /\ UNCHANGED <<ticket, rowLock, userLock, erased, carried, stored, closings, reopenings, late, breaks>>
  BY TicketRecords DEF ticketHistory
<1>5. work'[w] = next
  BY <1>1, <1>3 DEF TicketTypes
<1>6. WorkSound(w)'
  BY <1>2, <1>5 DEF WorkSound, Opening, LooseOps, LockedUserOps, RowOps, NewOps
<1>7. LocksSound(w)'
  BY <1>4, HoldsNothing DEF LocksSound
<1>8. \A v \in Workers \ {w} : Opening(v) => next.ticket # work[v].ticket
  BY <1>2, OpeningIsAbsent, TicketRecords
<1> QED
  BY <1>2, <1>3, <1>4, <1>6, <1>7, <1>8, QuietInv DEF SentOps, NewOps

LEMMA BulkLocksInv ==
  ASSUME TicketsInv, NEW w \in Workers, BulkLocks(w)
  PROVE TicketsInv'
<1>1. TicketTypes
  BY DEF TicketsInv
<1>2. PICK s \in WorkType : s = work[w]
  BY <1>1 DEF TicketTypes
<1>3. /\ s.op = "bulk" /\ s.todo # << >>
      /\ rowLock[Head(s.todo)] = Free /\ rowLock' = [rowLock EXCEPT ![Head(s.todo)] = w]
      /\ UNCHANGED <<ticket, userLock, erased, carried, stored, closings, reopenings, late, breaks>>
  BY <1>2 DEF BulkLocks, TakeRow, ticketHistory
<1>4. Head(s.todo) \in Tickets /\ Tail(s.todo) \in Seq(Tickets)
  BY <1>3 DEF WorkType
<1>5. PICK left \in Seq(Tickets) : left = Tail(s.todo)
  BY <1>4
<1> DEFINE next == [s EXCEPT !.todo = left]
<1>6. /\ next \in WorkType /\ next.op = s.op /\ next.user = s.user /\ next.ticket = s.ticket
  BY DEF WorkType
<1>7. work' = [work EXCEPT ![w] = next]
  BY <1>1, <1>2, <1>5 DEF BulkLocks, TicketTypes
<1> HIDE DEF next
<1>8. work'[w] = next /\ LocksSound(w)
  BY <1>1, <1>7 DEF TicketTypes, TicketsInv
<1>9. WorkSound(w)'
  BY <1>3, <1>6, <1>8 DEF WorkSound, Opening, LooseOps, LockedUserOps, RowOps, NewOps
<1>10. LocksSound(w)'
  BY <1>2, <1>3, <1>6, <1>8 DEF LocksSound
<1>11. \A v \in Workers \ {w} : Opening(v) => next.ticket # work[v].ticket
  BY <1>2, <1>6 DEF TicketsInv, WorkSound
<1> QED
  BY <1>3, <1>4, <1>6, <1>7, <1>9, <1>10, <1>11, LockingInv DEF SentOps, NewOps

LEMMA EraseReadsInv ==
  ASSUME TicketsInv, NEW w \in Workers, EraseReads(w)
  PROVE TicketsInv'
<1>1. TicketTypes
  BY DEF TicketsInv
<1>2. PICK s \in WorkType : s = work[w]
  BY <1>1 DEF TicketTypes
<1>3. /\ s.op = "erase" /\ userLock[s.user] = Free /\ userLock' = [userLock EXCEPT ![s.user] = w]
      /\ UNCHANGED <<ticket, rowLock, erased, carried, stored, closings, reopenings, late, breaks>>
  BY <1>2 DEF EraseReads, TakeUser, ticketHistory
<1>4. s.user \in Users /\ LocksSound(w)
  BY <1>2, <1>3 DEF TicketsInv, WorkSound, LooseOps
<1>5. PICK todo \in Seq(Tickets) : todo = SetToSeq(ActiveOf(s.user)) /\ ToSet(todo) = ActiveOf(s.user)
  <2>1. ActiveOf(s.user) \in SUBSET Tickets
    BY DEF ActiveOf
  <2> QED
    BY <2>1, SeqsOfTickets
<1> DEFINE next == [s EXCEPT !.op = "eraseRead", !.todo = todo]
<1>6. /\ next \in WorkType /\ next.op = "eraseRead" /\ next.user = s.user /\ next.ticket = s.ticket
      /\ next.todo = todo
  BY DEF WorkType, WorkOps, LockedUserOps
<1>7. work' = [work EXCEPT ![w] = next]
  BY <1>1, <1>2, <1>5 DEF EraseReads, TicketTypes
<1> HIDE DEF next
<1>8. work'[w] = next /\ userLock'[s.user] = w
  BY <1>1, <1>3, <1>4, <1>7 DEF TicketTypes
<1>9. WorkSound(w)'
  <2>1. ActiveOf(s.user)' = ActiveOf(s.user) /\ \A t \in ActiveOf(s.user) : t \in Tickets /\ ticket[t].user = s.user
    BY <1>3 DEF ActiveOf, IsActive
  <2> QED
    BY <1>3, <1>4, <1>5, <1>6, <1>8, <2>1 DEF WorkSound, Opening, LooseOps, LockedUserOps, RowOps, NewOps
<1>10. LocksSound(w)'
  <2>1. \A r \in Tickets : rowLock[r] # w
    BY <1>2, <1>3, HoldsNothing
  <2>2. \A u \in Users : u # s.user => userLock'[u] # w
    BY <1>1, <1>2, <1>3, HoldsNothing DEF TicketTypes
  <2> QED
    BY <1>3, <1>6, <1>8, <2>1, <2>2 DEF LocksSound, LockedUserOps
<1>11. \A v \in Workers \ {w} : Opening(v) => next.ticket # work[v].ticket
  BY <1>2, <1>6 DEF TicketsInv, WorkSound
<1> QED
  BY <1>3, <1>4, <1>6, <1>7, <1>9, <1>10, <1>11, LockingInv DEF SentOps, NewOps

-----------------------------------------------------------------------------
(* The steps that close tickets.                                           *)

LEMMA UserClosesInv ==
  ASSUME TicketsInv, NEW w \in Workers, UserCloses(w)
  PROVE TicketsInv'
<1> DEFINE t == work[w].ticket
           S == IF IsActive(t) THEN {t} ELSE {}
<1>1. TicketTypes /\ Finish(w) /\ rowLock[t] = Free /\ t \in Tickets
      /\ UNCHANGED <<erased, carried, stored, reopenings, late, breaks>>
  BY DEF TicketsInv, UserCloses, WorkSound
<1>2. Gone(w) /\ \A v \in Workers \ {w} : Kept(v)
  BY <1>1, FinishEffects
<1>3. /\ ticket' = IF IsActive(t) THEN [ticket EXCEPT ![t].status = "closed"] ELSE ticket
      /\ closings' = IF IsActive(t) THEN [closings EXCEPT ![t] = closings[t] + 1] ELSE closings
  BY DEF UserCloses, Close, Closed
<1>4. ticket' \in [Tickets -> TicketType] /\ closings' \in [Tickets -> Nat]
  BY <1>1, <1>3 DEF TicketTypes, TicketType
<1>5. TicketTypes'
  BY <1>1, <1>4, FinishEffects DEF TicketTypes
<1>6. IsActive(t) => ticket[t] # Absent
  BY <1>1, ActiveHasUser
<1>7. /\ \A r \in Tickets :
           /\ ticket'[r].user = ticket[r].user /\ ticket'[r].texts = ticket[r].texts
           /\ ticket[r] = Absent => ticket'[r] = Absent
           /\ ticket'[r].status = IF r \in S THEN "closed" ELSE ticket[r].status
      /\ \A r \in Tickets : closings'[r] = closings[r] + (IF r \in S THEN 1 ELSE 0)
  BY <1>1, <1>3, <1>6 DEF TicketTypes, TicketType
<1>8. S \in SUBSET Tickets /\ \A r \in S : IsActive(r) /\ \A v \in Workers : Kept(v) => rowLock[r] # v
  BY <1>1, LocksAssumption
<1> HIDE DEF S
<1> QED
  BY <1>1, <1>2, <1>5, <1>7, <1>8, ClosingInv

LEMMA StaffClosesInv ==
  ASSUME TicketsInv, NEW t \in Tickets, StaffCloses(t)
  PROVE TicketsInv'
<1>1. TicketTypes /\ rowLock[t] = Free /\ IsActive(t)
      /\ UNCHANGED <<rowLock, userLock, work, erased, carried, stored, reopenings, late, breaks>>
  BY DEF TicketsInv, StaffCloses
<1>2. \A v \in Workers : Kept(v)
  BY <1>1 DEF Kept
<1>3. /\ ticket' = [ticket EXCEPT ![t].status = "closed"]
      /\ closings' = [closings EXCEPT ![t] = closings[t] + 1]
  BY <1>1 DEF StaffCloses, Close, Closed
<1>4. ticket' \in [Tickets -> TicketType] /\ closings' \in [Tickets -> Nat]
  BY <1>1, <1>3 DEF TicketTypes, TicketType
<1>5. TicketTypes'
  BY <1>1, <1>4 DEF TicketTypes
<1>6. ticket[t] # Absent
  BY <1>1, ActiveHasUser
<1>7. /\ \A r \in Tickets :
           /\ ticket'[r].user = ticket[r].user /\ ticket'[r].texts = ticket[r].texts
           /\ ticket[r] = Absent => ticket'[r] = Absent
           /\ ticket'[r].status = IF r \in {t} THEN "closed" ELSE ticket[r].status
      /\ \A r \in Tickets : closings'[r] = closings[r] + (IF r \in {t} THEN 1 ELSE 0)
  BY <1>1, <1>3, <1>6 DEF TicketTypes, TicketType
<1>8. {t} \in SUBSET Tickets /\ \A r \in {t} : IsActive(r) /\ \A v \in Workers : Kept(v) => rowLock[r] # v
  BY <1>1, LocksAssumption
<1> QED
  BY <1>1, <1>2, <1>5, <1>7, <1>8, ClosingInv

LEMMA BulkCommitsInv ==
  ASSUME TicketsInv, NEW w \in Workers, BulkCommits(w)
  PROVE TicketsInv'
<1> DEFINE S == {t \in Tickets : rowLock[t] = w /\ IsActive(t)}
<1>1. TicketTypes /\ Finish(w)
      /\ UNCHANGED <<erased, carried, stored, reopenings, late, breaks>>
  BY DEF TicketsInv, BulkCommits
<1>2. Gone(w) /\ \A v \in Workers \ {w} : Kept(v)
  BY <1>1, FinishEffects
<1>3. /\ ticket' = [t \in Tickets |-> IF t \in S THEN [ticket[t] EXCEPT !.status = "closed"] ELSE ticket[t]]
      /\ closings' = [t \in Tickets |-> closings[t] + (IF t \in S THEN 1 ELSE 0)]
  BY DEF BulkCommits, Held
<1>4. ticket' \in [Tickets -> TicketType]
  <2>1. \A t \in Tickets : [ticket[t] EXCEPT !.status = "closed"] \in TicketType
    BY <1>1 DEF TicketTypes, TicketType
  <2> QED
    BY <1>1, <1>3, <2>1 DEF TicketTypes
<1>9. closings' \in [Tickets -> Nat]
  BY <1>1, <1>3 DEF TicketTypes
<1>5. TicketTypes'
  BY <1>1, <1>4, <1>9, FinishEffects DEF TicketTypes
<1>6. \A t \in S : ticket[t] # Absent
  BY <1>1, ActiveHasUser
<1>7. /\ \A r \in Tickets :
           /\ ticket'[r].user = ticket[r].user /\ ticket'[r].texts = ticket[r].texts
           /\ ticket[r] = Absent => ticket'[r] = Absent
           /\ ticket'[r].status = IF r \in S THEN "closed" ELSE ticket[r].status
  BY <1>1, <1>3, <1>6 DEF TicketTypes, TicketType
<1>10. \A r \in Tickets : closings'[r] = closings[r] + (IF r \in S THEN 1 ELSE 0)
  BY <1>3
<1>8. S \in SUBSET Tickets /\ \A r \in S : IsActive(r) /\ \A v \in Workers : Kept(v) => rowLock[r] # v
  BY <1>2 DEF Kept, Gone
<1> HIDE DEF S
<1> QED
  BY <1>1, <1>2, <1>5, <1>7, <1>8, <1>10, ClosingInv

LEMMA AutoClosesInv ==
  ASSUME TicketsInv, NEW w \in Workers, AutoCloses(w)
  PROVE TicketsInv'
<1>1. TicketTypes
  BY DEF TicketsInv
<1>2. PICK s \in WorkType : s = work[w]
  BY <1>1 DEF TicketTypes
<1>3. /\ s.op = "auto" /\ s.todo # << >> /\ Head(s.todo) \in Tickets /\ Tail(s.todo) \in Seq(Tickets)
      /\ UNCHANGED <<rowLock, userLock, erased, carried, stored, reopenings, late, breaks>>
  BY <1>2 DEF AutoCloses, WorkType
<1>4. PICK t \in Tickets, left \in Seq(Tickets) : t = Head(s.todo) /\ left = Tail(s.todo)
  BY <1>3
<1> DEFINE next == [s EXCEPT !.todo = left]
           S == IF IsActive(t) THEN {t} ELSE {}
<1>5. next \in WorkType /\ next.op = "auto" /\ next.ticket = s.ticket
  BY <1>3 DEF WorkType
<1>6. work' = [work EXCEPT ![w] = next]
  BY <1>1, <1>2, <1>4 DEF AutoCloses, TicketTypes
<1> HIDE DEF next
<1>7. work' \in [Workers -> WorkType] /\ work'[w] = next /\ \A v \in Workers \ {w} : work'[v] = work[v]
  BY <1>1, <1>5, <1>6 DEF TicketTypes
<1>8. Gone(w) /\ \A v \in Workers \ {w} : Kept(v)
  BY <1>2, <1>3, <1>5, <1>7, HoldsNothing DEF Gone, Kept
<1>9. /\ rowLock[t] = Free
      /\ ticket' = IF IsActive(t) THEN [ticket EXCEPT ![t].status = "closed"] ELSE ticket
      /\ closings' = IF IsActive(t) THEN [closings EXCEPT ![t] = closings[t] + 1] ELSE closings
  BY <1>2, <1>4 DEF AutoCloses, Close, Closed
<1>10. ticket' \in [Tickets -> TicketType] /\ closings' \in [Tickets -> Nat]
  <2>1. CASE IsActive(t)
    <3>1. /\ ticket' = [ticket EXCEPT ![t].status = "closed"]
          /\ closings' = [closings EXCEPT ![t] = closings[t] + 1]
      BY <1>9, <2>1
    <3>2. ticket' \in [Tickets -> TicketType]
      BY <1>1, <3>1 DEF TicketTypes, TicketType
    <3>3. closings' \in [Tickets -> Nat]
      BY <1>1, <3>1 DEF TicketTypes
    <3> QED
      BY <3>2, <3>3
  <2>2. CASE ~IsActive(t)
    BY <1>1, <1>9, <2>2 DEF TicketTypes
  <2> QED
    BY <2>1, <2>2
<1>11. TicketTypes'
  BY <1>1, <1>3, <1>7, <1>10 DEF TicketTypes
<1>12. IsActive(t) => ticket[t] # Absent
  BY ActiveHasUser
<1>13. /\ \A r \in Tickets :
            /\ ticket'[r].user = ticket[r].user /\ ticket'[r].texts = ticket[r].texts
            /\ ticket[r] = Absent => ticket'[r] = Absent
            /\ ticket'[r].status = IF r \in S THEN "closed" ELSE ticket[r].status
       /\ \A r \in Tickets : closings'[r] = closings[r] + (IF r \in S THEN 1 ELSE 0)
  BY <1>1, <1>9, <1>12 DEF TicketTypes, TicketType
<1>14. S \in SUBSET Tickets /\ \A r \in S : IsActive(r) /\ \A v \in Workers : Kept(v) => rowLock[r] # v
  BY <1>9, LocksAssumption
<1> HIDE DEF S
<1> QED
  BY <1>3, <1>8, <1>11, <1>13, <1>14, ClosingInv

LEMMA HoursPassInv ==
  ASSUME TicketsInv, NEW t \in Tickets, HoursPass(t)
  PROVE TicketsInv'
<1>1. TicketTypes /\ ticket[t].recent /\ ticket' = [ticket EXCEPT ![t].recent = FALSE]
      /\ UNCHANGED <<rowLock, userLock, erased, work, carried, stored, closings, reopenings, late, breaks>>
  BY DEF TicketsInv, HoursPass, ticketHistory
<1>2. \A v \in Workers : Kept(v)
  BY <1>1 DEF Kept
<1>3. ticket' \in [Tickets -> TicketType]
  BY <1>1 DEF TicketTypes, TicketType
<1>4. TicketTypes'
  BY <1>1, <1>3 DEF TicketTypes
<1>5. ticket[t] # Absent
  BY <1>1 DEF Absent
<1>6. \A r \in Tickets :
        /\ ticket'[r].user = ticket[r].user /\ ticket'[r].texts = ticket[r].texts
        /\ ticket[r] = Absent => ticket'[r] = Absent
        /\ ticket'[r].status = ticket[r].status
  BY <1>1, <1>5 DEF TicketTypes, TicketType
<1>7. \A r \in Tickets : closings'[r] = closings[r] + (IF r \in {} THEN 1 ELSE 0)
  BY <1>1 DEF TicketTypes
<1>8. PICK S \in SUBSET Tickets : S = {}
  OBVIOUS
<1> QED
  BY <1>1, <1>2, <1>4, <1>6, <1>7, <1>8, ClosingInv

-----------------------------------------------------------------------------
(* The steps that write messages.                                          *)

\* A worker says what is written when it ends.
LEMMA StoredInv ==
  ASSUME TicketTypes, Counted, NEW w \in Workers, Finish(w), work[w].op \in SentOps, NEW t \in Tickets,
         t = work[w].ticket, stored' = [stored EXCEPT ![t] = @ + 1], UNCHANGED carried
  PROVE Counted'
<1>1. work' = [work EXCEPT ![w] = AtRest]
  BY FinishEffects
<1> SUFFICES ASSUME NEW r \in Tickets PROVE stored'[r] + Cardinality(Sent(r)') <= carried[r]
  BY DEF Counted
<1>2. /\ Cardinality(Sent(r)') <= Cardinality(Sent(r))
      /\ w \in Sent(r) => Cardinality(Sent(r)') = Cardinality(Sent(r)) - 1
  BY <1>1, SentLess, TicketRecords DEF SentOps
<1>3. stored[r] + Cardinality(Sent(r)) <= carried[r] /\ stored[r] \in Nat /\ carried[r] \in Nat
  BY DEF Counted, TicketTypes
<1>4. CASE r = t
  <2>1. w \in Sent(r) /\ stored'[r] = stored[r] + 1
    BY <1>4 DEF Sent, TicketTypes
  <2> QED
    BY <1>2, <1>3, <2>1, SentCounted
<1>5. CASE r # t
  <2>1. stored'[r] = stored[r]
    BY <1>5 DEF TicketTypes
  <2> QED
    BY <1>2, <1>3, <2>1, SentCounted
<1> QED
  BY <1>4, <1>5

\* A locked ticket is still open when the answer or the reply is recorded.
LEMMA RecordInv ==
  ASSUME TicketsInv, NEW w \in Workers, work[w].op \in {"replySent", "answerSent"},
         NEW status \in Active, Record(work[w].ticket, status), Finish(w),
         UNCHANGED <<erased, carried, closings, reopenings, late, breaks>>
  PROVE TicketsInv'
<1>1. TicketTypes
  BY DEF TicketsInv
<1>2. PICK t \in Tickets : t = work[w].ticket
  BY DEF TicketsInv, WorkSound, RowOps
<1>3. IsActive(t) /\ rowLock[t] = w
  BY <1>2 DEF TicketsInv, WorkSound, RowOps
<1>4. ticket[t].user \in Users /\ ticket[t] # Absent
  BY <1>3, ActiveHasUser
<1>5. /\ ticket' = [ticket EXCEPT ![t].status = status, ![t].recent = TRUE, ![t].texts = @ + 1]
      /\ stored' = [stored EXCEPT ![t] = @ + 1]
  BY <1>2 DEF Record
<1>6. ticket' \in [Tickets -> TicketType] /\ stored' \in [Tickets -> Nat]
  BY <1>1, <1>5 DEF TicketTypes, TicketType
<1>7. TicketTypes'
  BY <1>1, <1>6, FinishEffects DEF TicketTypes
<1>8. Gone(w) /\ \A v \in Workers \ {w} : Kept(v)
  BY <1>1, FinishEffects
<1>9. /\ ticket'[t].user = ticket[t].user /\ ticket'[t].status = status
      /\ \A r \in Tickets \ {t} : ticket'[r] = ticket[r]
  BY <1>1, <1>5 DEF TicketTypes, TicketType
<1>10. /\ \A r \in Tickets : ticket'[r].user = ticket[r].user /\ IsActive(r)' = IsActive(r)
       /\ \A u \in Users : ActiveOf(u)' = ActiveOf(u)
  <2>1. \A r \in Tickets : ticket'[r].user = ticket[r].user /\ IsActive(r)' = IsActive(r)
    BY <1>3, <1>9 DEF IsActive
  <2> QED
    BY <2>1 DEF ActiveOf
<1>11. \A v \in Workers : Opening(v) => ticket'[work[v].ticket] = Absent
  BY <1>4, <1>9, OpeningIsAbsent
<1>12. \A v \in Workers : WorkSound(v)' /\ LocksSound(v)'
  BY <1>8, <1>10, <1>11, WorkersKept
<1>13. RowsSound'
  <2>1. \A r \in Tickets : ticket'[r].user = "none" \/ ticket'[r].status = "absent" => ticket'[r] = Absent
    BY <1>4, <1>9, LocksAssumption DEF TicketsInv, RowsSound, Active
  <2>2. \A r, q \in Tickets : IsActive(r)' /\ IsActive(q)' /\ ticket'[r].user = ticket'[q].user => r = q
    BY <1>10 DEF TicketsInv, RowsSound
  <2> QED
    BY <2>1, <2>2 DEF RowsSound
<1>14. Counted'
  BY <1>1, <1>2, <1>5, StoredInv DEF TicketsInv, SentOps
<1>15. ClosingIsRecordedOnce'
  <2> SUFFICES ASSUME NEW r \in Tickets, ticket'[r].user \notin erased
               PROVE closings[r] = reopenings[r] + (IF ticket'[r].status = "closed" THEN 1 ELSE 0)
    BY DEF ClosingIsRecordedOnce
  <2>1. closings[r] = reopenings[r] + (IF ticket[r].status = "closed" THEN 1 ELSE 0)
    BY <1>10 DEF TicketsInv, ClosingIsRecordedOnce
  <2>2. ticket'[r].status = "closed" <=> ticket[r].status = "closed"
    BY <1>3, <1>9 DEF IsActive, Active
  <2> QED
    BY <2>1, <2>2
<1>16. Forgets'
  <2> SUFFICES ASSUME NEW u \in erased \ late
               PROVE /\ \A r \in Tickets : ticket'[r].user = u => ticket'[r].texts = 0 /\ ~IsActive(r)'
                     /\ \A v \in Workers : work'[v].user = u => work'[v].op \notin NewOps \cup {"new"}
    BY DEF Forgets
  <2>1. /\ \A r \in Tickets : ticket[r].user = u => ticket[r].texts = 0 /\ ~IsActive(r)
        /\ \A v \in Workers : work[v].user = u => work[v].op \notin NewOps \cup {"new"}
    BY DEF TicketsInv, Forgets
  <2> QED
    BY <1>3, <1>8, <1>9, <1>10, <2>1 DEF Kept, Gone, NewOps
<1> QED
  BY <1>7, <1>12, <1>13, <1>14, <1>15, <1>16 DEF TicketsInv

\* The first message is recorded: of a ticket that was locked meanwhile, the worker knows
\* that it is the user's only one.
LEMMA SaveNewInv ==
  ASSUME TicketsInv, NEW w \in Workers, SaveNew(w)
  PROVE TicketsInv'
<1>1. TicketTypes
  BY DEF TicketsInv
<1>2. PICK s \in WorkType : s = work[w]
  BY <1>1 DEF TicketTypes
<1>3. s.op = "newSent" /\ WorkSound(w) /\ s.user \in Users /\ s.ticket \in Tickets
      /\ userLock[s.user] = w /\ ActiveOf(s.user) \subseteq {s.ticket}
  BY <1>2 DEF SaveNew, TicketsInv, WorkSound, NewOps, LockedUserOps, LooseOps
<1>4. PICK t \in Tickets : t = s.ticket
  BY <1>3
<1>5. PICK status \in Active \cup {"closed", "absent"} : status = Touched(t, s.saw)
  BY <1>1 DEF Touched, TicketTypes, TicketType, Active
<1>6. /\ rowLock[t] = Free /\ Finish(w)
      /\ ticket' = [ticket EXCEPT ![t] = [user |-> s.user, status |-> status, recent |-> TRUE, texts |-> @.texts + 1]]
      /\ reopenings' = [reopenings EXCEPT ![t] = @ + (IF ticket[t].status = "closed" /\ status # "closed" THEN 1 ELSE 0)]
      /\ stored' = [stored EXCEPT ![t] = @ + 1]
      /\ UNCHANGED <<erased, carried, closings, late, breaks>>
  BY <1>2, <1>4, <1>5 DEF SaveNew
<1>7. /\ s.saw = "absent" => ticket[t] = Absent /\ \A v \in Workers \ {w} : work[v].ticket # t
      /\ s.saw # "absent" => ticket[t].user = s.user /\ ticket[t].status # "absent"
  <2>1. s.saw = "absent" => ticket[t] = Absent /\ \A v \in Workers \ {w} : work[v].ticket # t
    BY <1>2, <1>3, <1>4 DEF WorkSound, Opening, NewOps
  <2>2. s.saw # "absent" => ticket[t].user = s.user
    BY <1>2, <1>3, <1>4 DEF WorkSound, NewOps
  <2>3. ticket[t].status = "absent" => ticket[t].user = "none"
    BY TicketRecords DEF TicketsInv, RowsSound
  <2> QED
    BY <1>3, <2>1, <2>2, <2>3, LocksAssumption
<1>8. status \in Active \cup {"closed"} /\ (ticket[t].status # "closed" => status # "closed")
  <2>1. status = IF s.saw = "waiting_operator" THEN ticket[t].status ELSE "waiting_operator"
    BY <1>5 DEF Touched
  <2>2. CASE s.saw = "waiting_operator"
    BY <1>5, <1>7, <2>1, <2>2
  <2>3. CASE s.saw # "waiting_operator"
    BY <2>1, <2>3 DEF Active
  <2> QED
    BY <2>2, <2>3
<1>9. ticket' \in [Tickets -> TicketType]
  <2>1. [user |-> s.user, status |-> status, recent |-> TRUE, texts |-> ticket[t].texts + 1] \in TicketType
    BY <1>1, <1>3 DEF TicketTypes, TicketType
  <2> QED
    BY <1>1, <1>6, <2>1 DEF TicketTypes
<1>10. /\ ticket'[t].user = s.user /\ ticket'[t].status = status
       /\ \A r \in Tickets \ {t} : ticket'[r] = ticket[r]
  BY <1>1, <1>6 DEF TicketTypes
<1>11. stored' \in [Tickets -> Nat] /\ reopenings' \in [Tickets -> Nat]
  BY <1>1, <1>6 DEF TicketTypes
<1>12. TicketTypes'
  BY <1>1, <1>6, <1>9, <1>11, FinishEffects DEF TicketTypes
<1>13. Gone(w) /\ \A v \in Workers \ {w} : Kept(v)
  BY <1>1, <1>6, FinishEffects
<1>14. \A r \in Tickets \ {t} : IsActive(r)' = IsActive(r)
  BY <1>10 DEF IsActive
<1>15. ASSUME NEW u \in Users, u # s.user PROVE ActiveOf(u)' \subseteq ActiveOf(u)
  BY <1>10, <1>14, <1>15 DEF ActiveOf
<1>16. ASSUME NEW v \in Workers \ {w}, Opening(v) PROVE ticket'[work[v].ticket] = Absent
  <2>1. /\ work[v].ticket \in Tickets /\ ticket[work[v].ticket] = Absent
        /\ \A x \in Workers \ {v} : work[x].ticket # work[v].ticket
    BY <1>16, OpeningIsAbsent DEF TicketsInv, WorkSound
  <2> QED
    BY <1>2, <1>4, <1>10, <2>1
<1>17. \A v \in Workers : Kept(v) => v # w
  BY <1>3, <1>13 DEF Kept, Gone
<1>18. \A v \in Workers : WorkSound(v)' /\ LocksSound(v)'
  <2>1. \A r \in Tickets : ticket[r] # Absent => ticket'[r].user = ticket[r].user
    BY <1>7, <1>10
  <2>2. \A v \in Workers : Kept(v) =>
          /\ \A r \in Tickets : rowLock[r] = v /\ IsActive(r) => IsActive(r)'
          /\ \A u \in Users : userLock[u] = v => ActiveOf(u)' \subseteq ActiveOf(u)
          /\ Opening(v) => ticket'[work[v].ticket] = Absent
    BY <1>3, <1>6, <1>14, <1>15, <1>16, <1>17, LocksAssumption
  <2> QED
    BY <1>13, <2>1, <2>2, WorkersKept
<1>19. RowsSound'
  <2>1. \A r \in Tickets : ticket'[r].user = "none" \/ ticket'[r].status = "absent" => ticket'[r] = Absent
    BY <1>3, <1>8, <1>10, LocksAssumption DEF TicketsInv, RowsSound, Active
  <2>2. ASSUME NEW r \in Tickets \ {t}, IsActive(r)', ticket'[r].user = s.user PROVE FALSE
    <3>1. r \in ActiveOf(s.user)
      BY <1>10, <1>14, <2>2 DEF ActiveOf
    <3> QED
      BY <1>3, <1>4, <3>1
  <2>3. \A r, q \in Tickets \ {t} : IsActive(r)' /\ IsActive(q)' /\ ticket'[r].user = ticket'[q].user => r = q
    BY <1>10, <1>14 DEF TicketsInv, RowsSound
  <2>4. \A r, q \in Tickets : IsActive(r)' /\ IsActive(q)' /\ ticket'[r].user = ticket'[q].user => r = q
    BY <1>10, <2>2, <2>3
  <2> QED
    BY <2>1, <2>4 DEF RowsSound
<1>20. Counted'
  BY <1>1, <1>2, <1>3, <1>4, <1>6, StoredInv DEF TicketsInv, SentOps
<1>21. ClosingIsRecordedOnce'
  <2> SUFFICES ASSUME NEW r \in Tickets, ticket'[r].user \notin erased
               PROVE closings[r] = reopenings'[r] + (IF ticket'[r].status = "closed" THEN 1 ELSE 0)
    BY <1>6 DEF ClosingIsRecordedOnce
  <2>1. CASE r # t
    <3>1. closings[r] = reopenings[r] + (IF ticket[r].status = "closed" THEN 1 ELSE 0)
      BY <1>10, <2>1 DEF TicketsInv, ClosingIsRecordedOnce
    <3>2. reopenings'[r] = reopenings[r]
      BY <1>1, <1>6, <2>1 DEF TicketTypes
    <3> QED
      BY <1>10, <2>1, <3>1, <3>2
  <2>2. CASE r = t
    <3>1. ticket[t].user \notin erased
      BY <1>7, <1>10, <2>2, TicketRecords, LocksAssumption DEF TicketsInv, TicketTypes
    <3>2. closings[t] = reopenings[t] + (IF ticket[t].status = "closed" THEN 1 ELSE 0)
      BY <3>1 DEF TicketsInv, ClosingIsRecordedOnce
    <3>3. reopenings'[t] = reopenings[t] + (IF ticket[t].status = "closed" /\ status # "closed" THEN 1 ELSE 0)
      BY <1>1, <1>6 DEF TicketTypes
    <3>4. closings[t] \in Nat /\ reopenings[t] \in Nat
      BY <1>1 DEF TicketTypes
    <3> QED
      BY <1>8, <1>10, <2>2, <3>2, <3>3, <3>4
  <2> QED
    BY <2>1, <2>2
<1>22. Forgets'
  <2> SUFFICES ASSUME NEW u \in erased \ late
               PROVE /\ \A r \in Tickets : ticket'[r].user = u => ticket'[r].texts = 0 /\ ~IsActive(r)'
                     /\ \A v \in Workers : work'[v].user = u => work'[v].op \notin NewOps \cup {"new"}
    BY <1>6 DEF Forgets
  <2>1. /\ \A r \in Tickets : ticket[r].user = u => ticket[r].texts = 0 /\ ~IsActive(r)
        /\ \A v \in Workers : work[v].user = u => work[v].op \notin NewOps \cup {"new"}
    BY DEF TicketsInv, Forgets
  <2>2. u # s.user
    BY <1>2, <1>3, <2>1 DEF NewOps
  <2> QED
    BY <1>10, <1>13, <1>14, <2>1, <2>2 DEF Kept, Gone, NewOps
<1> QED
  BY <1>12, <1>18, <1>19, <1>20, <1>21, <1>22 DEF TicketsInv

LEMMA EraseCommitsInv ==
  ASSUME TicketsInv, NEW w \in Workers, EraseCommits(w)
  PROVE TicketsInv'
<1>1. TicketTypes
  BY DEF TicketsInv
<1>2. PICK s \in WorkType : s = work[w]
  BY <1>1 DEF TicketTypes
<1>3. /\ s.op = "eraseRead" /\ s.user \in Users /\ userLock[s.user] = w
      /\ \A t \in ToSet(s.todo) : t \in Tickets /\ ticket[t].user = s.user
      /\ ActiveOf(s.user) \subseteq ToSet(s.todo)
  BY <1>2 DEF EraseCommits, TicketsInv, WorkSound, LockedUserOps, LooseOps
<1>4. PICK read \in SUBSET Tickets : read = ToSet(s.todo)
  BY <1>3
<1>5. /\ \A t \in read : rowLock[t] = Free
      /\ closings' = [t \in Tickets |-> closings[t] + (IF t \in read THEN 1 ELSE 0)]
      /\ erased' = erased \cup {s.user}
      /\ late' = IF \E v \in Workers \ {w} : work[v].user = s.user /\ work[v].op = "new"
                 THEN late \cup {s.user} ELSE late
      /\ Finish(w)
      /\ UNCHANGED <<carried, stored, reopenings, breaks>>
  BY <1>2, <1>4 DEF EraseCommits
<1>6. ticket' = [t \in Tickets |-> IF ticket[t].user = s.user THEN Forgotten(t, read) ELSE ticket[t]]
  BY <1>2, <1>4 DEF EraseCommits
<1>7. ASSUME NEW t \in Tickets
      PROVE /\ ticket'[t] \in TicketType
            /\ ticket'[t].user = ticket[t].user
            /\ ticket[t].user # s.user => ticket'[t] = ticket[t]
            /\ ticket[t].user = s.user => ticket'[t].texts = 0
            /\ ticket'[t].status = IF t \in read THEN "closed" ELSE ticket[t].status
  <2>1. ticket[t] \in TicketType
    BY <1>1 DEF TicketTypes
  <2>2. CASE ticket[t].user # s.user
    BY <1>3, <1>4, <1>6, <2>1, <2>2
  <2>3. CASE ticket[t].user = s.user
    <3> DEFINE now == IF t \in read THEN "closed" ELSE ticket[t].status
    <3>1. PICK old \in TicketType : old = ticket[t]
      BY <2>1
    <3>2. PICK status \in Active \cup {"closed", "absent"} : status = now
      BY <2>1 DEF TicketType
    <3> HIDE DEF now
    <3>3. ticket'[t] = [old EXCEPT !.texts = 0, !.status = status]
      BY <1>6, <2>3, <3>1, <3>2 DEF Forgotten, now
    <3> DEFINE new == [old EXCEPT !.texts = 0, !.status = status]
    <3>4. new \in TicketType /\ new.user = old.user /\ new.texts = 0 /\ new.status = status
      BY DEF TicketType
    <3> HIDE DEF new
    <3>5. ticket'[t] = new
      BY <3>3 DEF new
    <3> QED
      BY <2>3, <3>1, <3>2, <3>4, <3>5 DEF now
  <2> QED
    BY <2>2, <2>3
<1>8. ticket' \in [Tickets -> TicketType]
  BY <1>6, <1>7
<1>9. closings' \in [Tickets -> Nat] /\ erased' \subseteq Users /\ late' \subseteq Users
  BY <1>1, <1>3, <1>5 DEF TicketTypes
<1>10. TicketTypes'
  BY <1>1, <1>5, <1>8, <1>9, FinishEffects DEF TicketTypes
<1>11. Gone(w) /\ \A v \in Workers \ {w} : Kept(v)
  BY <1>1, <1>5, FinishEffects
<1>12. \A t \in Tickets : IsActive(t)' <=> IsActive(t) /\ t \notin read
  BY <1>7 DEF IsActive, Active
<1>13. \A u \in Users : ActiveOf(u)' \subseteq ActiveOf(u)
  BY <1>7, <1>12 DEF ActiveOf
<1>14. \A v \in Workers : Opening(v) => ticket'[work[v].ticket] = Absent
  BY <1>3, <1>7, OpeningIsAbsent, TicketRecords, LocksAssumption
<1>15. \A v \in Workers : WorkSound(v)' /\ LocksSound(v)'
  BY <1>5, <1>7, <1>11, <1>12, <1>13, <1>14, WorkersKept, LocksAssumption
<1>16. RowsSound'
  <2>1. ASSUME NEW t \in Tickets, ticket'[t].user = "none" \/ ticket'[t].status = "absent"
        PROVE ticket'[t] = Absent
    <3>1. ticket[t].user = "none" \/ ticket[t].status = "absent"
      BY <1>7, <2>1
    <3>2. ticket[t] = Absent
      BY <3>1 DEF TicketsInv, RowsSound
    <3> QED
      BY <1>3, <1>7, <3>2, TicketRecords, LocksAssumption
  <2>2. \A r, q \in Tickets : IsActive(r)' /\ IsActive(q)' /\ ticket'[r].user = ticket'[q].user => r = q
    BY <1>7, <1>12 DEF TicketsInv, RowsSound
  <2> QED
    BY <2>1, <2>2 DEF RowsSound
<1>17. Counted'
  <2> SUFFICES ASSUME NEW t \in Tickets PROVE stored[t] + Cardinality(Sent(t)') <= carried[t]
    BY <1>5 DEF Counted
  <2>1. Cardinality(Sent(t)') <= Cardinality(Sent(t))
    BY <1>11, SentGone
  <2> QED
    BY <1>1, <2>1, SentCounted DEF TicketsInv, Counted, TicketTypes
<1>18. ClosingIsRecordedOnce'
  <2> SUFFICES ASSUME NEW r \in Tickets, ticket'[r].user \notin erased'
               PROVE closings'[r] = reopenings[r] + (IF ticket'[r].status = "closed" THEN 1 ELSE 0)
    BY <1>5 DEF ClosingIsRecordedOnce
  <2>1. ticket[r].user \notin erased /\ ticket[r].user # s.user
    BY <1>5, <1>7
  <2>2. closings[r] = reopenings[r] + (IF ticket[r].status = "closed" THEN 1 ELSE 0)
    BY <2>1 DEF TicketsInv, ClosingIsRecordedOnce
  <2>3. r \notin read
    BY <1>3, <1>4, <2>1
  <2>4. closings'[r] = closings[r] + 0 /\ closings[r] \in Nat
    BY <1>1, <1>5, <2>3 DEF TicketTypes
  <2> QED
    BY <1>7, <2>1, <2>2, <2>4
<1>19. Forgets'
  <2> SUFFICES ASSUME NEW u \in erased' \ late'
               PROVE /\ \A r \in Tickets : ticket'[r].user = u => ticket'[r].texts = 0 /\ ~IsActive(r)'
                     /\ \A v \in Workers : work'[v].user = u => work'[v].op \notin NewOps \cup {"new"}
    BY DEF Forgets
  <2>1. CASE u = s.user
    <3>1. \A r \in Tickets : ticket'[r].user = u => ticket'[r].texts = 0 /\ ~IsActive(r)'
      BY <1>3, <1>4, <1>7, <1>12, <2>1 DEF ActiveOf
    <3>2. \A v \in Workers \ {w} : work[v].user = u => work[v].op # "new"
      BY <1>5, <2>1
    <3>3. \A v \in Workers \ {w} : work[v].user = u => work[v].op \notin NewOps
      BY <1>3, <2>1 DEF TicketsInv, WorkSound, NewOps, LockedUserOps
    <3> QED
      BY <1>11, <3>1, <3>2, <3>3 DEF Kept, Gone, NewOps
  <2>2. CASE u # s.user
    <3>1. u \in erased \ late
      BY <1>5, <2>2
    <3>2. /\ \A r \in Tickets : ticket[r].user = u => ticket[r].texts = 0 /\ ~IsActive(r)
          /\ \A v \in Workers : work[v].user = u => work[v].op \notin NewOps \cup {"new"}
      BY <3>1 DEF TicketsInv, Forgets
    <3> QED
      BY <1>7, <1>11, <1>12, <2>2, <3>2 DEF Kept, Gone, NewOps
  <2> QED
    BY <2>1, <2>2
<1> QED
  BY <1>10, <1>15, <1>16, <1>17, <1>18, <1>19 DEF TicketsInv

LEMMA TicketsNextInv == TicketsInv /\ [TicketsNext]_ticketsVars => TicketsInv'
<1> SUFFICES ASSUME TicketsInv, [TicketsNext]_ticketsVars PROVE TicketsInv'
  OBVIOUS
<1> DEFINE Silent == UNCHANGED <<ticket, erased, carried, stored, closings, reopenings, late, breaks>>
<1>1. TicketTypes /\ breaks \in 0 .. MaxBreaks
  BY DEF TicketsInv, TicketTypes
<1>2. CASE UNCHANGED ticketsVars
  <2>1. UNCHANGED <<ticket, rowLock, userLock, erased, work, carried, stored, closings, reopenings, late, breaks>>
    BY <1>2 DEF ticketsVars, ticketHistory
  <2> QED
    BY <2>1 DEF TicketsInv, TicketTypes, RowsSound, WorkSound, LocksSound, Counted, Sent, Forgets,
                ClosingIsRecordedOnce, Opening, ActiveOf, IsActive
<1>3. ASSUME NEW w \in Workers, NEW u \in Users, UserArrives(w, u) \/ EraseStarts(w, u)
      PROVE TicketsInv'
  <2>1. CASE Arrive(w, u, "new", NoTicket) \/ Arrive(w, u, "erase", NoTicket)
    BY <2>1, ArriveInv
  <2>2. ASSUME NEW t \in Tickets, ticket[t].user = u, Arrive(w, u, "reply", t) \/ Arrive(w, u, "close", t)
        PROVE TicketsInv'
    <3>1. ticket[t] # Absent /\ t \in Tickets \cup {NoTicket}
      BY <2>2, TicketRecords, LocksAssumption
    <3> QED
      BY <2>2, <3>1, ArriveInv
  <2> QED
    BY <1>3, <2>1, <2>2 DEF UserArrives, EraseStarts
<1>4. ASSUME NEW w \in Workers, BulkStarts(w) \/ AutoLists(w) PROVE TicketsInv'
  <2>1. /\ {t \in Tickets : ticket[t] # Absent} \in SUBSET Tickets
        /\ Due \in SUBSET Tickets
    BY DEF Due
  <2>2. CASE BulkStarts(w)
    <3>1. PICK s \in SetToSeqs({t \in Tickets : ticket[t] # Absent}) :
            work' = [work EXCEPT ![w] = [AtRest EXCEPT !.op = "bulk", !.todo = s]]
      BY <2>2 DEF BulkStarts
    <3> QED
      BY <2>1, <2>2, <3>1, SeqsOfTickets, ListInv DEF BulkStarts
  <2>3. CASE AutoLists(w)
    <3>1. PICK s \in SetToSeqs(Due) : work' = [work EXCEPT ![w] = [AtRest EXCEPT !.op = "auto", !.todo = s]]
      BY <2>3 DEF AutoLists
    <3> QED
      BY <2>1, <2>3, <3>1, SeqsOfTickets, ListInv DEF AutoLists
  <2> QED
    BY <1>4, <2>2, <2>3
<1>5. ASSUME NEW w \in Workers, SendNew(w) \/ SendReply(w) \/ SendAnswer(w) PROVE TicketsInv'
  BY <1>5, SendInv DEF SendNew, SendReply, SendAnswer, SentOps
<1>6. ASSUME NEW w \in Workers, SaveReply(w) \/ SaveAnswer(w) PROVE TicketsInv'
  BY <1>6, RecordInv DEF SaveReply, SaveAnswer, Active
\* The transactions that end without a word.
<1>7. ASSUME NEW w \in Workers,
             \/ ReplyRefused(w) \/ SendFails(w) \/ MarkBlocked(w) \/ AutoEnds(w)
             \/ NoMoreTickets(w) \/ DeadlockVictim(w)
      PROVE TicketsInv'
  <2>1. Finish(w) /\ UNCHANGED <<ticket, erased, ticketHistory>>
    BY <1>7 DEF ReplyRefused, SendFails, NewUndelivered, ReplyUndelivered, AnswerUndelivered,
                MarkBlocked, AutoEnds, NoMoreTickets, DeadlockVictim
  <2>2. UNCHANGED <<ticket, erased, carried, stored, closings, reopenings, late, breaks>>
    BY <2>1 DEF ticketHistory
  <2> QED
    BY <1>1, <2>1, <2>2, TicketsRollBackInv
<1>8. ASSUME NEW w \in Workers, BreaksOff(w) PROVE TicketsInv'
  BY <1>1, <1>8, TicketsAssumption, TicketsRollBackInv DEF BreaksOff
<1>9. ASSUME NEW w \in Workers, Begin(w) PROVE TicketsInv'
  BY <1>3, <1>4, <1>9, LockAnswerInv DEF Begin
<1>10. ASSUME NEW w \in Workers, Continue(w) PROVE TicketsInv'
  BY <1>5, <1>6, <1>7, <1>10, LookForTicketInv, SaveNewInv, UserIsLockedInv, LockReplyInv,
     UserClosesInv, AnswerForbiddenInv, BulkLocksInv, BulkCommitsInv, AutoClosesInv,
     EraseReadsInv, EraseCommitsInv DEF Continue
<1> QED
  BY <1>2, <1>8, <1>9, <1>10, StaffClosesInv, HoursPassInv DEF TicketsNext

LEMMA TicketsInvProps == TicketsInv => TicketsTypeOK /\ TicketsAgree
<1> SUFFICES ASSUME TicketsInv PROVE TicketsTypeOK /\ TicketsAgree
  OBVIOUS
<1>1. TicketTypes
  BY DEF TicketsInv
<1>2. TicketsTypeOK
  <2>1. ASSUME NEW w \in Workers, work[w] = AtRest
        PROVE Held(w) = {} /\ \A u \in Users : userLock[u] # w
    BY <2>1, TicketRecords, HoldsNothing DEF Held
  <2> QED
    BY <1>1, <2>1 DEF TicketsTypeOK, TicketTypes, TicketType
<1>3. OneActiveTicket
  <2> SUFFICES ASSUME NEW u \in Users PROVE Cardinality(ActiveOf(u)) <= 1
    BY DEF OneActiveTicket
  <2>1. \A s, t \in ActiveOf(u) : s = t
    BY DEF TicketsInv, RowsSound, ActiveOf
  <2>2. CASE ActiveOf(u) = {}
    BY <2>2, FS_EmptySet
  <2>3. ASSUME NEW t \in ActiveOf(u) PROVE Cardinality(ActiveOf(u)) <= 1
    <3>1. ActiveOf(u) = {t}
      BY <2>1, <2>3
    <3>2. Cardinality({t}) = 1
      BY FS_Singleton
    <3> QED
      BY <3>1, <3>2
  <2> QED
    BY <2>2, <2>3
<1>4. StoredWasDelivered
  <2> SUFFICES ASSUME NEW t \in Tickets PROVE stored[t] <= carried[t]
    BY DEF StoredWasDelivered
  <2>1. stored[t] + Cardinality(Sent(t)) <= carried[t] /\ stored[t] \in Nat /\ carried[t] \in Nat
    BY <1>1 DEF TicketsInv, Counted, TicketTypes
  <2> QED
    BY <2>1, SentCounted
<1>5. ErasureForgets
  BY DEF TicketsInv, Forgets, ErasureForgets
<1> QED
  BY <1>2, <1>3, <1>4, <1>5 DEF TicketsInv, TicketsAgree

\* One open ticket for a user, a history of what was delivered, one record for each closing
\* and nothing of an account once it is erased: for any number of handlers, users and tickets,
\* whatever breaks off or is chosen to end a cycle of locks, provided that no request of the
\* user was on its way to a first message when the account was erased (support_send_new,
\* support_send_reply, erase_user, process_ticket_auto_close, admin_tickets_bulk_close).
THEOREM TicketsStayInOrder == TicketsSpec => []TicketsAgree
<1>1. TicketsSpec => []TicketsInv
  BY TicketsInitInv, TicketsNextInv, PTL DEF TicketsSpec
<1> QED
  BY <1>1, TicketsInvProps, PTL

\* A closed ticket is written to, or opened again, by no one but the first message that had
\* read it without its lock (support_send_new).
THEOREM ClosedStaysClosed == TicketsSpec => ClosedIsLeftAlone
<1> DEFINE Alone ==
      \A t \in Tickets :
        ticket[t].status = "closed" /\ (ticket'[t].status # "closed" \/ stored'[t] # stored[t])
          => \E w \in Workers : work[w].op = "newSent" /\ work[w].ticket = t
<1>1. TicketsSpec => []TicketsInv
  BY TicketsInitInv, TicketsNextInv, PTL DEF TicketsSpec
<1>2. ASSUME TicketsInv, [TicketsNext]_ticketsVars PROVE [Alone]_<<ticket, stored, work>>
  <2> SUFFICES ASSUME NEW t \in Tickets, ticket[t].status = "closed",
                      ticket'[t].status # "closed" \/ stored'[t] # stored[t]
               PROVE \E w \in Workers : work[w].op = "newSent" /\ work[w].ticket = t
    OBVIOUS
  <2>1. TicketTypes /\ ~IsActive(t)
    BY <1>2 DEF TicketsInv, IsActive, Active
  \* The closers leave it closed, and the others do not touch it.
  <2>2. ASSUME UNCHANGED <<ticket, stored>> PROVE FALSE
    BY <2>2
  <2>3. ASSUME NEW x \in Tickets, Close(x), UNCHANGED stored PROVE FALSE
    <3>1. ticket' = ticket \/ ticket' = [ticket EXCEPT ![x].status = "closed"]
      BY <2>3 DEF Close, Closed
    <3> QED
      BY <2>1, <2>3, <3>1 DEF TicketTypes, TicketType
  <2>4. ASSUME NEW w \in Workers, UserCloses(w) PROVE FALSE
    <3>1. work[w].ticket \in Tickets
      BY <1>2, <2>4 DEF UserCloses, TicketsInv, WorkSound
    <3> QED
      BY <2>3, <2>4, <3>1 DEF UserCloses
  <2>5. ASSUME NEW w \in Workers, AutoCloses(w) PROVE FALSE
    <3>1. Head(work[w].todo) \in Tickets
      <4>1. work[w].todo \in Seq(Tickets) /\ work[w].todo # << >>
        BY <2>1, <2>5 DEF AutoCloses, TicketTypes, WorkType
      <4> QED
        BY <4>1
    <3> QED
      BY <2>3, <2>5, <3>1 DEF AutoCloses
  <2>6. ASSUME NEW w \in Workers, BulkCommits(w) PROVE FALSE
    <3>1. ticket'[t] = IF t \in Held(w) /\ IsActive(t) THEN [ticket[t] EXCEPT !.status = "closed"] ELSE ticket[t]
      BY <2>6 DEF BulkCommits
    <3> QED
      BY <2>1, <2>6, <3>1 DEF BulkCommits
  <2>7. ASSUME NEW x \in Tickets, HoursPass(x) PROVE FALSE
    BY <2>1, <2>7 DEF HoursPass, ticketHistory, TicketTypes, TicketType
  <2>8. ASSUME NEW w \in Workers, EraseCommits(w) PROVE FALSE
    <3> DEFINE u == work[w].user
               read == ToSet(work[w].todo)
    <3>1. ticket'[t] = IF ticket[t].user = u THEN Forgotten(t, read) ELSE ticket[t]
      BY <2>8 DEF EraseCommits
    <3>2. Forgotten(t, read).status = "closed"
      BY <2>1 DEF Forgotten, TicketTypes, TicketType
    <3> QED
      BY <2>8, <3>1, <3>2 DEF EraseCommits
  \* Replies and answers are recorded on open tickets.
  <2>9. ASSUME NEW w \in Workers, SaveReply(w) \/ SaveAnswer(w) PROVE FALSE
    <3>1. PICK r \in Tickets : r = work[w].ticket /\ IsActive(r)
      BY <1>2, <2>9 DEF SaveReply, SaveAnswer, TicketsInv, WorkSound, RowOps
    <3>2. r # t
      BY <2>1, <3>1
    <3>3. PICK status \in Active : Record(r, status)
      BY <2>9, <3>1 DEF SaveReply, SaveAnswer, Active
    <3> QED
      BY <2>1, <3>2, <3>3 DEF Record, TicketTypes, TicketType
  <2>10. ASSUME NEW w \in Workers, SaveNew(w) PROVE work[w].op = "newSent" /\ work[w].ticket = t
    <3>1. PICK r \in Tickets : r = work[w].ticket
      BY <1>2, <2>10 DEF SaveNew, TicketsInv, WorkSound, NewOps
    <3>2. r # t => ticket'[t] = ticket[t] /\ stored'[t] = stored[t]
      BY <2>1, <2>10, <3>1 DEF SaveNew, TicketTypes
    <3> QED
      BY <2>10, <3>1, <3>2 DEF SaveNew
  <2>11. ASSUME NEW w \in Workers, Begin(w) \/ BreaksOff(w) PROVE FALSE
    BY <2>2, <2>11 DEF Begin, BreaksOff, UserArrives, EraseStarts, Arrive, LockAnswer, BulkStarts, AutoLists, ticketHistory
  <2>12. ASSUME NEW w \in Workers, SendNew(w) \/ SendReply(w) \/ SendAnswer(w) \/ LookForTicket(w)
                                   \/ UserIsLocked(w) \/ LockReply(w) \/ AnswerForbidden(w) \/ BulkLocks(w)
                                   \/ EraseReads(w)
         PROVE FALSE
    BY <2>2, <2>12 DEF SendNew, SendReply, SendAnswer, LookForTicket, UserIsLocked, LockReply,
                       AnswerForbidden, BulkLocks, EraseReads, ticketHistory
  <2>13. ASSUME NEW w \in Workers, ReplyRefused(w) \/ SendFails(w) \/ MarkBlocked(w) \/ AutoEnds(w)
                                   \/ NoMoreTickets(w) \/ DeadlockVictim(w)
         PROVE FALSE
    BY <2>2, <2>13 DEF ReplyRefused, SendFails, NewUndelivered, ReplyUndelivered, AnswerUndelivered,
                       MarkBlocked, AutoEnds, NoMoreTickets, DeadlockVictim, ticketHistory
  <2>14. ASSUME NEW w \in Workers, Continue(w) PROVE SaveNew(w)
    BY <2>4, <2>5, <2>6, <2>8, <2>9, <2>12, <2>13, <2>14 DEF Continue
  <2>15. ASSUME NEW x \in Tickets, StaffCloses(x) PROVE FALSE
    BY <2>3, <2>15 DEF StaffCloses
  <2>16. ASSUME UNCHANGED ticketsVars PROVE FALSE
    BY <2>2, <2>16 DEF ticketsVars, ticketHistory
  <2>18. TicketsNext
    BY <1>2, <2>16
  <2>19. ~\E x \in Tickets : StaffCloses(x) \/ HoursPass(x)
    BY <2>7, <2>15
  <2>20. PICK w \in Workers : Begin(w) \/ Continue(w) \/ BreaksOff(w)
    BY <2>18, <2>19 DEF TicketsNext
  <2>17. SaveNew(w)
    BY <2>11, <2>14, <2>20
  <2> QED
    BY <2>10, <2>17
<1> QED
  BY <1>1, <1>2, PTL DEF ClosedIsLeftAlone, TicketsSpec

-----------------------------------------------------------------------------
(* The two components side by side.                                        *)

\* Rows, locks and whoever holds them are well-formed in either component, and a worker that
\* is done holds no lock (what Finish, Commit and RollBack give back).
THEOREM DesksTypeCorrect == DesksSpec => []DesksTypeOK
<1> DEFINE Both == TicketsInv /\ WalletInv
<1>1. DesksInit => Both
  BY TicketsInitInv, WalletInitInv DEF DesksInit
<1>2. Both /\ [DesksNext]_desksVars => Both'
  <2> SUFFICES ASSUME Both, [DesksNext]_desksVars PROVE Both'
    OBVIOUS
  <2>1. [TicketsNext]_ticketsVars /\ [WalletNext]_walletVars
    BY DEF DesksNext, desksVars
  <2> QED
    BY <2>1, TicketsNextInv, WalletNextInv
<1>3. Both => DesksTypeOK
  BY TicketsInvProps, WalletInvProps DEF DesksTypeOK
<1> QED
  BY <1>1, <1>2, <1>3, PTL DEF DesksSpec
=============================================================================
