-------------------------------- MODULE Wallets --------------------------------
(***************************************************************************)
(* The rows of users and the transactions that change them: balance,       *)
(* trial, erasure and the bonuses of a referral (UserRepository and        *)
(* ReferralRepository, src/app/services/referrals.py, promos.py,           *)
(* privacy.py, the trial in subscriptions.py, the user pages of            *)
(* src/app/web/routes.py and the user menu of the bot's admins).           *)
(*                                                                         *)
(* A transaction locks the row of its user, some lock the row of the       *)
(* inviter too, and all of them write when they commit.  A bot handler     *)
(* starts with get_or_create_user, which reads the row and then locks it;  *)
(* SQLAlchemy does not refresh what it has read, so the handler works on   *)
(* the copy of before the lock.  The webhook, the polling job and the      *)
(* console read the row of the user when they lock it.                     *)
(*                                                                         *)
(* Amounts are one unit, a decrease is two.  The invoice of a purchase is  *)
(* in Payments, the promo code of a bonus in PromoCodes.                   *)
(***************************************************************************)
EXTENDS Integers, FiniteSets

CONSTANTS People,    \* users
          Desks,     \* transactions at work
          Operations, \* what they do
          MaxDeals   \* bound on transactions

NoDesk == "free"
NoPerson == "nobody"

\* Operations of a bot handler, on the copy of before the lock.
OfBot == {"promo", "spend", "first purchase", "erase", "trial", "bind"}
\* Operations that read when they lock.
OfOthers == {"credit", "approved purchase", "increase", "decrease", "menu decrease",
             "console erase", "trial reset"}
AllOperations == OfBot \cup OfOthers
Purchases == {"first purchase", "approved purchase"}
Erasures == {"erase", "console erase"}

ASSUME WalletsAssumption == Operations \subseteq AllOperations /\ MaxDeals \in Nat
ASSUME SpareNamesAssumption == NoDesk \notin Desks /\ NoPerson \notin People

VARIABLES row,        \* users: [bal, trial, paid, erased]
          referral,   \* referrals: the inviter of a user, or Nobody
          activeRef,  \* referrals.is_activated
          trialSub,   \* users with a live trial subscription
          rowHolder,    \* who locks a row, or NoDesk
          deal,       \* transactions: [op, user, other, at, copy, otherCopy]
          deals,      \* transactions so far
          book,       \* history: what the transactions rows and erasures of a user add up to
          spared,     \* history: what a clamped decrease booked and did not take
          outdated,   \* history: users written from an outdated copy
          bonuses,    \* history: bonuses granted for an invited user
          trials,     \* history: trials given
          resets,     \* history: trials reset
          endings     \* history: trials that expired or were disabled

walletHistory == <<book, spared, outdated, bonuses, trials, resets, endings>>
walletRows == <<row, referral, activeRef, trialSub>>
walletVars == <<walletRows, rowHolder, deal, deals, walletHistory>>

FreshRow == [bal |-> 0, trial |-> FALSE, paid |-> FALSE, erased |-> FALSE]
NoDeal == [op |-> "none", user |-> NoPerson, other |-> NoPerson, at |-> "idle",
           copy |-> FreshRow, otherCopy |-> FreshRow]

WalletInit ==
  /\ row = [u \in People |-> FreshRow]
  /\ referral = [u \in People |-> NoPerson]
  /\ activeRef = {}
  /\ trialSub = {}
  /\ rowHolder = [u \in People |-> NoDesk]
  /\ deal = [s \in Desks |-> NoDeal]
  /\ deals = 0
  /\ book = [u \in People |-> 0] /\ spared = book /\ bonuses = book
  /\ trials = book /\ resets = book /\ endings = book
  /\ outdated = {}

-----------------------------------------------------------------------------
(* Start and lock                                                          *)

BeginDeal(s, u, op, at) ==
  /\ deal[s] = NoDeal
  /\ deals < MaxDeals /\ deals' = deals + 1
  /\ deal' = [deal EXCEPT ![s].op = op, ![s].user = u, ![s].at = at, ![s].copy = row[u]]
  /\ UNCHANGED <<walletRows, rowHolder, walletHistory>>

\* create_or_get reads the user; an erased user has another tg_id.
BotStarts(s, u, op) == ~row[u].erased /\ BeginDeal(s, u, op, "copied")

OthersStart(s, u, op) == BeginDeal(s, u, op, "fresh")

\* mutation: the lock is not waited for
LockIgnored(s, u) == rowHolder' = [rowHolder EXCEPT ![u] = s]

LockRow(s, u) == rowHolder[u] \in {NoDesk, s} /\ rowHolder' = [rowHolder EXCEPT ![u] = s]

LockUser(s) ==
  LET d == deal[s] IN
  /\ d.at \in {"copied", "fresh"}
  /\ LockRow(s, d.user)
  /\ deal' = [deal EXCEPT ![s].at = "locked",
                          ![s].copy = IF d.at = "fresh" THEN row[d.user] ELSE @]
  /\ UNCHANGED <<walletRows, deals, walletHistory>>

\* The inviter: _grant_bonus at the first purchase, and bind_inviter_by_link or
\* the foreign key of the referral that redeem_referral_code inserts.
Activates(d) ==
  /\ d.op \in Purchases /\ ~d.copy.paid
  /\ referral[d.user] # NoPerson /\ d.user \notin activeRef

Binds(d) == d.op = "bind" /\ referral[d.user] = NoPerson

\* The second lock is still to be taken.
WantsOther(s, v) ==
  /\ deal[s].at = "locked" /\ deal[s].other = NoPerson
  /\ \/ Activates(deal[s]) /\ v = referral[deal[s].user]
     \/ Binds(deal[s]) /\ v \in People \ {deal[s].user}

LockInviter(s, v) ==
  /\ WantsOther(s, v)
  /\ LockRow(s, v)
  /\ deal' = [deal EXCEPT ![s].other = v, ![s].otherCopy = row[v]]
  /\ UNCHANGED <<walletRows, deals, walletHistory>>

-----------------------------------------------------------------------------
(* Commit                                                                  *)

ReleaseRows(s) ==
  /\ rowHolder' = [u \in People |-> IF rowHolder[u] = s THEN NoDesk ELSE rowHolder[u]]
  /\ deal' = [deal EXCEPT ![s] = NoDeal]

\* mutation: a purchase is checked against nothing
NotChecked(d) == TRUE

Covered(d) ==
  /\ d.op = "spend" => d.copy.bal >= 1
  /\ d.op = "menu decrease" => d.copy.bal >= 2

\* What the operation books for its user: add_balance, subtract_balance, and a
\* row of transactions next to it.
Booked(d) ==
  CASE d.op \in {"promo", "credit", "increase"} -> 1
    [] d.op = "spend" -> -1
    [] d.op \in {"decrease", "menu decrease"} -> -2
    [] d.op \in Purchases /\ Activates(d) -> 1
    [] OTHER -> 0

AtLeastZero(n) == IF n > 0 THEN n ELSE 0

\* The row the session has made out of its copy.
NewRow(d) ==
  [bal |-> IF d.op \in Erasures THEN 0 ELSE AtLeastZero(d.copy.bal + Booked(d)),
   trial |-> IF d.op = "trial reset" THEN FALSE ELSE d.copy.trial \/ d.op = "trial",
   paid |-> d.copy.paid \/ d.op \in Purchases,
   erased |-> d.copy.erased \/ d.op \in Erasures]

\* A column is written when it differs from the copy.
Merged(u, old, new) ==
  [c \in DOMAIN FreshRow |-> IF new[c] = old[c] THEN row[u][c] ELSE new[c]]

\* mutation: the second check of issue_trial is left out
FlagOnly(d) == d.op = "trial" => ~d.copy.trial

\* issue_trial: the flag of the copy, and the subscriptions as they are now.
TrialAllowed(d) == d.op = "trial" => ~d.copy.trial /\ d.user \notin trialSub

\* Refusals that end the transaction without a change: the user of a tg_id that
\* an erasure has taken away (a paid reset does not look for one), an erased
\* account, no money, no trial.
Accepted(d) ==
  /\ d.op \in {"promo", "first purchase", "bind"} => ~row[d.user].erased
  /\ d.op \in Erasures => ~d.copy.erased
  /\ Covered(d)
  /\ TrialAllowed(d)

\* mutation: _grant_bonus does not set is_activated
NotActivated(d) == activeRef

ActivatedBy(d) == IF Activates(d) THEN activeRef \cup {d.user} ELSE activeRef

Stale(u, copy) == row[u] # copy

CommitDeal(s) ==
  LET d == deal[s]
      bonus == Activates(d)
      new == NewRow(d) IN
  /\ d.at = "locked"
  /\ bonus \/ Binds(d) => d.other # NoPerson
  /\ Accepted(d)
  /\ row' = [u \in People |->
               IF u = d.user THEN Merged(u, d.copy, new)
               ELSE IF bonus /\ u = d.other THEN [row[u] EXCEPT !.bal = d.otherCopy.bal + 1]
               ELSE row[u]]
  /\ referral' = IF Binds(d) THEN [referral EXCEPT ![d.user] = d.other] ELSE referral
  /\ activeRef' = ActivatedBy(d)
  /\ trialSub' = CASE d.op = "trial" -> trialSub \cup {d.user}
                   [] d.op \in Erasures -> trialSub \ {d.user}
                   [] OTHER -> trialSub
  /\ ReleaseRows(s)
  /\ book' = [u \in People |->
                book[u] + (IF u = d.user THEN Booked(d) ELSE 0)
                        + (IF bonus /\ u = d.other THEN 1 ELSE 0)
                        - (IF u = d.user /\ d.op \in Erasures THEN d.copy.bal ELSE 0)]
  /\ spared' = IF d.op = "decrease"
               THEN [spared EXCEPT ![d.user] = @ + new.bal - (d.copy.bal - 2)]
               ELSE spared
  /\ outdated' = IF Stale(d.user, d.copy) THEN outdated \cup {d.user} ELSE outdated
  /\ bonuses' = IF bonus THEN [bonuses EXCEPT ![d.user] = @ + 1] ELSE bonuses
  /\ trials' = IF d.op = "trial" THEN [trials EXCEPT ![d.user] = @ + 1] ELSE trials
  /\ resets' = IF d.op = "trial reset" /\ d.copy.trial
               THEN [resets EXCEPT ![d.user] = @ + 1] ELSE resets
  /\ endings' = IF d.op \in Erasures /\ d.user \in trialSub
                THEN [endings EXCEPT ![d.user] = @ + 1] ELSE endings
  /\ UNCHANGED deals

\* Which transactions s waits for.
WaitsFor(s) ==
  {rowHolder[v] : v \in {v \in People :
       \/ deal[s].at \in {"copied", "fresh"} /\ v = deal[s].user
       \/ WantsOther(s, v)}} \ {NoDesk, s}

\* A refusal, or an error that rolls the transaction back; not while it waits.
RollBack(s) ==
  /\ deal[s].at = "locked" /\ WaitsFor(s) = {}
  /\ ReleaseRows(s)
  /\ UNCHANGED <<walletRows, deals, walletHistory>>

\* mutation: the database does not look for deadlocks
NoDealVictim(s) == FALSE

DealVictim(s) == \E t \in WaitsFor(s) : s \in WaitsFor(t)

\* PostgreSQL aborts a transaction of a deadlock.
DeadlockIsBroken(s) ==
  /\ DealVictim(s)
  /\ ReleaseRows(s)
  /\ UNCHANGED <<walletRows, deals, walletHistory>>

\* The trial expires, or a page disables it.
TrialEnds(u) ==
  /\ u \in trialSub
  /\ trialSub' = trialSub \ {u}
  /\ endings' = [endings EXCEPT ![u] = @ + 1]
  /\ UNCHANGED <<row, referral, activeRef, rowHolder, deal, deals, book, spared,
                 outdated, bonuses, trials, resets>>

\* What a transaction does once it has begun.
Proceed(s) ==
  \/ LockUser(s) \/ \E v \in People : LockInviter(s, v)
  \/ CommitDeal(s) \/ RollBack(s) \/ DeadlockIsBroken(s)

WalletNext ==
  \/ \E s \in Desks :
       \/ \E u \in People :
            \/ \E op \in Operations \cap OfBot : BotStarts(s, u, op)
            \/ \E op \in Operations \cap OfOthers : OthersStart(s, u, op)
       \/ Proceed(s)
  \/ \E u \in People : TrialEnds(u)

WalletSpec == WalletInit /\ [][WalletNext]_walletVars

\* The queue of a row lock is served in order, a handler goes on, and PostgreSQL
\* looks for deadlocks.
WalletFairSpec == WalletSpec /\ \A s \in Desks : SF_walletVars(Proceed(s))

-----------------------------------------------------------------------------
(* Properties                                                              *)

\* Types; a row is locked by the transaction that works on it.
WalletTypeOK ==
  /\ \A u \in People : row[u].bal \in Nat /\ referral[u] \in People \cup {NoPerson}
  /\ \A s \in Desks : deal[s].at = "locked" =>
       /\ rowHolder[deal[s].user] = s
       /\ deal[s].other # NoPerson => rowHolder[deal[s].other] = s
  /\ \A u \in People : rowHolder[u] # NoDesk => deal[rowHolder[u]].at = "locked"
  /\ deals \in 0 .. MaxDeals

\* The balance of a user is what the transactions say, and what a clamped
\* decrease left: money is lost or made only by a session whose copy of the row
\* was outdated (get_or_create_user).
BalanceIsBooked ==
  \A u \in People \ outdated : row[u].bal = book[u] + spared[u]

\* Two purchases at once, on any copies, grant the bonus of a referral once.
BonusIsGrantedOnce == \A u \in People : bonuses[u] <= 1

\* One trial for a user, and one more after each reset: the second check makes
\* up for an outdated copy as long as the first trial lives (issue_trial).
TrialNeedsReset ==
  \A u \in People :
    trials[u] <= 1 + resets[u] + (IF u \in outdated THEN endings[u] ELSE 0)

\* What is given away is given once: the bonus of a referral and the trial.
GiftsAreCounted == BonusIsGrantedOnce /\ TrialNeedsReset

\* Whoever locks whom, in whatever order, each transaction comes to an end.
DealsEnd == \A s \in Desks : deal[s] # NoDeal ~> deal[s] = NoDeal

\* The balance is what the transactions say.
BalanceIsAlwaysBooked == \A u \in People : row[u].bal = book[u] + spared[u]
=============================================================================
