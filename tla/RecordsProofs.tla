---------------------------- MODULE RecordsProofs ----------------------------
(***************************************************************************)
(* The records of a user: promo codes, notices, paid resets and the        *)
(* subscription, for every value of their constants, and the types of all  *)
(* the records, the outbox's too.                                          *)
(***************************************************************************)
EXTENDS MCRecords, OutboxProofs, FiniteSetTheorems, TLAPS

-----------------------------------------------------------------------------
(***************************************************************************)
(* Promo codes: the counter is the number of redemptions, and a code pays  *)
(* each user once, for any number of promos, users and requests of the     *)
(* console that work on old copies.                                        *)
(*                                                                         *)
(* The counter alone is not inductive: a new promo starts at zero, so no   *)
(* redemption may be left of an id that is free, and what was paid must    *)
(* have its redemption row until the promo is deleted.                     *)
(***************************************************************************)

PromoRow(p) == [exists |-> promo[p].exists, set |-> promo[p].set, used |-> promo[p].used]

\* Rows have their columns; a deleted promo does not come back.
RowsOK ==
  /\ DOMAIN promo = Promos
  /\ \A p \in Promos :
       /\ promo[p] = PromoRow(p)
       /\ promo[p].exists \in BOOLEAN
       /\ promo[p].used \in Nat
       /\ p \in retired => ~promo[p].exists

\* The foreign key of a redemption.
RedemptionsOK ==
  /\ redemptions \subseteq Promos \X Redeemers
  /\ \A r \in redemptions : promo[r[1]].exists

\* A user was paid at most once, and for a promo that was not deleted there is
\* a row that says so.
PaymentsOK ==
  /\ paid \in [Promos -> [Redeemers -> {0, 1}]]
  /\ \A p \in Promos \ retired, u \in Redeemers :
       paid[p][u] = 1 => <<p, u>> \in redemptions

PromoInv == RowsOK /\ RedemptionsOK /\ PaymentsOK /\ UsesAreCounted

RedeemersOf(p) == {u \in Redeemers : <<p, u>> \in redemptions}

\* The rows of a promo can be counted.
LEMMA RedeemersAreFinite ==
  ASSUME NEW p
  PROVE  IsFiniteSet(RedeemersOf(p)) /\ IsFiniteSet(RedeemersOf(p)')
BY PromoAssumption, FS_Subset DEF PromoAssumption, RedeemersOf

LEMMA PromoStarts == PromoInit => PromoInv
<1> SUFFICES ASSUME PromoInit PROVE PromoInv
  OBVIOUS
<1> USE DEF PromoInit, NoPromo
<1>1. RowsOK
  BY DEF RowsOK, PromoRow
<1>2. RedemptionsOK /\ PaymentsOK
  BY DEF RedemptionsOK, PaymentsOK
<1>3. UsesAreCounted
  BY DEF UsesAreCounted, Live
<1> QED
  BY <1>1, <1>2, <1>3 DEF PromoInv

\* A step that touches neither redemptions nor payments, creates and deletes no
\* promo and leaves the counters alone.
LEMMA SettingsStep ==
  ASSUME PromoInv, UNCHANGED <<redemptions, paid, retired>>,
         DOMAIN promo' = Promos,
         \A p \in Promos : /\ promo'[p] = PromoRow(p)'
                           /\ promo'[p].exists = promo[p].exists
                           /\ promo'[p].used = promo[p].used
  PROVE  PromoInv'
<1>1. RowsOK'
  BY DEF PromoInv, RowsOK
<1>2. RedemptionsOK' /\ PaymentsOK'
  BY DEF PromoInv, RedemptionsOK, PaymentsOK
<1>3. UsesAreCounted'
  BY DEF PromoInv, UsesAreCounted, Live
<1> QED
  BY <1>1, <1>2, <1>3 DEF PromoInv

LEMMA RedeemStep ==
  ASSUME PromoInv, NEW p \in Promos, NEW u \in Redeemers, Redeem(u, p)
  PROVE  PromoInv'
<1> USE DEF PromoInv
<1>1. /\ promo' = [promo EXCEPT ![p].used = @ + 1]
      /\ redemptions' = redemptions \cup {<<p, u>>}
      /\ paid' = [paid EXCEPT ![p][u] = @ + 1]
      /\ retired' = retired
      /\ promo[p].exists
      /\ <<p, u>> \notin redemptions
  BY DEF Redeem, Counted, HasRedeemed, Live
<1>2. /\ DOMAIN promo' = Promos
      /\ promo'[p] = [promo[p] EXCEPT !.used = @ + 1]
      /\ \A q \in Promos \ {p} : promo'[q] = promo[q]
  BY <1>1 DEF RowsOK
<1>3. /\ promo'[p] = PromoRow(p)'
      /\ promo'[p].exists = promo[p].exists
      /\ promo'[p].used = promo[p].used + 1
  BY <1>2 DEF RowsOK, PromoRow
<1>4. RowsOK'
  BY <1>1, <1>2, <1>3 DEF RowsOK, PromoRow
<1>5. RedemptionsOK'
  BY <1>1, <1>2, <1>3 DEF RedemptionsOK
<1>6. PaymentsOK'
  <2>1. p \notin retired
    BY <1>1 DEF RowsOK
  <2>2. paid[p][u] = 0
    BY <1>1, <2>1 DEF PaymentsOK
  <2>3. paid' \in [Promos -> [Redeemers -> {0, 1}]]
    BY <1>1, <2>2 DEF PaymentsOK
  <2>4. ASSUME NEW q \in Promos \ retired, NEW v \in Redeemers, paid'[q][v] = 1
        PROVE  <<q, v>> \in redemptions'
    BY <1>1, <2>4 DEF PaymentsOK
  <2> QED
    BY <1>1, <2>3, <2>4 DEF PaymentsOK
<1>7. UsesAreCounted'
  <2> SUFFICES ASSUME NEW q \in Promos, promo'[q].exists
               PROVE  promo'[q].used = Cardinality(RedeemersOf(q)')
    BY DEF UsesAreCounted, Live, RedeemersOf
  <2>1. CASE q = p
    <3>1. RedeemersOf(p)' = RedeemersOf(p) \cup {u} /\ u \notin RedeemersOf(p)
      BY <1>1 DEF RedeemersOf
    <3>2. Cardinality(RedeemersOf(p)') = Cardinality(RedeemersOf(p)) + 1
      BY <3>1, RedeemersAreFinite, FS_AddElement
    <3>3. promo[p].used = Cardinality(RedeemersOf(p))
      BY <1>1 DEF UsesAreCounted, Live, RedeemersOf
    <3> QED
      BY <1>3, <2>1, <3>2, <3>3
  <2>2. CASE q # p
    <3>1. RedeemersOf(q)' = RedeemersOf(q)
      BY <1>1, <2>2 DEF RedeemersOf
    <3>2. promo'[q] = promo[q]
      BY <1>2, <2>2
    <3>3. promo[q].used = Cardinality(RedeemersOf(q))
      BY <3>2 DEF UsesAreCounted, Live, RedeemersOf
    <3> QED
      BY <3>1, <3>2, <3>3
  <2> QED
    BY <2>1, <2>2
<1> QED
  BY <1>4, <1>5, <1>6, <1>7

LEMMA CreateStep ==
  ASSUME PromoInv, NEW p \in Promos, NEW s \in Settings, CreatePromo(p, s)
  PROVE  PromoInv'
<1> USE DEF PromoInv
<1>1. /\ promo' = [promo EXCEPT ![p] = [exists |-> TRUE, set |-> s, used |-> 0]]
      /\ UNCHANGED <<redemptions, paid, retired>>
      /\ ~promo[p].exists /\ p \notin retired
  BY DEF CreatePromo
<1>2. /\ DOMAIN promo' = Promos
      /\ promo'[p] = [exists |-> TRUE, set |-> s, used |-> 0]
      /\ \A q \in Promos \ {p} : promo'[q] = promo[q]
  BY <1>1 DEF RowsOK
<1>3. RowsOK'
  BY <1>1, <1>2 DEF RowsOK, PromoRow
<1>4. RedemptionsOK' /\ PaymentsOK'
  BY <1>1, <1>2 DEF RedemptionsOK, PaymentsOK
<1>5. UsesAreCounted'
  <2> SUFFICES ASSUME NEW q \in Promos, promo'[q].exists
               PROVE  promo'[q].used = Cardinality(RedeemersOf(q)')
    BY DEF UsesAreCounted, Live, RedeemersOf
  <2>1. RedeemersOf(q)' = RedeemersOf(q)
    BY <1>1 DEF RedeemersOf
  <2>2. CASE q = p
    <3>1. RedeemersOf(p) = {}
      BY <1>1 DEF RedemptionsOK, RedeemersOf
    <3> QED
      BY <1>2, <2>1, <2>2, <3>1, FS_EmptySet
  <2>3. CASE q # p
    BY <1>2, <2>1, <2>3 DEF UsesAreCounted, Live, RedeemersOf
  <2> QED
    BY <2>2, <2>3
<1> QED
  BY <1>3, <1>4, <1>5

LEMMA DeleteStep ==
  ASSUME PromoInv, NEW p \in Promos, DeleteWith(p), UNCHANGED paid
  PROVE  PromoInv'
<1> USE DEF PromoInv
<1>1. /\ promo' = [promo EXCEPT ![p] = NoPromo]
      /\ redemptions' = {r \in redemptions : r[1] # p}
      /\ retired' = retired \cup {p}
  BY DEF DeleteWith
<1>2. /\ DOMAIN promo' = Promos
      /\ promo'[p] = [exists |-> FALSE, set |-> NoSettings, used |-> 0]
      /\ \A q \in Promos \ {p} : promo'[q] = promo[q]
  BY <1>1 DEF RowsOK, NoPromo
<1>3. RowsOK'
  <2>1. ASSUME NEW q \in Promos
        PROVE  /\ promo'[q] = PromoRow(q)'
               /\ promo'[q].exists \in BOOLEAN /\ promo'[q].used \in Nat
               /\ q \in retired' => ~promo'[q].exists
    <3>1. CASE q = p
      <4>1. PICK s : promo'[q] = [exists |-> FALSE, set |-> s, used |-> 0]
        BY <1>2, <3>1
      <4>2. promo'[q].exists = FALSE /\ promo'[q].set = s /\ promo'[q].used = 0
        BY <4>1
      <4> QED
        BY <4>1, <4>2 DEF PromoRow
    <3>2. CASE q # p
      BY <1>1, <1>2, <3>2 DEF RowsOK, PromoRow
    <3> QED
      BY <3>1, <3>2
  <2> QED
    BY <1>2, <2>1 DEF RowsOK
<1>4. RedemptionsOK'
  BY <1>1, <1>2 DEF RedemptionsOK
<1>5. PaymentsOK'
  BY <1>1 DEF PaymentsOK
<1>6. UsesAreCounted'
  <2> SUFFICES ASSUME NEW q \in Promos, promo'[q].exists
               PROVE  promo'[q].used = Cardinality(RedeemersOf(q)')
    BY DEF UsesAreCounted, Live, RedeemersOf
  <2>1. q # p
    BY <1>2
  <2>2. RedeemersOf(q)' = RedeemersOf(q)
    BY <1>1, <2>1 DEF RedeemersOf
  <2> QED
    BY <1>2, <2>1, <2>2 DEF UsesAreCounted, Live, RedeemersOf
<1> QED
  BY <1>3, <1>4, <1>5, <1>6

\* What the menu and the pages write to a row that stays.
LEMMA WritesStep ==
  ASSUME PromoInv, UNCHANGED <<redemptions, paid, retired>>,
         NEW p \in Promos, NEW new, promo' = [promo EXCEPT ![p].set = new]
  PROVE  PromoInv'
<1>1. /\ DOMAIN promo' = Promos
      /\ promo'[p] = [promo[p] EXCEPT !.set = new]
      /\ \A q \in Promos \ {p} : promo'[q] = promo[q]
  BY DEF PromoInv, RowsOK
<1>2. ASSUME NEW q \in Promos
      PROVE  /\ promo'[q] = PromoRow(q)'
             /\ promo'[q].exists = promo[q].exists
             /\ promo'[q].used = promo[q].used
  BY <1>1 DEF PromoInv, RowsOK, PromoRow
<1> QED
  BY <1>1, <1>2, SettingsStep

LEMMA Unwritten ==
  ASSUME PromoInv, UNCHANGED <<promo, redemptions, paid, retired>>
  PROVE  PromoInv'
<1>1. \A q \in Promos : promo'[q] = PromoRow(q)'
  BY DEF PromoInv, RowsOK, PromoRow
<1> QED
  BY <1>1, SettingsStep DEF PromoInv, RowsOK

LEMMA PromoSteps == PromoInv /\ [PromoNext]_promoVars => PromoInv'
<1> SUFFICES ASSUME PromoInv, [PromoNext]_promoVars PROVE PromoInv'
  OBVIOUS
<1>1. ASSUME NEW p \in Promos, NEW u \in Redeemers, Redeem(u, p) PROVE PromoInv'
  BY <1>1, RedeemStep
<1>2. ASSUME NEW p \in Promos, PromoExpires(p) PROVE PromoInv'
  <2>1. promo' = [promo EXCEPT ![p].set = [promo[p].set EXCEPT !.over = TRUE]]
    BY <1>2 DEF PromoExpires
  <2> QED
    BY <1>2, <2>1, WritesStep DEF PromoExpires
<1>3. ASSUME NEW p \in Promos, NEW s \in Settings, CreatePromo(p, s) PROVE PromoInv'
  BY <1>3, CreateStep
<1>4. ASSUME NEW p \in Promos, NEW s \in Settings, MenuEdits(p, s) PROVE PromoInv'
  BY <1>4, WritesStep DEF MenuEdits
<1>5. ASSUME NEW p \in Promos, MenuToggles(p) PROVE PromoInv'
  <2>1. promo' = [promo EXCEPT ![p].set = [promo[p].set EXCEPT !.active = ~@]]
    BY <1>5 DEF MenuToggles
  <2> QED
    BY <1>5, <2>1, WritesStep DEF MenuToggles
<1>6. ASSUME NEW p \in Promos, MenuDeletes(p) PROVE PromoInv'
  BY <1>6, DeleteStep DEF MenuDeletes
<1>7. ASSUME NEW g \in PromoPages, NEW p \in Promos, NEW op, NEW s \in Settings,
             PageOpens(g, p, op, s)
      PROVE  PromoInv'
  BY <1>7, Unwritten DEF PageOpens
<1>8. ASSUME NEW g \in PromoPages, PageUpdates(g) PROVE PromoInv'
  <2> DEFINE pg == promoPage[g]
             new == [f \in DOMAIN NoSettings |->
                       IF pg.form[f] = pg.copy.set[f] THEN promo[pg.id].set[f] ELSE pg.form[f]]
  <2>1. pg.id \in Promos /\ promo' = [promo EXCEPT ![pg.id].set = new]
    BY <1>8 DEF PageUpdates, FormSaved, Live
  <2> HIDE DEF new
  <2> QED
    BY <1>8, <2>1, WritesStep DEF PageUpdates
<1>9. ASSUME NEW g \in PromoPages, PageSetsActive(g) PROVE PromoInv'
  <2> DEFINE pg == promoPage[g]
             new == [promo[pg.id].set EXCEPT !.active = pg.form.active]
  <2>1. /\ pg.id \in Promos
        /\ UNCHANGED <<redemptions, paid, retired>>
        /\ promo' = promo \/ promo' = [promo EXCEPT ![pg.id].set = new]
    BY <1>9 DEF PageSetsActive, Live
  <2> HIDE DEF new
  <2> QED
    BY <2>1, Unwritten, WritesStep
<1>10. ASSUME NEW g \in PromoPages, PageDeletes(g) PROVE PromoInv'
  <2>1. promoPage[g].id \in Promos /\ DeleteWith(promoPage[g].id) /\ UNCHANGED paid
    BY <1>10 DEF PageDeletes, Live
  <2> QED
    BY <2>1, DeleteStep
<1>11. ASSUME NEW g \in PromoPages, PageGivesUp(g) PROVE PromoInv'
  BY <1>11, Unwritten DEF PageGivesUp
<1>12. CASE UNCHANGED promoVars
  BY <1>12, Unwritten DEF promoVars
<1> QED
  BY <1>1, <1>2, <1>3, <1>4, <1>5, <1>6, <1>7, <1>8, <1>9, <1>10, <1>11, <1>12 DEF PromoNext

\* The counter of a code says how often it was redeemed, and it pays each user
\* once (PromoService.redeem beside the promo pages of the console).
THEOREM RedemptionsAlwaysAddUp == PromoSpec => []RedemptionsAddUp
<1>1. PromoInv => RedemptionsAddUp
  BY DEF PromoInv, PaymentsOK, RedemptionsAddUp, PaidOnce
<1> QED
  BY <1>1, PromoStarts, PromoSteps, PTL DEF PromoSpec

-----------------------------------------------------------------------------
(***************************************************************************)
(* Notices, for any kinds, rules and numbers of periods, lost commits and  *)
(* failures of Redis.                                                      *)
(*                                                                         *)
(* With the types the property is inductive: a visit decides on an old     *)
(* snapshot of the panel, but on the flag and the cooldown of the moment.  *)
(***************************************************************************)

NoticeTypes ==
  /\ flags \subseteq Flagged
  /\ queued \in [Kinds -> Nat] /\ cleared \in [Kinds -> Nat]
  /\ expiries \in [Kinds -> Nat] /\ unguarded \in [Kinds -> Nat]
  /\ visit # Idle => visit.kind \in Kinds

NoticeInv == NoticeTypes /\ NoticesAreHonest

USE DEF Kinds

LEMMA NoticeStarts == NoticeInit => NoticeInv
  BY DEF NoticeInit, NoticeInv, NoticeTypes, NoticesAreHonest, NotToldTwice, OneReportPerCooldown,
         FlagHasMessage, Idle

\* A step that touches neither flags nor counters nor cooldowns.
LEMMA NoticesLeft ==
  ASSUME NoticeInv, UNCHANGED <<flags, cooldowns, keys, tally>>,
         visit' # Idle => visit'.kind \in Kinds
  PROVE  NoticeInv'
  BY DEF NoticeInv, NoticeTypes, NoticesAreHonest, NotToldTwice, OneReportPerCooldown, FlagHasMessage,
         tally, Idle

\* Each flag that is cleared counts for one more notice.
LEMMA ClearStep ==
  ASSUME NoticeInv, NEW kinds \in SUBSET Flagged, Clear(kinds),
         UNCHANGED <<cooldowns, keys, visit, queued, expiries, unguarded, suppressed>>
  PROVE  NoticeInv'
  <1> USE DEF NoticeInv, NoticesAreHonest
  <1>1. NoticeTypes'
    BY DEF NoticeTypes, Clear
  <1>2. NotToldTwice'
    <2> SUFFICES ASSUME NEW k \in Flagged
                 PROVE  queued'[k] <= cleared'[k] + (IF k \in flags' THEN 1 ELSE 0)
      BY DEF NotToldTwice
    <2>1. queued[k] <= cleared[k] + (IF k \in flags THEN 1 ELSE 0)
      BY DEF NotToldTwice
    <2>2. queued[k] \in Nat /\ cleared[k] \in Nat
      BY DEF NoticeTypes
    <2>3. CASE k \in kinds
      BY <2>1, <2>2, <2>3 DEF Clear
    <2>4. CASE k \notin kinds
      BY <2>1, <2>2, <2>4 DEF Clear
    <2>5. QED BY <2>3, <2>4
  <1>3. OneReportPerCooldown'
    BY DEF OneReportPerCooldown
  <1>4. FlagHasMessage'
    BY DEF FlagHasMessage, Clear
  <1>5. QED BY <1>1, <1>2, <1>3, <1>4

LEMMA CooldownStep ==
  ASSUME NoticeInv, NEW k \in Kinds, CooldownEnds(k)
  PROVE  NoticeInv'
  <1> USE DEF NoticeInv, NoticesAreHonest, CooldownEnds
  <1>1. NoticeTypes' /\ NotToldTwice' /\ FlagHasMessage'
    BY DEF NoticeTypes, NotToldTwice, FlagHasMessage, Idle
  <1>2. OneReportPerCooldown'
    <2> SUFFICES ASSUME NEW j \in Repeating \cap Cooling
                 PROVE  queued'[j] <= expiries'[j] + unguarded'[j]
                                        + (IF j \in cooldowns' THEN 1 ELSE 0)
      BY DEF OneReportPerCooldown
    <2>1. /\ queued[j] <= expiries[j] + unguarded[j] + (IF j \in cooldowns THEN 1 ELSE 0)
          /\ queued[j] \in Nat /\ expiries[j] \in Nat /\ unguarded[j] \in Nat
      BY DEF OneReportPerCooldown, NoticeTypes
    <2>2. CASE j = k
      BY <2>1, <2>2 DEF NoticeTypes
    <2>3. CASE j # k
      BY <2>1, <2>3 DEF NoticeTypes
    <2>4. QED BY <2>2, <2>3
  <1>3. QED BY <1>1, <1>2

\* A notice that is queued has its reason: the flag was not set, or the cooldown
\* did not run, or Redis had failed.
LEMMA NotifyStep ==
  ASSUME NoticeInv, visit # Idle, IsReason(visit.kind), SetFlag(visit.kind),
         EnqueueNotice(visit.kind), visit' = Idle, UNCHANGED <<cleared, expiries, suppressed>>,
         \/ /\ ~Refused(visit.kind) /\ TakeCooldown(visit.kind) /\ UNCHANGED unguarded
         \/ /\ unguarded' = [unguarded EXCEPT ![visit.kind] = @ + 1] /\ UNCHANGED cooldowns
  PROVE  NoticeInv'
  <1> USE DEF NoticeInv, NoticesAreHonest
  <1> DEFINE kind == visit.kind
  <1>1. /\ kind \in Kinds
        /\ flags' = IF kind \in Flagged THEN flags \cup {kind} ELSE flags
        /\ kind \in Flagged => kind \notin flags
    BY NotificationsAssumption DEF NoticeTypes, SetFlag, IsReason, NotificationsAssumption
  <1>2. /\ queued' \in [Kinds -> Nat]
        /\ queued'[kind] \in {queued[kind], queued[kind] + 1}
        /\ \A k \in Kinds \ {kind} : queued'[k] = queued[k]
    BY <1>1 DEF NoticeTypes, EnqueueNotice
  <1>3. NoticeTypes'
    BY <1>1, <1>2 DEF NoticeTypes
  <1>4. NotToldTwice'
    <2> SUFFICES ASSUME NEW k \in Flagged
                 PROVE  queued'[k] <= cleared[k] + (IF k \in flags' THEN 1 ELSE 0)
      BY DEF NotToldTwice
    <2>1. /\ queued[k] <= cleared[k] + (IF k \in flags THEN 1 ELSE 0)
          /\ queued[k] \in Nat /\ cleared[k] \in Nat
      BY DEF NotToldTwice, NoticeTypes
    <2>2. CASE k = kind
      BY <1>1, <1>2, <2>1, <2>2
    <2>3. CASE k # kind
      BY <1>1, <1>2, <2>1, <2>3
    <2>4. QED BY <2>2, <2>3
  <1>5. OneReportPerCooldown'
    <2> SUFFICES ASSUME NEW k \in Repeating \cap Cooling
                 PROVE  queued'[k] <= expiries[k] + unguarded'[k]
                                        + (IF k \in cooldowns' THEN 1 ELSE 0)
      BY DEF OneReportPerCooldown
    <2>1. /\ queued[k] <= expiries[k] + unguarded[k] + (IF k \in cooldowns THEN 1 ELSE 0)
          /\ queued[k] \in Nat /\ expiries[k] \in Nat /\ unguarded[k] \in Nat
      BY DEF OneReportPerCooldown, NoticeTypes
    <2>2. CASE k = kind
      <3>1. CASE ~Refused(kind) /\ TakeCooldown(kind) /\ UNCHANGED unguarded
        BY <1>2, <2>1, <2>2, <3>1 DEF Refused, TakeCooldown
      <3>2. CASE /\ unguarded' = [unguarded EXCEPT ![kind] = @ + 1]
                 /\ UNCHANGED cooldowns
        <4>1. unguarded'[k] = unguarded[k] + 1
          BY <2>2, <3>2 DEF NoticeTypes
        <4>2. QED BY <1>2, <2>1, <2>2, <3>2, <4>1
      <3>3. QED BY <3>1, <3>2
    <2>3. CASE k # kind
      <3>1. unguarded'[k] = unguarded[k] /\ (k \in cooldowns' <=> k \in cooldowns)
        BY <2>3 DEF NoticeTypes, TakeCooldown
      <3>2. QED BY <1>2, <2>1, <2>3, <3>1
    <2>4. QED BY <2>2, <2>3
  <1>6. FlagHasMessage'
    BY <1>1 DEF FlagHasMessage, EnqueueNotice
  <1>7. QED BY <1>3, <1>4, <1>5, <1>6

\* The flag of a suppressed notice.
LEMMA SuppressStep ==
  ASSUME NoticeInv, Suppress
  PROVE  NoticeInv'
  <1> USE DEF NoticeInv, NoticesAreHonest, Suppress
  <1>1. NoticeTypes'
    BY DEF NoticeTypes, SetFlag
  <1>2. NotToldTwice'
    <2> SUFFICES ASSUME NEW k \in Flagged
                 PROVE  queued[k] <= cleared[k] + (IF k \in flags' THEN 1 ELSE 0)
      BY DEF NotToldTwice
    <2>1. /\ queued[k] <= cleared[k] + (IF k \in flags THEN 1 ELSE 0)
          /\ queued[k] \in Nat /\ cleared[k] \in Nat
      BY DEF NotToldTwice, NoticeTypes
    <2>2. k \in flags => k \in flags'
      BY DEF SetFlag
    <2>3. QED BY <2>1, <2>2
  <1>3. OneReportPerCooldown' /\ FlagHasMessage'
    BY DEF OneReportPerCooldown, FlagHasMessage, SetFlag
  <1>4. QED BY <1>1, <1>2, <1>3

\* A cooldown that outlives its transaction only forbids.
LEMMA LossStep ==
  ASSUME NoticeInv, NotifyIsLost
  PROVE  NoticeInv'
  <1> USE DEF NoticeInv, NoticesAreHonest, NotifyIsLost, tally
  <1>1. NoticeTypes' /\ NotToldTwice' /\ FlagHasMessage'
    BY DEF NoticeTypes, NotToldTwice, FlagHasMessage
  <1>2. OneReportPerCooldown'
    <2> SUFFICES ASSUME NEW k \in Repeating \cap Cooling
                 PROVE  queued[k] <= expiries[k] + unguarded[k]
                                       + (IF k \in cooldowns' THEN 1 ELSE 0)
      BY DEF OneReportPerCooldown
    <2>1. /\ queued[k] <= expiries[k] + unguarded[k] + (IF k \in cooldowns THEN 1 ELSE 0)
          /\ queued[k] \in Nat /\ expiries[k] \in Nat /\ unguarded[k] \in Nat
      BY DEF OneReportPerCooldown, NoticeTypes
    <2>2. k \in cooldowns => k \in cooldowns'
      BY DEF TakeCooldown
    <2>3. QED BY <2>1, <2>2
  <1>3. QED BY <1>1, <1>2

LEMMA NoticeSteps == NoticeInv /\ [NoticeNext]_noticeVars => NoticeInv'
  <1> SUFFICES ASSUME NoticeInv, [NoticeNext]_noticeVars PROVE NoticeInv'
    OBVIOUS
  <1>1. ASSUME NEW k \in Kinds, BecomesDue(k) \/ ToggleRule(k) \/ Snooze(k) \/ SnoozeEnds(k)
        PROVE  NoticeInv'
    BY <1>1, NoticesLeft DEF BecomesDue, ToggleRule, Snooze, SnoozeEnds, NoticeInv, NoticeTypes, Idle
  <1>2. ASSUME NEW k \in Kinds, ReadPanel(k) PROVE NoticeInv'
    BY <1>2, NoticesLeft DEF ReadPanel
  <1>3. ASSUME NEW k \in Kinds, CooldownEnds(k) PROVE NoticeInv'
    BY <1>3, CooldownStep
  <1>4. CASE PeriodRenewed
    BY <1>4, ClearStep DEF PeriodRenewed
  <1>5. CASE TrafficAdded
    BY <1>5, ClearStep, NotificationsAssumption DEF TrafficAdded, NotificationsAssumption
  <1>6. CASE NoReason
    BY <1>6, NoticesLeft DEF NoReason
  <1>7. CASE Suppress
    BY <1>7, SuppressStep
  <1>8. CASE Notify
    BY <1>8, NotifyStep DEF Notify
  <1>9. CASE NotifyWithoutRedis
    BY <1>9, NotifyStep DEF NotifyWithoutRedis
  <1>10. CASE NotifyIsLost
    BY <1>10, LossStep
  <1>11. CASE UNCHANGED noticeVars
    BY <1>11, NoticesLeft DEF noticeVars, NoticeInv, NoticeTypes, Idle
  <1>12. QED
    BY <1>1, <1>2, <1>3, <1>4, <1>5, <1>6, <1>7, <1>8, <1>9, <1>10, <1>11 DEF NoticeNext, Visit

\* A user is not told the same thing twice, gets one report per cooldown, and no
\* flag is set without a message or a reason for its absence, whatever the jobs had
\* read before they locked the row and whichever commits are lost (notifications.py
\* and notification_dispatcher.py).
THEOREM NoticesStayHonest == NoticeSpec => []NoticesAreHonest
  <1>1. NoticeInv => NoticesAreHonest
    BY DEF NoticeInv
  <1>2. QED BY <1>1, NoticeStarts, NoticeSteps, PTL DEF NoticeSpec

-----------------------------------------------------------------------------
(***************************************************************************)
(* The paid reset, for any number of clicks.                               *)
(***************************************************************************)

LEMMA ResetTypeStarts == ResetInit => ResetTypeOK
<1> USE BalanceAssumption, BoundsAssumption DEF ResetInit, ResetTypeOK, Unread
<1> QED OBVIOUS

\* The reset writes the balance it loaded, and checks that same balance first.
LEMMA ResetTypeSteps == ResetTypeOK /\ [ResetNext]_resetVars => ResetTypeOK'
<1> SUFFICES ASSUME ResetTypeOK, [ResetNext]_resetVars PROVE ResetTypeOK'
  OBVIOUS
<1> USE PriceAssumption, AmountsAssumption, BoundsAssumption
<1>1. ASSUME NEW s \in Sessions, LoadUser(s) \/ GiveUp(s) PROVE ResetTypeOK'
  BY <1>1 DEF ResetTypeOK, LoadUser, GiveUp, Done, Unread
<1>2. ASSUME NEW s \in Sessions, ResetTrafficPaid(s) PROVE ResetTypeOK'
  BY <1>2 DEF ResetTypeOK, ResetTrafficPaid, Clicked, Done, Unread
<1>3. ASSUME NEW s \in Sessions, ResetIsRolledBack(s) PROVE ResetTypeOK'
  BY <1>3 DEF ResetTypeOK, ResetIsRolledBack, Done, Unread
<1>4. ASSUME NEW a \in Amounts, OthersWrite(a) \/ OthersWrite(-a) PROVE ResetTypeOK'
  BY <1>4 DEF ResetTypeOK, OthersWrite
<1>5. CASE UNCHANGED resetVars
  BY <1>5 DEF ResetTypeOK, resetVars
<1> QED
  BY <1>1, <1>2, <1>3, <1>4, <1>5 DEF ResetNext

\* The stale write never leaves a negative balance, whatever the interleaving.
THEOREM ResetTypeCorrect == ResetSpec => []ResetTypeOK
  BY ResetTypeStarts, ResetTypeSteps, PTL DEF ResetSpec

\* Nobody is charged for a reset the panel did not do (reset_traffic_paid calls the
\* panel before it writes the charge).
THEOREM NeverChargedForNothing == ResetSpec => []ChargedOnlyForResets
<1>1. ResetInit => ChargedOnlyForResets
  BY DEF ResetInit, ChargedOnlyForResets
<1>2. ResetTypeOK /\ ChargedOnlyForResets /\ [ResetNext]_resetVars => ChargedOnlyForResets'
  BY DEF ResetTypeOK, ChargedOnlyForResets, ResetNext, resetVars, LoadUser, GiveUp,
         ResetTrafficPaid, ResetIsRolledBack, OthersWrite
<1> QED
  BY <1>1, <1>2, ResetTypeCorrect, PTL DEF ResetSpec

-----------------------------------------------------------------------------
(***************************************************************************)
(* The subscription, for any number of invoices, months, pages, losses and *)
(* repetitions.                                                            *)
(*                                                                         *)
(* That a renewal is repeated only when its note was overwritten needs no  *)
(* more than the notes: a renewal that was put to the panel is named there *)
(* or forgotten, and a task about to put one has not found it.             *)
(*                                                                         *)
(* That what was paid is kept, and that row and panel agree, is so until   *)
(* one of the writers writes back a reading that another has made outdated *)
(* (misread): the invariant says what each of them has in hand at each of  *)
(* its steps, and the panel is compared with what is in hand only when it  *)
(* is written back.                                                        *)
(***************************************************************************)

Marks == Notes \cup {None}
UserRecords == [exp : Nat, limit : Nat, note : Marks, on : BOOLEAN]
RowRecords == [exp : Nat, limit : Nat, extra : Nat, active : BOOLEAN, due : Nat]
Works(kinds, steps) ==
  [kind : kinds, inv : Invoices \cup {None}, step : steps,
   copy : UserRecords, seen : UserRecords, again : BOOLEAN]
Tasks == Works({None, "renewal", "topup", "reset"},
               {None, "look", "read", "write", "resend", "commit"})
Pages == Works({None} \cup AllPages, {None, "read", "write", "save"})

SubTypes ==
  /\ panel \in UserRecords /\ row \in RowRecords /\ consumed \subseteq Invoices
  /\ task \in Tasks /\ page \in Pages /\ job \in UserRecords
  /\ month \in Nat /\ faults \in Nat
  /\ granted \in Nat /\ promised \in Nat /\ bought \in Nat
  /\ applied \in [Renewals -> Nat] /\ forgotten \subseteq Renewals
  /\ switchedOff \in BOOLEAN /\ misread \in BOOLEAN

\* Whoever works knows what it works on.
Labelled ==
  /\ task.kind = "renewal" => task.inv \in Renewals
  /\ task.kind = "topup" => task.inv \in Topups
  /\ task.step = None <=> task.kind = None
  /\ page.step = None <=> page.kind = None

SubBase == SubTypes /\ Labelled

LEMMA RestingIsWork ==
  /\ Resting \in Tasks /\ Resting \in Pages /\ NoUser \in UserRecords
  /\ Resting.kind = None /\ Resting.step = None
BY DEF Resting, NoUser, Tasks, Pages, Works, UserRecords, Marks, Notes

LEMMA NewUserIs ==
  ASSUME NEW t
  PROVE /\ t.kind = "renewal" => NewUser(t) = Renewed(t)
        /\ t.kind = "topup" => NewUser(t) = ToppedUp(t)
        /\ t.kind = "reset" => NewUser(t) = Monthly(t)
<1>1. ASSUME t.kind = "renewal" PROVE NewUser(t) = Renewed(t)
  BY <1>1, "renewal" # "topup", "renewal" # "reset" DEF NewUser
<1>2. ASSUME t.kind = "topup" PROVE NewUser(t) = ToppedUp(t)
  BY <1>2, "renewal" # "topup", "topup" # "reset", Zenon DEF NewUser
<1>3. ASSUME t.kind = "reset" PROVE NewUser(t) = Monthly(t)
  BY <1>3, "reset" # "topup", "renewal" # "reset", Zenon DEF NewUser
<1> QED BY <1>1, <1>2, <1>3

LEMMA PageUserIs ==
  ASSUME NEW p
  PROVE /\ p.kind = "disable" => PageUser(p) = [p.copy EXCEPT !.on = FALSE]
        /\ p.kind = "enable" => PageUser(p) = [p.copy EXCEPT !.on = TRUE]
        /\ p.kind = "extend" => PageUser(p) = [exp |-> Extended(p.copy), limit |-> Base,
                                               note |-> "admin_extend", on |-> TRUE]
<1>1. "disable" # "enable" /\ "disable" # "extend" /\ "enable" # "extend"
  OBVIOUS
<1>2. ASSUME p.kind = "disable" PROVE PageUser(p) = [p.copy EXCEPT !.on = FALSE]
  BY <1>1, <1>2, Zenon DEF PageUser
<1>3. ASSUME p.kind = "enable" PROVE PageUser(p) = [p.copy EXCEPT !.on = TRUE]
  BY <1>1, <1>3, Zenon DEF PageUser
<1>4. ASSUME p.kind = "extend"
      PROVE PageUser(p) = [exp |-> Extended(p.copy), limit |-> Base,
                           note |-> "admin_extend", on |-> TRUE]
  BY <1>1, <1>4, Zenon DEF PageUser
<1> QED BY <1>2, <1>3, <1>4

LEMMA NewUserType ==
  ASSUME SubBase, task.kind # None
  PROVE NewUser(task) \in UserRecords /\ NewUser(task).note \in Marks
<1> USE SubscriptionAssumption DEF SubBase, SubTypes, Labelled
<1>1. task.kind \in {"renewal", "topup", "reset"}
  BY DEF Tasks, Works
<1>2. task.copy \in UserRecords /\ task.seen \in UserRecords /\ task.inv \in Invoices \cup {None}
  BY DEF Tasks, Works
<1>3. ASSUME task.kind = "renewal" PROVE NewUser(task) \in UserRecords
  <2>1. Extended(task.copy) \in Nat
    BY <1>2 DEF UserRecords, Extended, Later
  <2>2. task.inv \in Marks /\ Base \in Nat
    BY <1>3 DEF Marks, Notes
  <2>3. Renewed(task) \in UserRecords
    BY <2>1, <2>2 DEF Renewed, UserRecords
  <2> QED BY <1>3, <2>3, NewUserIs
<1>4. ASSUME task.kind = "topup" PROVE NewUser(task) \in UserRecords
  <2>1. \A c \in UserRecords, l \in Nat : [c EXCEPT !.limit = l, !.on = TRUE] \in UserRecords
    BY DEF UserRecords
  <2>2. task.seen.limit + 1 \in Nat
    BY <1>2 DEF UserRecords
  <2>3. PICK c \in UserRecords : c = task.copy
    BY <1>2
  <2>4. PICK l \in Nat : l = task.seen.limit + 1
    BY <2>2
  <2>5. [c EXCEPT !.limit = l, !.on = TRUE] \in UserRecords
    BY <2>1
  <2>6. ToppedUp(task) \in UserRecords
    BY <2>3, <2>4, <2>5 DEF ToppedUp
  <2> QED BY <1>4, <2>6, NewUserIs
<1>5. ASSUME task.kind = "reset" PROVE NewUser(task) \in UserRecords
  <2>1. task.seen.on \in BOOLEAN /\ row.exp \in Nat
    BY <1>2 DEF UserRecords, RowRecords
  <2> QED BY <1>5, <2>1, NewUserIs DEF Monthly, UserRecords, Marks, Notes
<1>6. NewUser(task) \in UserRecords
  BY <1>1, <1>3, <1>4, <1>5
<1> QED BY <1>6 DEF UserRecords

LEMMA PageUserType ==
  ASSUME SubBase, page.kind # None
  PROVE PageUser(page) \in UserRecords
<1> USE SubscriptionAssumption DEF SubBase, SubTypes, Labelled
<1>1. page.kind \in {"disable", "enable", "extend"} /\ page.copy \in UserRecords
  BY DEF Pages, Works, AllPages
<1>2. \A c \in UserRecords, b \in BOOLEAN : [c EXCEPT !.on = b] \in UserRecords
  BY DEF UserRecords
<1>3. Extended(page.copy) \in Nat
  BY <1>1 DEF UserRecords, Extended, Later
<1>4. [exp |-> Extended(page.copy), limit |-> Base, note |-> "admin_extend", on |-> TRUE]
        \in UserRecords
  BY <1>3 DEF UserRecords, Marks, Notes
<1> QED BY <1>1, <1>2, <1>4, PageUserIs

LEMMA RowTypes ==
  ASSUME SubBase
  PROVE /\ \A p \in UserRecords :
             /\ Synced(row, p) \in RowRecords
             /\ Synced(row, p).exp = p.exp /\ Synced(row, p).limit = p.limit
             /\ Synced(row, p).active = (p.on /\ p.exp > month)
             /\ Synced(row, p).extra = row.extra /\ Synced(row, p).due = row.due
        /\ \A t \in Tasks : /\ RenewedRow(t) \in RowRecords
                            /\ ToppedUpRow(t) \in RowRecords
                            /\ MonthlyRow(t) \in RowRecords
<1> USE DEF SubBase, SubTypes
<1>1. ASSUME NEW p \in UserRecords
      PROVE /\ Synced(row, p) \in RowRecords
            /\ Synced(row, p).exp = p.exp /\ Synced(row, p).limit = p.limit
            /\ Synced(row, p).active = (p.on /\ p.exp > month)
            /\ Synced(row, p).extra = row.extra /\ Synced(row, p).due = row.due
  BY DEF Synced, RowRecords, UserRecords
<1>2. Base \in Nat /\ month \in Nat
        /\ month + 1 \in Nat /\ 0 \in Nat
  BY SubscriptionAssumption
<1>3. ASSUME NEW t \in Tasks
      PROVE RenewedRow(t) \in RowRecords
  <2>1. PICK r \in RowRecords : r = Synced(row, t.copy)
    BY <1>1 DEF Tasks, Works
  <2> DEFINE kept == [r EXCEPT !.active = TRUE, !.limit = Base + r.extra]
             fresh == [r EXCEPT !.active = TRUE, !.limit = Base, !.extra = 0, !.due = month + 1]
  <2>2. kept \in RowRecords
    <3>1. Base + r.extra \in Nat
      BY <1>2 DEF RowRecords
    <3>2. \A l \in Nat : [r EXCEPT !.active = TRUE, !.limit = l] \in RowRecords
      BY DEF RowRecords
    <3> QED BY <3>1, <3>2
  <2>4. fresh \in RowRecords
    <3>1. \A l, d \in Nat : [r EXCEPT !.active = TRUE, !.limit = l, !.extra = 0, !.due = d]
                             \in RowRecords
      BY DEF RowRecords
    <3> QED BY <1>2, <3>1
  <2>3. RenewedRow(t) = IF t.again /\ row.due # NoCycle THEN kept ELSE fresh
    BY <2>1 DEF RenewedRow
  <2> QED BY <2>2, <2>3, <2>4
<1>4. ASSUME NEW t \in Tasks
      PROVE ToppedUpRow(t) \in RowRecords
  <2>1. PICK r \in RowRecords : r = Synced(row, t.copy)
    BY <1>1 DEF Tasks, Works
  <2>2. row.extra + 1 \in Nat /\ Base + row.extra + 1 \in Nat
    BY <1>2 DEF RowRecords
  <2>3. PICK until \in Nat : until = IF row.due # NoCycle THEN row.due
                                     ELSE IF row.exp > month THEN month + 1 ELSE month
    BY <1>2 DEF RowRecords
  <2>4. ToppedUpRow(t) = [r EXCEPT !.extra = row.extra + 1, !.limit = Base + row.extra + 1,
                                   !.due = until]
    BY <2>1, <2>3 DEF ToppedUpRow
  <2> QED BY <2>2, <2>4 DEF RowRecords
<1>5. ASSUME NEW t \in Tasks
      PROVE MonthlyRow(t) \in RowRecords
  <2>1. PICK r \in RowRecords : r = Synced(row, t.copy)
    BY <1>1 DEF Tasks, Works
  <2>2. MonthlyRow(t) = [r EXCEPT !.extra = 0, !.limit = Base, !.due = month + 1]
    BY <2>1 DEF MonthlyRow
  <2>3. \A l, d \in Nat : [r EXCEPT !.extra = 0, !.limit = l, !.due = d] \in RowRecords
    BY DEF RowRecords
  <2> QED BY <1>2, <2>2, <2>3
<1> QED BY <1>1, <1>3, <1>4, <1>5

LEMMA CommitWrites ==
  ASSUME Commit
  PROVE /\ task.kind = "renewal" => row' = RenewedRow(task)
        /\ task.kind = "topup" => row' = ToppedUpRow(task)
        /\ task.kind = "reset" => row' = MonthlyRow(task)
<1>1. row' = CASE task.kind = "renewal" -> RenewedRow(task)
               [] task.kind = "topup" -> ToppedUpRow(task)
               [] task.kind = "reset" -> MonthlyRow(task)
  BY DEF Commit
<1>2. "renewal" # "topup" /\ "renewal" # "reset" /\ "topup" # "reset"
  OBVIOUS
<1>3. task.kind = "renewal" => row' = RenewedRow(task)
  BY <1>1, <1>2, Zenon
<1>4. task.kind = "topup" => row' = ToppedUpRow(task)
  BY <1>1, <1>2, Zenon
<1>5. task.kind = "reset" => row' = MonthlyRow(task)
  BY <1>1, <1>2, Zenon
<1> QED BY <1>3, <1>4, <1>5

LEMMA PageSaveWrites ==
  ASSUME PageSaves
  PROVE /\ page.kind = "disable" => row' = [row EXCEPT !.active = FALSE]
        /\ page.kind = "enable" => row' = [row EXCEPT !.active = TRUE]
        /\ page.kind = "extend" => row' = [row EXCEPT !.exp = page.copy.exp, !.active = TRUE]
<1>1. row' = CASE page.kind = "disable" -> [row EXCEPT !.active = FALSE]
               [] page.kind = "enable" -> [row EXCEPT !.active = TRUE]
               [] page.kind = "extend" -> [row EXCEPT !.exp = page.copy.exp, !.active = TRUE]
  BY DEF PageSaves
<1>2. "disable" # "enable" /\ "disable" # "extend" /\ "enable" # "extend"
  OBVIOUS
<1>3. page.kind = "disable" => row' = [row EXCEPT !.active = FALSE]
  BY <1>1, <1>2, Zenon
<1>4. page.kind = "enable" => row' = [row EXCEPT !.active = TRUE]
  BY <1>1, <1>2, Zenon
<1>5. page.kind = "extend" => row' = [row EXCEPT !.exp = page.copy.exp, !.active = TRUE]
  BY <1>1, <1>2, Zenon
<1> QED BY <1>3, <1>4, <1>5

\* What a step of the task leaves of it.
Started(kind, i) == [Resting EXCEPT !.kind = kind, !.inv = i, !.step = "look"]
Moved(t, user, step) == [t EXCEPT !.copy = user, !.step = step]
Looked(t, seen, again, step) ==
  [t EXCEPT !.seen = seen, !.copy = seen, !.again = again, !.step = step]
Opened(kind) == [Resting EXCEPT !.kind = kind, !.step = "read"]

LEMMA StartedIs ==
  ASSUME NEW kind \in {"renewal", "topup", "reset"}, NEW i \in Invoices \cup {None}
  PROVE /\ Started(kind, i) \in Tasks
        /\ Started(kind, i).kind = kind /\ Started(kind, i).inv = i
        /\ Started(kind, i).step = "look"
<1>1. NoUser \in UserRecords
  BY RestingIsWork
<1> QED BY <1>1 DEF Started, Tasks, Works, Resting

LEMMA MovedIs ==
  ASSUME NEW t \in Tasks, NEW user \in UserRecords,
         NEW step \in {"write", "commit"}
  PROVE /\ Moved(t, user, step) \in Tasks
        /\ Moved(t, user, step).kind = t.kind /\ Moved(t, user, step).inv = t.inv
        /\ Moved(t, user, step).seen = t.seen /\ Moved(t, user, step).again = t.again
        /\ Moved(t, user, step).copy = user /\ Moved(t, user, step).step = step
  BY DEF Moved, Tasks, Works

LEMMA LookedIs ==
  ASSUME NEW t \in Tasks, NEW seen \in UserRecords, NEW again \in BOOLEAN,
         NEW step \in {"commit", "read"}
  PROVE /\ Looked(t, seen, again, step) \in Tasks
        /\ Looked(t, seen, again, step).kind = t.kind /\ Looked(t, seen, again, step).inv = t.inv
        /\ Looked(t, seen, again, step).seen = seen /\ Looked(t, seen, again, step).again = again
        /\ Looked(t, seen, again, step).copy = seen /\ Looked(t, seen, again, step).step = step
  BY DEF Looked, Tasks, Works

LEMMA OpenedIs ==
  ASSUME NEW kind \in AllPages
  PROVE Opened(kind) \in Pages /\ Opened(kind).kind = kind /\ Opened(kind).step = "read"
<1>1. NoUser \in UserRecords
  BY RestingIsWork
<1> QED BY <1>1 DEF Opened, Pages, Works, Resting, AllPages

LEMMA PageMovedIs ==
  ASSUME NEW p \in Pages, NEW user \in UserRecords, NEW step \in {"write", "save"}
  PROVE /\ Moved(p, user, step) \in Pages /\ Moved(p, user, step).kind = p.kind
        /\ Moved(p, user, step).copy = user /\ Moved(p, user, step).step = step
  BY DEF Moved, Pages, Works

\* The steps of the task and of the page, in these words.
LEMMA LookMoves ==
  ASSUME SubBase, Look
  PROVE /\ task'.kind = task.kind /\ task'.inv = task.inv /\ task' \in Tasks
        /\ task'.seen = panel /\ task'.copy = panel
        /\ task'.again = (task.kind = "renewal" /\ panel.note = task.inv)
        /\ task'.step = IF task'.again THEN "commit" ELSE "read"
<1>1. task \in Tasks /\ panel \in UserRecords
  BY DEF SubBase, SubTypes
<1>2. PICK again \in BOOLEAN : again = (task.kind = "renewal" /\ panel.note = task.inv)
  OBVIOUS
<1>3. PICK step \in {"commit", "read"} : step = IF again THEN "commit" ELSE "read"
  OBVIOUS
<1>4. PICK t \in Tasks, p \in UserRecords : t = task /\ p = panel
  BY <1>1
<1>5. task' = Looked(t, p, again, step)
  BY <1>2, <1>3, <1>4 DEF Look, AlreadyApplied, Looked
<1>6. /\ task' \in Tasks /\ task'.kind = t.kind /\ task'.inv = t.inv
      /\ task'.seen = p /\ task'.copy = p /\ task'.again = again /\ task'.step = step
  BY <1>5, LookedIs
<1> QED BY <1>2, <1>3, <1>4, <1>6

LEMMA ReadMoves ==
  ASSUME SubBase, Read
  PROVE /\ task' \in Tasks /\ task'.kind = task.kind /\ task'.inv = task.inv
        /\ task'.seen = task.seen /\ task'.again = task.again
        /\ task'.copy = panel /\ task'.step = "write"
<1>1. task \in Tasks /\ panel \in UserRecords
  BY DEF SubBase, SubTypes
<1>2. task' = Moved(task, panel, "write")
  BY DEF Read, Moved
<1> QED BY <1>1, <1>2, MovedIs

LEMMA ResendMoves ==
  ASSUME SubBase, WriteIsRepeated
  PROVE /\ task' \in Tasks /\ task'.kind = task.kind /\ task'.inv = task.inv
        /\ task'.seen = task.seen /\ task'.again = task.again
        /\ task'.copy = task.copy /\ task'.step = "resend"
<1>1. task \in Tasks
  BY DEF SubBase, SubTypes
<1>2. task' = [task EXCEPT !.step = "resend"]
  BY DEF WriteIsRepeated
<1> QED BY <1>1, <1>2 DEF Tasks, Works

LEMMA PageReadMoves ==
  ASSUME SubBase, PageReads
  PROVE page' \in Pages /\ page'.kind = page.kind /\ page'.copy = panel /\ page'.step = "write"
<1>1. page \in Pages /\ panel \in UserRecords
  BY DEF SubBase, SubTypes
<1>2. page' = Moved(page, panel, "write")
  BY DEF PageReads, Moved
<1> QED BY <1>1, <1>2, PageMovedIs

\* A PUT replaces the user, whoever sends it.
LEMMA PutTypes ==
  ASSUME SubBase, NEW user \in UserRecords, Put(user)
  PROVE /\ panel' = user /\ panel' \in UserRecords
        /\ forgotten' \subseteq Renewals /\ forgotten \subseteq forgotten'
        /\ panel.note \in Renewals /\ user.note # panel.note => panel.note \in forgotten'
  BY DEF Put, SubBase, SubTypes

LEMMA WriteTypes ==
  ASSUME SubBase, WriteTakesEffect
  PROVE /\ task.kind \in {"renewal", "topup", "reset"}
        /\ Put(NewUser(task)) /\ NewUser(task) \in UserRecords
        /\ panel' = NewUser(task) /\ panel' \in UserRecords
        /\ forgotten' \subseteq Renewals
        /\ applied' \in [Renewals -> Nat] /\ promised' \in Nat /\ bought' \in Nat
        /\ switchedOff' \in BOOLEAN /\ misread' \in BOOLEAN
<1>1. task.kind \in {"renewal", "topup", "reset"}
  BY DEF WriteTakesEffect, SubBase, SubTypes, Labelled, Tasks, Works, None
<1>2. NewUser(task) \in UserRecords
  BY <1>1, NewUserType DEF None
<1>3. Put(NewUser(task))
  BY DEF WriteTakesEffect
<1>4. panel' = NewUser(task) /\ panel' \in UserRecords /\ forgotten' \subseteq Renewals
  BY <1>2, <1>3, PutTypes
<1>5. applied' \in [Renewals -> Nat]
  BY DEF WriteTakesEffect, SubBase, SubTypes, Labelled
<1>6. promised' \in Nat /\ bought' \in Nat /\ switchedOff' \in BOOLEAN /\ misread' \in BOOLEAN
  BY DEF WriteTakesEffect, SubBase, SubTypes, Later
<1> QED BY <1>1, <1>2, <1>3, <1>4, <1>5, <1>6

LEMMA PageTypes ==
  ASSUME SubBase, PageTakesEffect
  PROVE /\ page.kind \in AllPages
        /\ Put(PageUser(page)) /\ PageUser(page) \in UserRecords
        /\ panel' = PageUser(page) /\ panel' \in UserRecords
        /\ forgotten' \subseteq Renewals /\ bought' \in Nat /\ switchedOff' \in BOOLEAN
        /\ misread' \in BOOLEAN
<1>1. page.kind \in AllPages /\ page.kind # None
  BY DEF PageTakesEffect, SubBase, SubTypes, Labelled, Pages, Works, None
<1>2. PageUser(page) \in UserRecords
  BY <1>1, PageUserType
<1>3. Put(PageUser(page))
  BY DEF PageTakesEffect
<1>4. panel' = PageUser(page) /\ panel' \in UserRecords /\ forgotten' \subseteq Renewals
  BY <1>2, <1>3, PutTypes
<1>5. bought' \in Nat /\ switchedOff' \in BOOLEAN /\ misread' \in BOOLEAN
  BY DEF PageTakesEffect, SubBase, SubTypes
<1> QED BY <1>1, <1>2, <1>3, <1>4, <1>5

LEMMA WriteMoves ==
  ASSUME SubBase, Write
  PROVE /\ task' \in Tasks /\ task'.kind = task.kind /\ task'.inv = task.inv
        /\ task'.seen = task.seen /\ task'.again = task.again
        /\ task'.copy = panel' /\ task'.step = "commit"
<1>1. WriteTakesEffect
  BY DEF Write
<1>2. PICK user \in UserRecords : user = panel'
  BY <1>1, WriteTypes
<1>3. task \in Tasks
  BY DEF SubBase, SubTypes
<1>4. task' = Moved(task, user, "commit")
  BY <1>2 DEF Write, Moved
<1> QED BY <1>2, <1>3, <1>4, MovedIs

LEMMA PageWriteMoves ==
  ASSUME SubBase, PageWrites
  PROVE page' \in Pages /\ page'.kind = page.kind /\ page'.copy = panel' /\ page'.step = "save"
<1>1. PageTakesEffect
  BY DEF PageWrites
<1>2. PICK user \in UserRecords : user = panel'
  BY <1>1, PageTypes
<1>3. page \in Pages
  BY DEF SubBase, SubTypes
<1>4. page' = Moved(page, user, "save")
  BY <1>2 DEF PageWrites, Moved
<1> QED BY <1>2, <1>3, <1>4, PageMovedIs

LEMMA SubBaseStarts == SubscriptionInit => SubBase
<1> SUFFICES ASSUME SubscriptionInit PROVE SubBase
  OBVIOUS
<1>1. panel \in UserRecords /\ row \in RowRecords
  BY SubscriptionAssumption DEF SubscriptionInit, UserRecords, RowRecords, Marks, Notes
<1>2. SubTypes
  BY <1>1, RestingIsWork, SubscriptionAssumption DEF SubscriptionInit, SubTypes
<1> QED BY <1>2, RestingIsWork DEF SubscriptionInit, SubBase, Labelled, None

\* A task is left by every way it can end.
LEMMA SubBaseAfterTask ==
  ASSUME SubBase, SubTypes', page' = page,
         \/ task' = Resting
         \/ task'.step # None /\ task.step # None /\ task'.kind = task.kind /\ task'.inv = task.inv
  PROVE SubBase'
  BY RestingIsWork DEF SubBase, Labelled, None

LEMMA SubBaseSteps ==
  ASSUME SubBase, [SubscriptionNext]_subscriptionVars
  PROVE SubBase'
<1> USE DEF None
<1>1. ASSUME NEW i \in Invoices, NEW kind \in {"renewal", "topup"},
             StartWith(kind, i, "look"), kind = "renewal" => i \in Renewals,
             kind = "topup" => i \in Topups,
             UNCHANGED <<panel, row, consumed, page, job, month, faults, history>>
      PROVE SubBase'
  <2>1. PICK t \in Tasks : /\ t = Started(kind, i)
                           /\ t.kind = kind /\ t.inv = i /\ t.step = "look"
    BY StartedIs
  <2>2. task' = t
    BY <1>1, <2>1 DEF StartWith, Started
  <2> QED BY <1>1, <2>1, <2>2 DEF SubBase, SubTypes, Labelled, history
<1>2. CASE StartMonthlyReset
  <2>1. PICK t \in Tasks : t = Started("reset", None) /\ t.kind = "reset" /\ t.step = "look"
    BY StartedIs
  <2>2. task' = t
    BY <1>2, <2>1 DEF StartMonthlyReset, StartWith, Started
  <2> QED BY <1>2, <2>1, <2>2 DEF StartMonthlyReset, SubBase, SubTypes, Labelled, history
<1>3. CASE CloseExpiredCycle
  <2>1. row' \in RowRecords
    BY <1>3 DEF CloseExpiredCycle, SubBase, SubTypes, RowRecords, NoCycle
  <2> QED BY <1>3, <2>1 DEF CloseExpiredCycle, SubBase, SubTypes, Labelled, history
<1>4. CASE Look
  <2>1. task' \in Tasks /\ task'.kind = task.kind /\ task'.inv = task.inv /\ task'.step # None
    BY <1>4, LookMoves
  <2>2. SubTypes'
    BY <1>4, <2>1 DEF Look, SubBase, SubTypes, history
  <2> QED BY <1>4, <2>1, <2>2, SubBaseAfterTask DEF Look
<1>5. CASE Read
  <2>1. SubTypes'
    BY <1>5, ReadMoves DEF Read, SubBase, SubTypes, history
  <2> QED BY <1>5, <2>1, ReadMoves, SubBaseAfterTask DEF Read
<1>6. CASE Write
  <2>1. WriteTakesEffect
    BY <1>6 DEF Write
  <2>2. SubTypes'
    BY <1>6, <2>1, WriteMoves, WriteTypes DEF Write, WriteTakesEffect, SubBase, SubTypes
  <2> QED BY <1>6, <2>1, <2>2, WriteMoves, SubBaseAfterTask DEF WriteTakesEffect
<1>7. CASE WriteIsRepeated
  <2>1. WriteTakesEffect
    BY <1>7 DEF WriteIsRepeated
  <2>2. SubTypes'
    BY <1>7, <2>1, ResendMoves, WriteTypes
       DEF WriteIsRepeated, Fault, WriteTakesEffect, SubBase, SubTypes
  <2> QED BY <1>7, <2>1, <2>2, ResendMoves, SubBaseAfterTask DEF WriteTakesEffect
<1>8. CASE WriteIsGivenUp
  <2>1. WriteTakesEffect
    BY <1>8 DEF WriteIsGivenUp
  <2>2. SubTypes'
    BY <1>8, <2>1, WriteTypes, RestingIsWork
       DEF WriteIsGivenUp, Fault, WriteTakesEffect, SubBase, SubTypes
  <2> QED BY <1>8, <2>1, <2>2, SubBaseAfterTask DEF WriteTakesEffect, WriteIsGivenUp
<1>9. CASE TaskFails
  <2>1. task.seen \in UserRecords
    BY DEF SubBase, SubTypes, Tasks, Works
  <2>2. row' \in RowRecords
    BY <1>9, <2>1, RowTypes DEF TaskFails, SubBase, SubTypes
  <2>3. SubTypes'
    BY <1>9, <2>2, RestingIsWork DEF TaskFails, Fault, SubBase, SubTypes, history
  <2> QED BY <1>9, <2>3, SubBaseAfterTask DEF TaskFails
<1>10. CASE CommitIsLost
  <2>1. SubTypes'
    BY <1>10, RestingIsWork DEF CommitIsLost, Fault, SubBase, SubTypes, history
  <2> QED BY <1>10, <2>1, SubBaseAfterTask DEF CommitIsLost
<1>11. CASE Commit
  <2>1. task \in Tasks /\ task.kind \in {"renewal", "topup", "reset"}
    BY <1>11 DEF Commit, SubBase, SubTypes, Labelled, Tasks, Works
  <2>2. row' \in RowRecords
    BY <1>11, <2>1, CommitWrites, RowTypes
  <2>3. consumed' \subseteq Invoices /\ granted' \in Nat /\ bought' \in Nat
    BY <1>11, <2>1 DEF Commit, SubBase, SubTypes, Labelled, Invoices
  <2>4. SubTypes'
    BY <1>11, <2>2, <2>3, RestingIsWork DEF Commit, SubBase, SubTypes
  <2> QED BY <1>11, <2>4, SubBaseAfterTask DEF Commit
<1>12. ASSUME NEW k \in ConsolePages, StartPage(k) PROVE SubBase'
  <2>1. k \in AllPages
    BY SubscriptionAssumption
  <2>2. PICK p \in Pages : p = Opened(k) /\ p.kind = k /\ p.step = "read"
    BY <2>1, OpenedIs
  <2>3. page' = p /\ p.kind # None
    BY <1>12, <2>1, <2>2 DEF StartPage, Opened, AllPages
  <2> QED BY <1>12, <2>2, <2>3 DEF StartPage, SubBase, SubTypes, Labelled, history
<1>13. CASE PageReads
  BY <1>13, PageReadMoves DEF PageReads, SubBase, SubTypes, Labelled, history
<1>14. CASE PageWrites
  <2>1. PageTakesEffect
    BY <1>14 DEF PageWrites
  <2> QED BY <1>14, <2>1, PageWriteMoves, PageTypes
          DEF PageWrites, PageTakesEffect, SubBase, SubTypes, Labelled
<1>15. CASE PageFails
  <2>1. CASE PageTakesEffect
    BY <1>15, <2>1, PageTypes, RestingIsWork
       DEF PageFails, Fault, PageTakesEffect, SubBase, SubTypes, Labelled
  <2>2. CASE UNCHANGED <<panel, row, consumed, task, job, month, history>>
    BY <1>15, <2>2, RestingIsWork DEF PageFails, Fault, SubBase, SubTypes, Labelled, history
  <2> QED BY <1>15, <2>1, <2>2 DEF PageFails
<1>16. CASE PageSaves
  <2>1. page.kind \in AllPages /\ page.copy.exp \in Nat
    BY <1>16 DEF PageSaves, SubBase, SubTypes, Labelled, Pages, Works, UserRecords
  <2>2. row \in RowRecords
    BY DEF SubBase, SubTypes
  <2>3. row' \in RowRecords
    BY <1>16, <2>1, <2>2, PageSaveWrites DEF RowRecords, AllPages
  <2>4. granted' \in Nat /\ switchedOff' \in BOOLEAN
    BY <1>16 DEF PageSaves, Later, SubBase, SubTypes
  <2> QED BY <1>16, <2>3, <2>4, RestingIsWork DEF PageSaves, SubBase, SubTypes, Labelled
<1>17. CASE JobReads
  BY <1>17 DEF JobReads, SubBase, SubTypes, Labelled, history
<1>18. CASE JobSyncs
  <2>1. row' \in RowRecords
    BY <1>18, RowTypes DEF JobSyncs, SubBase, SubTypes
  <2> QED BY <1>18, <2>1, RestingIsWork DEF JobSyncs, SubBase, SubTypes, Labelled, history
<1>19. CASE AMonthPasses
  BY <1>19 DEF AMonthPasses, SubBase, SubTypes, Labelled, history
<1>20. CASE UNCHANGED subscriptionVars
  BY <1>20 DEF subscriptionVars, SubBase, SubTypes, Labelled, history
<1>21. ASSUME NEW i \in Renewals, StartRenewal(i) PROVE SubBase'
  BY <1>1, <1>21 DEF StartRenewal, Invoices
<1>22. ASSUME NEW i \in Topups, StartTopup(i) PROVE SubBase'
  BY <1>1, <1>22 DEF StartTopup, Invoices
<1>23. CASE Operate
  BY <1>2, <1>3, <1>4, <1>5, <1>6, <1>7, <1>8, <1>9, <1>10, <1>11, <1>21, <1>22, <1>23 DEF Operate
<1>24. CASE Administer
  BY <1>12, <1>13, <1>14, <1>15, <1>16, <1>24 DEF Administer
<1> QED BY <1>17, <1>18, <1>19, <1>20, <1>23, <1>24 DEF SubscriptionNext

\* A renewal that was put to the panel is still named there, or its note was
\* overwritten; a task about to put one has not found it there.
Noted == \A i \in Renewals : applied[i] > 0 => panel.note = i \/ i \in forgotten
Unseen ==
  task.kind = "renewal" /\ task.step \in {"read", "write"} =>
    applied[task.inv] = 0 \/ task.inv \in forgotten
NotesInv == SubBase /\ Noted /\ RepeatedOnlyIfForgotten /\ Unseen

\* A step that puts no renewal to the panel.
LEMMA NotesQuiet ==
  ASSUME NotesInv, SubBase', applied' = applied,
         \/ panel' = panel /\ forgotten' = forgotten
         \/ \E user \in UserRecords : Put(user),
         \/ task' = task
         \/ task'.step \notin {"read", "write"}
         \/ /\ task'.kind = task.kind /\ task'.inv = task.inv
            /\ task.step = "read" \/ (task.kind = "renewal" => panel.note # task.inv)
            /\ forgotten' = forgotten
  PROVE NotesInv'
<1> USE DEF NotesInv, SubBase, SubTypes
<1>1. Noted' /\ forgotten \subseteq forgotten'
  BY DEF Noted, Put
<1>2. RepeatedOnlyIfForgotten'
  BY <1>1 DEF RepeatedOnlyIfForgotten
<1>3. CASE task' = task
  BY <1>1, <1>2, <1>3 DEF Unseen
<1>4. CASE task'.step \notin {"read", "write"}
  BY <1>1, <1>2, <1>4 DEF Unseen
<1>5. CASE /\ task'.kind = task.kind /\ task'.inv = task.inv
           /\ task.step = "read" \/ (task.kind = "renewal" => panel.note # task.inv)
           /\ forgotten' = forgotten
  <2>1. ASSUME task.kind = "renewal"
        PROVE applied[task.inv] = 0 \/ task.inv \in forgotten
    <3>1. task.inv \in Renewals /\ applied[task.inv] \in Nat
      BY <2>1 DEF Labelled
    <3>2. CASE task.step = "read"
      BY <2>1, <3>2 DEF Unseen
    <3>3. CASE panel.note # task.inv
      BY <3>1, <3>3 DEF Noted
    <3> QED BY <1>5, <2>1, <3>2, <3>3
  <2>2. Unseen'
    BY <1>5, <2>1 DEF Unseen
  <2> QED BY <1>1, <1>2, <2>2
<1> QED BY <1>3, <1>4, <1>5

LEMMA NotesWrite ==
  ASSUME NotesInv, SubBase', WriteTakesEffect, task'.step \notin {"read", "write"}
  PROVE NotesInv'
<1>1. /\ Put(NewUser(task)) /\ NewUser(task) \in UserRecords /\ panel' = NewUser(task)
  BY WriteTypes DEF NotesInv
<1>2. CASE task.kind # "renewal"
  <2>1. applied' = applied
    BY <1>2 DEF WriteTakesEffect
  <2>2. PICK user \in UserRecords : Put(user)
    BY <1>1
  <2> QED BY <2>1, <2>2, NotesQuiet
<1>3. CASE task.kind = "renewal"
  <2>1. PICK i \in Renewals : task.inv = i
    BY <1>3 DEF NotesInv, SubBase, Labelled
  <2>2. panel'.note = i
    BY <1>1, <1>3, <2>1, NewUserIs DEF Renewed
  <2>3. applied \in [Renewals -> Nat]
    BY DEF NotesInv, SubBase, SubTypes
  <2>4. applied' = [applied EXCEPT ![i] = @ + (IF task.step = "write" THEN 1 ELSE 0)]
    BY <1>3, <2>1 DEF WriteTakesEffect
  <2>5. /\ \A k \in Renewals : k # i => applied'[k] = applied[k]
        /\ applied'[i] = applied[i] + (IF task.step = "write" THEN 1 ELSE 0)
    BY <2>3, <2>4
  <2>6. /\ forgotten \subseteq forgotten'
        /\ \A k \in Renewals : k # i /\ panel.note = k => k \in forgotten'
    BY <1>1, <2>2 DEF Put
  <2>7. Noted'
    BY <2>2, <2>5, <2>6 DEF NotesInv, Noted
  <2>8. ASSUME applied'[i] > 1 PROVE i \in forgotten
    <3>1. CASE task.step = "write"
      <4>1. applied[i] = 0 \/ i \in forgotten
        BY <1>3, <2>1, <3>1 DEF NotesInv, Unseen
      <4> QED BY <2>3, <2>5, <2>8, <3>1, <4>1
    <3>2. CASE task.step # "write"
      BY <2>3, <2>5, <2>8, <3>2 DEF NotesInv, RepeatedOnlyIfForgotten
    <3> QED BY <3>1, <3>2
  <2>9. RepeatedOnlyIfForgotten'
    BY <2>5, <2>6, <2>8 DEF NotesInv, RepeatedOnlyIfForgotten
  <2>10. Unseen'
    BY DEF Unseen
  <2> QED BY <2>7, <2>9, <2>10 DEF NotesInv
<1> QED BY <1>2, <1>3

LEMMA NotesStart == SubscriptionInit => NotesInv
<1> SUFFICES ASSUME SubscriptionInit PROVE NotesInv
  OBVIOUS
<1>1. \A i \in Renewals : applied[i] = 0
  BY DEF SubscriptionInit
<1>2. task.kind # "renewal"
  BY RestingIsWork DEF SubscriptionInit, None
<1> QED BY <1>1, <1>2, SubBaseStarts DEF NotesInv, Noted, RepeatedOnlyIfForgotten, Unseen

LEMMA NotesSteps == NotesInv /\ [SubscriptionNext]_subscriptionVars => NotesInv'
<1> SUFFICES ASSUME NotesInv, [SubscriptionNext]_subscriptionVars PROVE NotesInv'
  OBVIOUS
<1>1. SubBase /\ SubBase'
  BY SubBaseSteps DEF NotesInv
<1> USE DEF history, None
<1>2. ASSUME NEW kind \in {"renewal", "topup", "reset"}, NEW i \in Invoices \cup {None},
             StartWith(kind, i, "look"),
             UNCHANGED <<panel, row, consumed, page, job, month, faults, history>>
      PROVE NotesInv'
  <2>1. task' = Started(kind, i)
    BY <1>2 DEF StartWith, Started
  <2>2. task'.step = "look"
    BY <2>1, StartedIs
  <2> QED BY <1>1, <1>2, <2>2, NotesQuiet
<1>3. CASE CloseExpiredCycle \/ JobReads \/ JobSyncs \/ AMonthPasses \/ UNCHANGED subscriptionVars
  BY <1>1, <1>3, NotesQuiet
     DEF CloseExpiredCycle, JobReads, JobSyncs, AMonthPasses, subscriptionVars
<1>4. CASE Look
  <2>1. \/ task'.step = "commit"
        \/ /\ task'.kind = task.kind /\ task'.inv = task.inv
           /\ task.kind = "renewal" => panel.note # task.inv
    BY <1>1, <1>4, LookMoves
  <2> QED BY <1>1, <1>4, <2>1, NotesQuiet DEF Look
<1>5. CASE Read
  <2>1. task'.kind = task.kind /\ task'.inv = task.inv /\ task.step = "read"
    BY <1>1, <1>5, ReadMoves DEF Read
  <2> QED BY <1>1, <1>5, <2>1, NotesQuiet DEF Read
<1>6. CASE Write
  BY <1>1, <1>6, WriteMoves, NotesWrite DEF Write
<1>7. CASE WriteIsRepeated
  BY <1>1, <1>7, ResendMoves, NotesWrite DEF WriteIsRepeated
<1>8. CASE WriteIsGivenUp
  BY <1>1, <1>8, RestingIsWork, NotesWrite DEF WriteIsGivenUp
<1>9. CASE TaskFails \/ CommitIsLost \/ Commit
  <2>1. task'.step \notin {"read", "write"}
    BY <1>9, RestingIsWork DEF TaskFails, CommitIsLost, Commit
  <2> QED BY <1>1, <1>9, <2>1, NotesQuiet DEF TaskFails, CommitIsLost, Commit
<1>10. ASSUME NEW k \in ConsolePages, StartPage(k) PROVE NotesInv'
  BY <1>1, <1>10, NotesQuiet DEF StartPage
<1>11. CASE PageReads \/ PageSaves
  BY <1>1, <1>11, NotesQuiet DEF PageReads, PageSaves
<1>12. ASSUME PageTakesEffect PROVE NotesInv'
  <2>1. PICK user \in UserRecords : Put(user)
    BY <1>1, <1>12, PageTypes
  <2> QED BY <1>1, <1>12, <2>1, NotesQuiet DEF PageTakesEffect
<1>13. CASE PageWrites \/ PageFails
  <2>1. CASE PageTakesEffect
    BY <1>12, <2>1
  <2>2. CASE UNCHANGED <<panel, row, consumed, task, job, month, history>>
    BY <1>1, <2>2, NotesQuiet
  <2> QED BY <1>13, <2>1, <2>2 DEF PageWrites, PageFails
<1>14. ASSUME NEW i \in Renewals, StartRenewal(i) PROVE NotesInv'
  BY <1>2, <1>14 DEF StartRenewal, Invoices
<1>15. ASSUME NEW i \in Topups, StartTopup(i) PROVE NotesInv'
  BY <1>2, <1>15 DEF StartTopup, Invoices
<1>16. CASE StartMonthlyReset
  BY <1>2, <1>16 DEF StartMonthlyReset
<1>17. CASE Operate
  BY <1>3, <1>4, <1>5, <1>6, <1>7, <1>8, <1>9, <1>14, <1>15, <1>16, <1>17 DEF Operate
<1>18. CASE Administer
  BY <1>10, <1>11, <1>13, <1>18 DEF Administer
<1> QED BY <1>3, <1>17, <1>18 DEF SubscriptionNext

\* The panel is extended twice for one invoice only when the note that names it was
\* overwritten in between, whichever requests and commits were lost and whichever
\* page or job writes beside the operation (_apply_tariff_invoice).
THEOREM RepeatedOnlyWhenForgotten == SubscriptionSpec => []RepeatedOnlyIfForgotten
<1>1. NotesInv => RepeatedOnlyIfForgotten
  BY DEF NotesInv
<1> QED BY <1>1, NotesStart, NotesSteps, PTL DEF SubscriptionSpec

\* What a write without a misreading puts to the panel is what a reading of this moment
\* would have put there.
LEMMA FreshTask ==
  ASSUME SubBase, WriteTakesEffect, ~misread'
  PROVE /\ ~misread
        /\ task.kind = "topup" => panel'.note = panel.note
        /\ task.kind = "topup" /\ task.step = "write" =>
             panel'.limit = panel.limit + 1 /\ panel'.on
<1>1. ~misread /\ ~Misreads(task) /\ task.step \in {"write", "resend"}
  BY DEF WriteTakesEffect
<1>2. panel' = NewUser(task) /\ panel \in UserRecords /\ task \in Tasks
  BY WriteTypes DEF SubBase, SubTypes
<1>3. CASE task.step = "resend"
  BY <1>1, <1>2, <1>3, Zenon DEF Misreads
<1>4. CASE task.step = "write" /\ task.kind = "topup"
  <2>1. PICK t : t = [task EXCEPT !.seen = panel, !.copy = panel]
    OBVIOUS
  <2>2. t.kind = task.kind /\ t.seen = panel /\ t.copy = panel
    BY <1>2, <2>1 DEF Tasks, Works
  <2>3. panel' = NewUser(t)
    BY <1>1, <1>2, <1>4, <2>1 DEF Misreads
  <2>4. PICK p \in UserRecords : p = panel
    BY <1>2
  <2>5. panel' = [p EXCEPT !.limit = p.limit + 1, !.on = TRUE]
    BY <1>4, <2>2, <2>3, <2>4, NewUserIs DEF ToppedUp
  <2> QED BY <1>1, <2>4, <2>5 DEF UserRecords
<1> QED BY <1>1, <1>3, <1>4

LEMMA FreshPage ==
  ASSUME SubBase, PageTakesEffect, ~misread'
  PROVE /\ ~misread
        /\ page.kind = "disable" => panel' = [panel EXCEPT !.on = FALSE]
        /\ page.kind = "enable" => panel' = [panel EXCEPT !.on = TRUE]
        /\ page.kind = "extend" => panel' = [exp |-> Extended(panel), limit |-> Base,
                                             note |-> "admin_extend", on |-> TRUE]
<1>1. ~misread /\ PageUser(page) = PageUser([page EXCEPT !.copy = panel])
  BY DEF PageTakesEffect
<1>2. panel' = PageUser(page) /\ page \in Pages
  BY PageTypes DEF SubBase, SubTypes
<1>3. PICK q : q = [page EXCEPT !.copy = panel]
  OBVIOUS
<1>4. q.kind = page.kind /\ q.copy = panel
  BY <1>2, <1>3 DEF Pages, Works
<1>5. panel' = PageUser(q)
  BY <1>1, <1>2, <1>3
<1> QED BY <1>1, <1>4, <1>5, PageUserIs

\* What was paid for is in the panel and its months are in the row, from which the
\* monthly reset takes them.  A note in the panel is that of the last renewal put
\* there, so that whoever finds it may count on its month.
Kept ==
  /\ PaidIsAlwaysKept
  /\ row.exp >= granted
  /\ panel.note \in Renewals => panel.exp >= promised
  /\ switchedOff => ~panel.on

\* What the task read is worth what is due, for as long as it holds the row; what it
\* wrote holds what it will say it did.
TaskKeeps ==
  /\ task.step \in {"read", "write", "resend"} =>
       /\ task.seen.exp >= granted /\ task.seen.limit >= Base + bought
       /\ switchedOff => ~task.seen.on
  /\ task.step \in {"write", "resend"} =>
       /\ task.copy.exp >= granted
       /\ task.kind = "topup" /\ task.copy.note \in Renewals => task.copy.exp >= promised
  /\ task.step = "commit" =>
       /\ task.kind = "renewal" => task.copy.note = task.inv /\ task.copy.exp >= promised
       /\ task.kind = "topup" => task.copy.limit > Base + bought

\* What a page put to the panel, if nobody has put something else there since.
PageKeeps ==
  page.step = "save" =>
    /\ page.kind = "disable" => ~page.copy.on
    /\ page.kind = "enable" => page.copy.on
    /\ page.kind = "extend" =>
         /\ page.copy.on /\ page.copy.note = "admin_extend"
         /\ panel.note = "admin_extend" => page.copy.exp > Later(granted, month)

KeptInv == SubBase /\ (misread \/ (Kept /\ TaskKeeps /\ PageKeeps))

LEMMA KeptStarts == SubscriptionInit => KeptInv
<1> SUFFICES ASSUME SubscriptionInit PROVE KeptInv
  OBVIOUS
<1>1. task.step = None /\ page.step = None /\ task.kind = None /\ page.kind = None
  BY RestingIsWork DEF SubscriptionInit
<1>2. Kept
  BY SubscriptionAssumption DEF SubscriptionInit, Kept, PaidIsAlwaysKept
<1>3. TaskKeeps /\ PageKeeps
  BY <1>1 DEF TaskKeeps, PageKeeps, None
<1> QED BY <1>2, <1>3, SubBaseStarts DEF KeptInv

\* Somebody begins, reads or gives up, and nothing is written.
LEMMA KeptQuiet ==
  ASSUME KeptInv, SubBase', UNCHANGED <<panel, row, granted, promised, bought, switchedOff, misread>>,
         TaskKeeps /\ Kept => TaskKeeps',
         \/ page' = page /\ month' = month
         \/ page'.step # "save"
  PROVE KeptInv'
<1>1. CASE misread
  BY <1>1 DEF KeptInv
<1>2. CASE Kept /\ TaskKeeps /\ PageKeeps
  <2>1. Kept'
    BY <1>2 DEF Kept, PaidIsAlwaysKept
  <2>2. PageKeeps'
    BY <1>2 DEF PageKeeps, Later
  <2> QED BY <1>2, <2>1, <2>2 DEF KeptInv
<1> QED BY <1>1, <1>2 DEF KeptInv

\* The task ends, and leaves the panel as it is.
LEMMA KeptEnding ==
  ASSUME KeptInv, SubBase', task' = Resting,
         UNCHANGED <<panel, page, month, switchedOff, promised>>,
         misread => misread',
         \/ misread'
         \/ /\ row'.exp >= granted' /\ panel.exp >= granted' /\ panel.limit >= Base + bought'
            /\ granted' = granted \/ panel.note # "admin_extend"
  PROVE KeptInv'
<1>1. CASE misread'
  BY <1>1 DEF KeptInv
<1>2. CASE ~misread'
  <2>1. Kept /\ PageKeeps
    BY <1>2 DEF KeptInv
  <2>2. Kept'
    BY <1>2, <2>1 DEF Kept, PaidIsAlwaysKept
  <2>3. TaskKeeps'
    BY RestingIsWork DEF TaskKeeps, None
  <2>4. PageKeeps'
    BY <1>2, <2>1 DEF PageKeeps, Later
  <2> QED BY <2>2, <2>3, <2>4 DEF KeptInv
<1> QED BY <1>1, <1>2

\* The PUT of a task.
LEMMA KeptWrite ==
  ASSUME KeptInv, WriteTakesEffect, ~misread'
  PROVE /\ Kept /\ TaskKeeps /\ PageKeeps
        /\ Kept'
        /\ task.seen.limit >= Base + bought' /\ (switchedOff' => ~task.seen.on)
        /\ task.kind = "topup" /\ task.copy.note \in Renewals => task.copy.exp >= promised'
        /\ task.kind = "renewal" => panel'.note = task.inv /\ panel'.exp >= promised'
        /\ task.kind = "topup" => panel'.limit > Base + bought'
        /\ panel'.note = "admin_extend" => panel.note = "admin_extend"
<1> USE SubscriptionAssumption
<1>1. SubBase /\ task.step \in {"write", "resend"} /\ row' = row /\ granted' = granted
  BY DEF KeptInv, WriteTakesEffect
<1>2. /\ task.kind \in {"renewal", "topup", "reset"} /\ panel' = NewUser(task)
      /\ panel' \in UserRecords
  BY <1>1, WriteTypes
<1>0. Kept /\ TaskKeeps /\ PageKeeps
  BY <1>1, FreshTask DEF KeptInv
<1>3. /\ task.seen.exp >= granted /\ task.seen.limit >= Base + bought
      /\ switchedOff => ~task.seen.on
      /\ task.copy.exp >= granted
      /\ task.kind = "topup" /\ task.copy.note \in Renewals => task.copy.exp >= promised
  BY <1>0, <1>1 DEF TaskKeeps
<1>4. PICK c \in UserRecords, s \in UserRecords : c = task.copy /\ s = task.seen
  BY <1>1 DEF SubBase, SubTypes, Tasks, Works
<1>5. /\ granted \in Nat /\ month \in Nat /\ bought \in Nat /\ promised \in Nat /\ Base \in Nat
      /\ row.exp \in Nat /\ row.exp >= granted
  BY <1>0, <1>1 DEF SubBase, SubTypes, RowRecords, Kept
<1>6. CASE task.kind = "renewal"
  <2>1. panel' = [exp |-> Extended(c), limit |-> Base, note |-> task.inv, on |-> TRUE]
    BY <1>2, <1>4, <1>6, NewUserIs DEF Renewed
  <2>2. promised' = Later(granted, month) + 1 /\ bought' = 0 /\ switchedOff' = FALSE
    BY <1>6 DEF WriteTakesEffect
  <2>3. c.exp \in Nat /\ s.limit \in Nat
    BY DEF UserRecords
  <2>4. Extended(c) >= promised' /\ Extended(c) >= granted
    BY <1>3, <1>4, <1>5, <2>2, <2>3 DEF Extended, Later
  <2>5. Kept'
    BY <1>1, <1>5, <2>1, <2>2, <2>4 DEF Kept, PaidIsAlwaysKept
  <2>6. panel'.note = task.inv /\ task.inv # "admin_extend"
    BY <1>1, <1>6, <2>1 DEF SubBase, Labelled
  <2> QED BY <1>0, <1>3, <1>4, <1>5, <1>6, <2>1, <2>2, <2>3, <2>4, <2>5, <2>6
<1>7. CASE task.kind = "topup"
  <2>1. panel' = [c EXCEPT !.limit = s.limit + 1, !.on = TRUE]
    BY <1>2, <1>4, <1>7, NewUserIs DEF ToppedUp
  <2>2. promised' = promised /\ bought' = bought /\ switchedOff' = FALSE
    BY <1>7 DEF WriteTakesEffect
  <2>3. /\ panel'.exp = c.exp /\ panel'.limit = s.limit + 1 /\ panel'.note = c.note
        /\ s.limit \in Nat /\ c.exp \in Nat
    BY <2>1 DEF UserRecords
  <2>4. Kept'
    BY <1>1, <1>3, <1>4, <1>5, <1>7, <2>2, <2>3 DEF Kept, PaidIsAlwaysKept
  <2>5. panel'.note = panel.note
    BY <1>1, <1>7, FreshTask
  <2> QED BY <1>0, <1>3, <1>4, <1>5, <1>7, <2>2, <2>3, <2>4, <2>5
<1>8. CASE task.kind = "reset"
  <2>1. panel' = [exp |-> row.exp, limit |-> Base, note |-> "tariff_code", on |-> s.on]
    BY <1>2, <1>4, <1>8, NewUserIs DEF Monthly
  <2>2. promised' = promised /\ bought' = 0 /\ switchedOff' = switchedOff
    BY <1>1, <1>8 DEF WriteTakesEffect, SubBase, SubTypes
  <2>3. "tariff_code" \notin Renewals /\ s.limit \in Nat
    BY DEF UserRecords
  <2>4. Kept'
    BY <1>1, <1>3, <1>4, <1>5, <2>1, <2>2, <2>3 DEF Kept, PaidIsAlwaysKept
  <2>5. panel'.note = "tariff_code" /\ "tariff_code" # "admin_extend"
    BY <2>1
  <2> QED BY <1>0, <1>3, <1>4, <1>5, <1>8, <2>2, <2>3, <2>4, <2>5
<1> QED BY <1>2, <1>6, <1>7, <1>8

\* The PUT of a page.
LEMMA KeptPage ==
  ASSUME KeptInv, PageTakesEffect, ~misread'
  PROVE /\ Kept' /\ TaskKeeps'
        /\ page.kind = "disable" => ~panel'.on
        /\ page.kind = "enable" => panel'.on
        /\ page.kind = "extend" =>
             panel'.on /\ panel'.note = "admin_extend" /\ panel'.exp > Later(granted, month)
<1> USE SubscriptionAssumption
<1>1. /\ SubBase /\ page.step = "write"
      /\ UNCHANGED <<row, task, month, granted, promised>>
  BY DEF KeptInv, PageTakesEffect
<1>2. page.kind \in {"disable", "enable", "extend"} /\ panel' \in UserRecords
  BY <1>1, PageTypes DEF AllPages
<1>0. Kept /\ TaskKeeps
  BY <1>1, FreshPage DEF KeptInv
<1>3. PICK c \in UserRecords : c = panel
  BY <1>1 DEF SubBase, SubTypes
<1>4. /\ granted \in Nat /\ month \in Nat /\ bought \in Nat /\ promised \in Nat /\ Base \in Nat
      /\ row.exp \in Nat /\ row.exp >= granted
      /\ c.exp >= granted /\ c.limit >= Base + bought
      /\ c.note \in Renewals => c.exp >= promised
      /\ switchedOff => ~c.on
  BY <1>0, <1>1, <1>3 DEF SubBase, SubTypes, RowRecords, Kept, PaidIsAlwaysKept
<1>5. c.exp \in Nat /\ c.limit \in Nat
  BY DEF UserRecords
<1>9. TaskKeeps'
  <2>0. bought' = (IF page.kind = "extend" THEN 0 ELSE bought)
        /\ switchedOff' = (switchedOff /\ page.kind = "disable")
    BY DEF PageTakesEffect
  <2>1. bought' <= bought /\ bought' \in Nat
    BY <1>4, <2>0
  <2>3. switchedOff' => switchedOff
    BY <2>0
  <2>2. task.seen.limit \in Nat /\ task.copy.limit \in Nat
    BY <1>1 DEF SubBase, SubTypes, Tasks, Works, UserRecords
  <2> QED BY <1>0, <1>1, <1>4, <2>1, <2>2, <2>3 DEF TaskKeeps
<1>6. CASE page.kind \in {"disable", "enable"}
  <2>1. PICK b \in BOOLEAN : b = IF page.kind = "enable" THEN TRUE ELSE FALSE
    OBVIOUS
  <2>2. panel' = [c EXCEPT !.on = b]
    <3>1. CASE page.kind = "disable"
      <4>1. panel' = [c EXCEPT !.on = FALSE] /\ b = FALSE
        BY <1>1, <1>3, <2>1, <3>1, FreshPage
      <4> QED BY <4>1, Zenon
    <3>2. CASE page.kind = "enable"
      <4>1. panel' = [c EXCEPT !.on = TRUE] /\ b = TRUE
        BY <1>1, <1>3, <2>1, <3>2, FreshPage
      <4> QED BY <4>1, Zenon
    <3> QED BY <1>6, <3>1, <3>2
  <2>3. panel'.exp = c.exp /\ panel'.limit = c.limit /\ panel'.note = c.note /\ panel'.on = b
    BY <2>2 DEF UserRecords
  <2>4. bought' = bought /\ (switchedOff' => ~b)
    BY <1>6, <2>1 DEF PageTakesEffect
  <2>5. Kept'
    BY <1>1, <1>4, <1>5, <2>3, <2>4 DEF Kept, PaidIsAlwaysKept
  <2> QED BY <1>6, <1>9, <2>1, <2>3, <2>5
<1>7. CASE page.kind = "extend"
  <2>1. panel' = [exp |-> Extended(c), limit |-> Base, note |-> "admin_extend", on |-> TRUE]
    BY <1>1, <1>3, <1>7, FreshPage
  <2>2. bought' = 0 /\ switchedOff' = FALSE
    BY <1>7 DEF PageTakesEffect
  <2>3. "admin_extend" \notin Renewals
    OBVIOUS
  <2>4. Extended(c) > Later(granted, month) /\ Extended(c) >= granted
    BY <1>4, <1>5 DEF Extended, Later
  <2>5. Kept'
    BY <1>1, <1>4, <2>1, <2>2, <2>3, <2>4 DEF Kept, PaidIsAlwaysKept
  <2> QED BY <1>7, <1>9, <2>1, <2>4, <2>5
<1> QED BY <1>2, <1>6, <1>7

LEMMA KeptSteps == KeptInv /\ [SubscriptionNext]_subscriptionVars => KeptInv'
<1> SUFFICES ASSUME KeptInv, [SubscriptionNext]_subscriptionVars PROVE KeptInv'
  OBVIOUS
<1>1. SubBase /\ SubBase'
  BY SubBaseSteps DEF KeptInv
<1> USE DEF history, None
<1>t. /\ granted \in Nat /\ month \in Nat /\ bought \in Nat /\ promised \in Nat
      /\ Base \in Nat /\ panel.exp \in Nat /\ panel.limit \in Nat
  BY <1>1, SubscriptionAssumption DEF SubBase, SubTypes, UserRecords
<1>r. Resting.step = None /\ Resting.kind = None
  BY RestingIsWork
<1>k. ~misread => Kept /\ TaskKeeps /\ PageKeeps
  BY DEF KeptInv
<1>2. ASSUME NEW kind \in {"renewal", "topup", "reset"}, NEW i \in Invoices \cup {None},
             StartWith(kind, i, "look"),
             UNCHANGED <<panel, row, consumed, page, job, month, faults, history>>
      PROVE KeptInv'
  <2>1. task' = Started(kind, i)
    BY <1>2 DEF StartWith, Started
  <2>2. task'.step = "look"
    BY <2>1, StartedIs
  <2>3. TaskKeeps'
    BY <2>2 DEF TaskKeeps
  <2> QED BY <1>1, <1>2, <2>3, KeptQuiet
<1>3. CASE CloseExpiredCycle
  <2>1. row'.exp = row.exp
    BY <1>1, <1>3 DEF CloseExpiredCycle, SubBase, SubTypes, RowRecords
  <2>2. Kept => Kept'
    BY <1>3, <2>1 DEF CloseExpiredCycle, Kept, PaidIsAlwaysKept
  <2>3. (TaskKeeps => TaskKeeps') /\ (PageKeeps => PageKeeps') /\ misread' = misread
    BY <1>3 DEF CloseExpiredCycle, TaskKeeps, PageKeeps, Later
  <2> QED BY <1>1, <1>k, <2>2, <2>3 DEF KeptInv
<1>4. CASE Look
  <2>1. ASSUME Kept PROVE TaskKeeps'
    <3>1. CASE task'.again
      <4>1. task'.step = "commit" /\ task'.copy = panel /\ task'.kind = "renewal"
            /\ panel.note = task'.inv
        BY <1>1, <1>4, <3>1, LookMoves
      <4>2. panel.note \in Renewals
        BY <1>1, <4>1 DEF SubBase, Labelled
      <4> QED BY <1>4, <2>1, <4>1, <4>2 DEF Look, TaskKeeps, Kept
    <3>2. CASE ~task'.again
      <4>1. task'.step = "read" /\ task'.seen = panel
        BY <1>1, <1>4, <3>2, LookMoves
      <4> QED BY <1>4, <2>1, <4>1 DEF Look, TaskKeeps, Kept, PaidIsAlwaysKept
    <3> QED BY <3>1, <3>2
  <2> QED BY <1>1, <1>4, <2>1, KeptQuiet DEF Look
<1>5. CASE Read
  <2>1. TaskKeeps /\ Kept => TaskKeeps'
    BY <1>1, <1>5, ReadMoves DEF Read, TaskKeeps, Kept, PaidIsAlwaysKept
  <2> QED BY <1>1, <1>5, <2>1, KeptQuiet DEF Read
<1>w. ASSUME WriteTakesEffect, ~misread' PROVE PageKeeps'
  <2>1. PageKeeps /\ (panel'.note = "admin_extend" => panel.note = "admin_extend")
    BY <1>w, KeptWrite
  <2> QED BY <1>w, <2>1 DEF WriteTakesEffect, PageKeeps, Later
<1>6. CASE Write
  <2>1. WriteTakesEffect
    BY <1>6 DEF Write
  <2>2. ASSUME ~misread' PROVE TaskKeeps'
    BY <1>1, <1>6, <2>1, <2>2, WriteMoves, KeptWrite DEF TaskKeeps
  <2> QED BY <1>1, <1>w, <2>1, <2>2, KeptWrite DEF KeptInv
<1>7. CASE WriteIsRepeated
  <2>1. WriteTakesEffect
    BY <1>7 DEF WriteIsRepeated
  <2>2. ASSUME ~misread' PROVE TaskKeeps'
    <3>1. granted' = granted /\ task.seen.exp >= granted /\ task.copy.exp >= granted
      BY <2>1, <2>2, KeptWrite DEF WriteTakesEffect, TaskKeeps
    <3> QED BY <1>1, <1>7, <2>1, <2>2, <3>1, ResendMoves, KeptWrite DEF TaskKeeps
  <2> QED BY <1>1, <1>w, <2>1, <2>2, KeptWrite DEF KeptInv
<1>8. CASE WriteIsGivenUp
  <2>1. WriteTakesEffect
    BY <1>8 DEF WriteIsGivenUp
  <2>2. TaskKeeps'
    BY <1>8, <1>r DEF WriteIsGivenUp, TaskKeeps
  <2> QED BY <1>1, <1>w, <2>1, <2>2, KeptWrite DEF KeptInv
<1>9. CASE TaskFails
  <2>1. row'.exp = row.exp \/ (task.step \in {"read", "write"} /\ row'.exp = task.seen.exp)
    BY <1>1, <1>9, RowTypes DEF TaskFails, SubBase, SubTypes, Tasks, Works
  <2>2. ~misread => row'.exp >= granted /\ PaidIsAlwaysKept
    BY <1>k, <2>1 DEF Kept, TaskKeeps
  <2> QED BY <1>1, <1>9, <2>2, KeptEnding DEF TaskFails, PaidIsAlwaysKept
<1>10. CASE CommitIsLost
  <2>1. ~misread => row.exp >= granted /\ PaidIsAlwaysKept
    BY <1>k DEF Kept
  <2> QED BY <1>1, <1>10, <2>1, KeptEnding DEF CommitIsLost, PaidIsAlwaysKept
<1>11. CASE Commit
  <2>0. misread => misread'
    BY <1>11 DEF Commit
  <2>9. ASSUME ~misread'
        PROVE /\ row'.exp >= granted' /\ panel.exp >= granted' /\ panel.limit >= Base + bought'
              /\ granted' = granted \/ panel.note # "admin_extend"
    <3>1. task \in Tasks /\ task.kind \in {"renewal", "topup", "reset"}
      BY <1>1, <1>11 DEF Commit, SubBase, SubTypes, Labelled, Tasks, Works
    <3>2. /\ task.copy = panel /\ Kept
          /\ task.kind = "renewal" => panel.note = task.inv /\ panel.exp >= promised
          /\ task.kind = "topup" => panel.limit > Base + bought
      BY <1>k, <1>11, <2>9 DEF Commit, TaskKeeps
    <3>3. row'.exp = panel.exp
      <4>1. PICK r \in RowRecords : r = Synced(row, task.copy) /\ r.exp = panel.exp
        BY <1>1, <3>2, RowTypes DEF SubBase, SubTypes
      <4>2. RenewedRow(task).exp = r.exp
        BY <4>1 DEF RenewedRow, RowRecords
      <4>3. ToppedUpRow(task).exp = r.exp
        BY <4>1 DEF ToppedUpRow, RowRecords
      <4>4. MonthlyRow(task).exp = r.exp
        BY <4>1 DEF MonthlyRow, RowRecords
      <4> QED BY <1>11, <3>1, <4>1, <4>2, <4>3, <4>4, CommitWrites
    <3>4. panel.exp >= granted'
      BY <1>11, <3>2 DEF Commit, Kept, PaidIsAlwaysKept
    <3>5. panel.limit >= Base + bought'
      BY <1>t, <1>11, <3>2 DEF Commit, Kept, PaidIsAlwaysKept
    <3>6. granted' = granted \/ panel.note # "admin_extend"
      BY <1>1, <1>11, <3>2, SubscriptionAssumption DEF Commit, SubBase, Labelled
    <3> QED BY <3>3, <3>4, <3>5, <3>6
  <2> QED BY <1>1, <1>11, <2>0, <2>9, KeptEnding DEF Commit
<1>12. ASSUME NEW k \in ConsolePages, StartPage(k) PROVE KeptInv'
  <2>1. page' = Opened(k) /\ k \in AllPages
    BY <1>12, SubscriptionAssumption DEF StartPage, Opened
  <2>2. page'.step = "read"
    BY <2>1, OpenedIs
  <2>3. TaskKeeps => TaskKeeps'
    BY <1>12 DEF StartPage, TaskKeeps
  <2> QED BY <1>1, <1>12, <2>2, <2>3, KeptQuiet DEF StartPage
<1>13. CASE PageReads
  <2>1. page'.step = "write" /\ (TaskKeeps => TaskKeeps')
    BY <1>1, <1>13, PageReadMoves DEF PageReads, TaskKeeps
  <2> QED BY <1>1, <1>13, <2>1, KeptQuiet DEF PageReads
<1>15. CASE PageWrites
  <2>1. PageTakesEffect
    BY <1>15 DEF PageWrites
  <2>2. ASSUME ~misread' PROVE PageKeeps'
    BY <1>1, <1>15, <2>1, <2>2, PageWriteMoves, KeptPage DEF PageKeeps, PageTakesEffect, Later
  <2> QED BY <1>1, <2>1, <2>2, KeptPage DEF KeptInv
<1>16. CASE PageFails
  <2>0. PageKeeps' /\ page'.step = None
    BY <1>16, <1>r DEF PageFails, PageKeeps
  <2>1. CASE PageTakesEffect
    BY <1>1, <2>0, <2>1, KeptPage DEF KeptInv
  <2>2. CASE UNCHANGED <<panel, row, consumed, task, job, month, history>>
    <3>1. TaskKeeps => TaskKeeps'
      BY <2>2 DEF TaskKeeps
    <3> QED BY <1>1, <2>0, <2>2, <3>1, KeptQuiet
  <2> QED BY <1>16, <2>1, <2>2 DEF PageFails
<1>17. CASE PageSaves
  <2>0. TaskKeeps' /\ PageKeeps'
    BY <1>17, <1>r DEF PageSaves, PageKeeps, TaskKeeps
  <2>9. ASSUME ~misread' PROVE Kept'
    <3>1. /\ page.copy = panel /\ Kept /\ PageKeeps
          /\ page.kind \in {"disable", "enable", "extend"}
      BY <1>1, <1>k, <1>17, <2>9
         DEF PageSaves, SubBase, SubTypes, Labelled, Pages, Works, AllPages
    <3>2. row'.exp = IF page.kind = "extend" THEN panel.exp ELSE row.exp
      BY <1>1, <1>17, <3>1, PageSaveWrites DEF SubBase, SubTypes, RowRecords
    <3>3. /\ panel' = panel /\ bought' = bought /\ promised' = promised
          /\ granted' = IF page.kind = "extend" THEN Later(granted, month) + 1 ELSE granted
          /\ switchedOff' = (switchedOff \/ page.kind = "disable")
      BY <1>17 DEF PageSaves
    <3>4. page.kind = "extend" => panel.exp >= Later(granted, month) + 1
      BY <1>t, <1>17, <3>1 DEF PageSaves, PageKeeps, Later
    <3>5. page.kind = "disable" => ~panel.on
      BY <1>17, <3>1 DEF PageSaves, PageKeeps
    <3> QED BY <3>1, <3>2, <3>3, <3>4, <3>5 DEF Kept, PaidIsAlwaysKept
  <2> QED BY <1>1, <2>0, <2>9 DEF KeptInv
<1>18. CASE JobReads
  <2>1. TaskKeeps => TaskKeeps'
    BY <1>18 DEF JobReads, TaskKeeps
  <2> QED BY <1>1, <1>18, <2>1, KeptQuiet DEF JobReads
<1>19. CASE JobSyncs
  <2>1. ASSUME ~misread' PROVE Kept'
    <3>1. row' = Synced(row, panel) /\ Kept
      BY <1>k, <1>19, <2>1 DEF JobSyncs
    <3>2. row'.exp = panel.exp
      BY <1>1, <3>1, RowTypes DEF SubBase, SubTypes
    <3> QED BY <1>19, <3>1, <3>2 DEF JobSyncs, Kept, PaidIsAlwaysKept
  <2>2. /\ TaskKeeps => TaskKeeps'
        /\ PageKeeps => PageKeeps'
        /\ misread => misread'
    BY <1>19 DEF JobSyncs, PageKeeps, TaskKeeps, Later
  <2> QED BY <1>1, <1>k, <2>1, <2>2 DEF KeptInv
<1>20. CASE AMonthPasses
  <2>1. page'.step # "save" /\ (TaskKeeps => TaskKeeps')
    BY <1>r, <1>20 DEF AMonthPasses, TaskKeeps
  <2> QED BY <1>1, <1>20, <2>1, KeptQuiet DEF AMonthPasses
<1>21. CASE UNCHANGED subscriptionVars
  <2>1. TaskKeeps => TaskKeeps'
    BY <1>21 DEF subscriptionVars, TaskKeeps
  <2> QED BY <1>1, <1>21, <2>1, KeptQuiet DEF subscriptionVars
<1>22. ASSUME NEW i \in Renewals, StartRenewal(i) PROVE KeptInv'
  BY <1>2, <1>22 DEF StartRenewal, Invoices
<1>23. ASSUME NEW i \in Topups, StartTopup(i) PROVE KeptInv'
  BY <1>2, <1>23 DEF StartTopup, Invoices
<1>24. CASE StartMonthlyReset
  BY <1>2, <1>24 DEF StartMonthlyReset
<1>25. CASE Operate
  BY <1>3, <1>4, <1>5, <1>6, <1>7, <1>8, <1>9, <1>10, <1>11, <1>22, <1>23, <1>24, <1>25
     DEF Operate
<1>26. CASE Administer
  BY <1>12, <1>13, <1>15, <1>16, <1>17, <1>26 DEF Administer
<1> QED BY <1>18, <1>19, <1>20, <1>21, <1>25, <1>26 DEF SubscriptionNext

\* What was paid for is in the panel, months and traffic, through every loss and
\* repetition of requests and commits and with pages, jobs and operations side by
\* side, until one of them writes back a reading that another has made outdated
\* (renew_subscription, topup_traffic, process_monthly_reset, modify_user).
THEOREM WhatIsPaidIsKept == SubscriptionSpec => []PaidIsKept
<1>1. KeptInv => PaidIsKept
  BY DEF KeptInv, Kept, PaidIsKept
<1> QED BY <1>1, KeptStarts, KeptSteps, PTL DEF SubscriptionSpec

\* The traffic of the panel is that of the tariff and what was bought on top of it,
\* as the row counts it and with what is about to be counted; an extension by the
\* console may have lowered it.
Limits(p, r, more) ==
  /\ p.limit <= Base + r.extra + more
  /\ p.note # "admin_extend" => p.limit = Base + r.extra + more
Follows(p, r) ==
  /\ Limits(p, r, 0)
  /\ p.limit <= r.limit
  /\ p.note # "admin_extend" => p.limit = r.limit
Shown(p, r) == r.exp > month => r.active = p.on
\* Without faults a note in the panel is that of a consumed invoice.
Known(p) == p.note \in Renewals => p.note \in consumed
\* A page has extended the panel's user and has yet to tell the row.
Extending == page.step = "save" /\ page.kind = "extend" /\ panel.note = "admin_extend"

\* What the task put to the panel is what its commit will write.
TaskAgrees ==
  /\ task.step # "resend"
  /\ task.step \in {"read", "write"} => ~task.again
  /\ task.step = "commit" =>
       /\ task.kind = "renewal" => /\ ~task.again /\ task.copy.limit = Base
                                   /\ task.copy.on /\ task.copy.note = task.inv
       /\ task.kind = "topup" => task.copy.on /\ Limits(task.copy, row, 1) /\ Known(task.copy)
       /\ task.kind = "reset" => task.copy.limit = Base /\ Known(task.copy)

\* Without faults the row follows the panel except between a PUT and its commit, and
\* between what a page put and what it saves.
Level == /\ Follows(panel, row) /\ Known(panel)
         /\ row.exp = panel.exp \/ Extending
         /\ page.step # "save" => Shown(panel, row)
Agreed == TaskAgrees /\ (task.step # "commit" => Level)
Unconsumed == task.kind = "renewal" => task.inv \notin consumed

AgreeInv == KeptInv /\ Unconsumed /\ (faults = 0 => misread \/ Agreed)

LEMMA AgreeStarts == SubscriptionInit => AgreeInv
<1> SUFFICES ASSUME SubscriptionInit PROVE AgreeInv
  OBVIOUS
<1>1. task.step = None /\ page.step = None /\ task.kind = None
  BY RestingIsWork DEF SubscriptionInit
<1>2. "tariff_code" \notin Renewals /\ Base \in Nat
  BY SubscriptionAssumption
<1>3. Follows(panel, row) /\ Known(panel) /\ Shown(panel, row) /\ row.exp = panel.exp
  BY <1>2 DEF SubscriptionInit, Follows, Known, Shown, Limits
<1> QED BY <1>1, <1>3, KeptStarts
        DEF AgreeInv, Agreed, Level, Unconsumed, TaskAgrees, None

\* A step that leaves the rows alone, and whatever the task has in hand in order.
LEMMA AgreeQuiet ==
  ASSUME AgreeInv, KeptInv', Unconsumed',
         UNCHANGED <<panel, row, consumed, month, faults, misread>>,
         task.step # "commit",
         page' = page \/ (page.step # "save" /\ page'.step # "save"),
         faults = 0 /\ Agreed => TaskAgrees'
  PROVE AgreeInv'
<1>1. Level => Level'
  BY DEF Level, Extending, Follows, Limits, Known, Shown
<1> QED BY <1>1 DEF AgreeInv, Agreed

\* ... or that only a page takes.
LEMMA AgreePage ==
  ASSUME AgreeInv, KeptInv',
         UNCHANGED <<panel, row, consumed, task, month, faults, misread>>,
         page' = page \/ (page.step # "save" /\ page'.step # "save")
  PROVE AgreeInv'
<1>1. (Level => Level') /\ (TaskAgrees => TaskAgrees') /\ Unconsumed'
  BY DEF AgreeInv, Level, Extending, Follows, Limits, Known, Shown, TaskAgrees, Unconsumed
<1> QED BY <1>1 DEF AgreeInv, Agreed

\* The faults are counted, and after one nothing is claimed.
LEMMA AgreeFaulty ==
  ASSUME AgreeInv, KeptInv', Fault, consumed' = consumed,
         task' = Resting \/ (task'.kind = task.kind /\ task'.inv = task.inv)
  PROVE AgreeInv'
<1>1. faults' # 0
  BY DEF Fault, AgreeInv, KeptInv, SubBase, SubTypes
<1>2. Unconsumed'
  BY RestingIsWork DEF AgreeInv, Unconsumed, None
<1> QED BY <1>1, <1>2 DEF AgreeInv

\* The PUT of a task that does what it set out to do.
LEMMA AgreeWrite ==
  ASSUME AgreeInv, KeptInv', Write PROVE AgreeInv'
<1> USE SubscriptionAssumption DEF None
<1>1. SubBase /\ WriteTakesEffect /\ KeptInv
  BY DEF AgreeInv, KeptInv, Write
<1>2. /\ task.kind \in {"renewal", "topup", "reset"} /\ panel' = NewUser(task)
      /\ task'.step = "commit" /\ task'.kind = task.kind /\ task'.inv = task.inv
      /\ task'.again = task.again /\ task'.copy = panel'
      /\ row' = row /\ consumed' = consumed /\ faults' = faults
  BY <1>1, WriteTypes, WriteMoves DEF Write, WriteTakesEffect
<1>4. Unconsumed'
  BY <1>2 DEF AgreeInv, Unconsumed
<1>5. ASSUME faults = 0, ~misread' PROVE TaskAgrees'
  <2>1. Agreed
    BY <1>1, <1>5, FreshTask DEF AgreeInv
  <2>2. task.step = "write" /\ ~task.again
    BY <1>1, <2>1 DEF WriteTakesEffect, Agreed, TaskAgrees
  <2>3. Limits(panel, row, 0) /\ Known(panel)
    BY <2>1, <2>2 DEF Agreed, Level, Follows
  <2>4. panel \in UserRecords
    BY <1>1 DEF SubBase, SubTypes
  <2>5. panel.limit \in Nat /\ row.extra \in Nat /\ Base \in Nat
    BY <1>1, <2>4 DEF UserRecords, SubBase, SubTypes, RowRecords
  <2>6. CASE task.kind = "renewal"
    <3>1. panel'.limit = Base /\ panel'.on /\ panel'.note = task.inv
      BY <1>2, <2>6, NewUserIs DEF Renewed
    <3> QED BY <1>2, <2>2, <2>6, <3>1 DEF TaskAgrees
  <2>7. CASE task.kind = "topup"
    <3>2. panel'.limit = panel.limit + 1 /\ panel'.on /\ panel'.note = panel.note
      BY <1>1, <1>5, <2>2, <2>7, FreshTask
    <3>3. Limits(task'.copy, row', 1) /\ Known(task.copy)'
      BY <1>2, <2>3, <2>5, <3>2 DEF Limits, Known
    <3> QED BY <1>2, <2>7, <3>2, <3>3 DEF TaskAgrees, Limits
  <2>8. CASE task.kind = "reset"
    <3>1. panel'.limit = Base /\ panel'.note = "tariff_code"
      BY <1>2, <2>8, NewUserIs DEF Monthly
    <3>2. Known(task.copy)'
      BY <1>2, <3>1 DEF Known
    <3> QED BY <1>2, <2>8, <3>1, <3>2 DEF TaskAgrees
  <2> QED BY <1>2, <2>6, <2>7, <2>8
<1> QED BY <1>2, <1>4, <1>5 DEF AgreeInv, Agreed

\* The commit of a task writes what its PUT put into the panel.
LEMMA AgreeCommit ==
  ASSUME AgreeInv, KeptInv', Commit PROVE AgreeInv'
<1> USE SubscriptionAssumption, RestingIsWork DEF None
<1>1. SubBase /\ KeptInv
  BY DEF AgreeInv, KeptInv
<1>2. /\ task \in Tasks /\ task.kind \in {"renewal", "topup", "reset"} /\ task.step = "commit"
      /\ task' = Resting /\ panel' = panel /\ month' = month /\ faults' = faults
      /\ misread' = (misread \/ task.copy # panel)
  BY <1>1 DEF Commit, SubBase, SubTypes, Labelled, Tasks, Works
<1>4. Unconsumed'
  BY <1>2 DEF Unconsumed
<1>6. TaskAgrees'
  BY <1>2 DEF TaskAgrees
<1>5. ASSUME faults = 0, ~misread'
      PROVE Follows(panel, row)' /\ Known(panel)' /\ Shown(panel, row)' /\ row'.exp = panel'.exp
  <2>0. task.copy = panel
    BY <1>2, <1>5
  <2>1. TaskAgrees
    BY <1>2, <1>5 DEF AgreeInv, Agreed
  <2>2. panel \in UserRecords
    BY <1>1 DEF SubBase, SubTypes
  <2>3. PICK r \in RowRecords :
          /\ r = Synced(row, task.copy)
          /\ r.exp = panel.exp /\ r.limit = panel.limit /\ r.extra = row.extra
          /\ r.active = (panel.on /\ panel.exp > month)
    BY <1>1, <2>0, <2>2, RowTypes
  <2>8. panel.exp > month => r.active = panel.on
    BY <2>2, <2>3 DEF UserRecords
  <2>4. Base \in Nat /\ row.extra \in Nat /\ panel.limit \in Nat /\ consumed \subseteq consumed'
    BY <1>1, <1>2, <2>2 DEF SubBase, SubTypes, RowRecords, UserRecords, Commit
  <2>5. CASE task.kind = "renewal"
    <3>1. ~task.again /\ panel.limit = Base /\ panel.on /\ panel.note = task.inv
      BY <1>2, <2>0, <2>1, <2>5 DEF TaskAgrees
    <3>2. row' = [r EXCEPT !.active = TRUE, !.limit = Base, !.extra = 0, !.due = month + 1]
      BY <1>2, <2>3, <2>5, <3>1, CommitWrites DEF RenewedRow
    <3>3. row'.exp = panel.exp /\ row'.limit = Base /\ row'.extra = 0 /\ row'.active = TRUE
      BY <2>3, <3>2 DEF RowRecords
    <3>4. task.inv \in consumed'
      BY <2>5 DEF Commit
    <3>6. panel.on = TRUE
      BY <2>2, <3>1 DEF UserRecords
    <3>7. Follows(panel, row)'
      BY <1>2, <2>4, <3>1, <3>3 DEF Follows, Limits
    <3>8. Known(panel)'
      BY <1>2, <3>1, <3>4 DEF Known
    <3>9. Shown(panel, row)'
      BY <1>2, <3>3, <3>6 DEF Shown
    <3> QED BY <1>2, <3>3, <3>7, <3>8, <3>9
  <2>6. CASE task.kind = "topup"
    <3>1. panel.on /\ Limits(panel, row, 1) /\ Known(panel)
      BY <1>2, <2>0, <2>1, <2>6 DEF TaskAgrees
    <3>2. /\ row'.exp = panel.exp /\ row'.limit = Base + row.extra + 1
          /\ row'.extra = row.extra + 1 /\ row'.active = r.active
      <4>1. row' = ToppedUpRow(task)
        BY <1>2, <2>6, CommitWrites
      <4> QED BY <2>3, <4>1 DEF ToppedUpRow, RowRecords
    <3>7. Follows(panel, row)'
      BY <1>2, <2>3, <2>4, <3>1, <3>2 DEF Follows, Limits
    <3>8. Known(panel)'
      BY <1>2, <2>4, <3>1 DEF Known
    <3>9. Shown(panel, row)'
      BY <1>2, <2>8, <3>2 DEF Shown
    <3> QED BY <1>2, <3>2, <3>7, <3>8, <3>9
  <2>7. CASE task.kind = "reset"
    <3>1. panel.limit = Base /\ Known(panel)
      BY <1>2, <2>0, <2>1, <2>7 DEF TaskAgrees
    <3>2. row' = [r EXCEPT !.extra = 0, !.limit = Base, !.due = month + 1]
      BY <1>2, <2>3, <2>7, CommitWrites DEF MonthlyRow
    <3>3. row'.exp = panel.exp /\ row'.limit = Base /\ row'.extra = 0 /\ row'.active = r.active
      BY <2>3, <3>2 DEF RowRecords
    <3>7. Follows(panel, row)'
      BY <1>2, <2>4, <3>1, <3>3 DEF Follows, Limits
    <3>8. Known(panel)'
      BY <1>2, <2>4, <3>1 DEF Known
    <3>9. Shown(panel, row)'
      BY <1>2, <2>8, <3>3 DEF Shown
    <3> QED BY <1>2, <3>3, <3>7, <3>8, <3>9
  <2> QED BY <1>2, <2>5, <2>6, <2>7
<1>7. faults = 0 /\ ~misread' => Level'
  BY <1>2, <1>5 DEF Level
<1> QED BY <1>2, <1>4, <1>6, <1>7 DEF AgreeInv, Agreed

\* A page that does what it set out to do.
LEMMA AgreePageWrites ==
  ASSUME AgreeInv, KeptInv', PageWrites PROVE AgreeInv'
<1> USE SubscriptionAssumption DEF None
<1>1. SubBase /\ KeptInv /\ PageTakesEffect
  BY DEF AgreeInv, KeptInv, PageWrites
<1>2. /\ page.kind \in {"disable", "enable", "extend"}
      /\ page'.step = "save" /\ page'.kind = page.kind
      /\ task' = task /\ row' = row /\ consumed' = consumed /\ faults' = faults
  BY <1>1, PageTypes, PageWriteMoves DEF PageWrites, PageTakesEffect, AllPages
<1>3. Unconsumed' /\ (TaskAgrees => TaskAgrees')
  BY <1>2 DEF AgreeInv, Unconsumed, TaskAgrees, Limits, Known
<1>5. ASSUME ~misread', Level PROVE Level'
  <2>1. Follows(panel, row) /\ Known(panel) /\ (row.exp = panel.exp \/ Extending)
    BY <1>5 DEF Level
  <2>0. page.step = "write"
    BY <1>1 DEF PageTakesEffect
  <2>2. PICK p \in UserRecords : p = panel
    BY <1>1 DEF SubBase, SubTypes
  <2>4. CASE page.kind \in {"disable", "enable"}
    <3>1. panel' = [p EXCEPT !.on = FALSE] \/ panel' = [p EXCEPT !.on = TRUE]
      BY <1>1, <1>5, <2>2, <2>4, FreshPage
    <3>2. panel'.exp = p.exp /\ panel'.limit = p.limit /\ panel'.note = p.note
      BY <3>1 DEF UserRecords
    <3>3. Follows(panel, row)' /\ Known(panel)'
      BY <1>2, <2>1, <2>2, <3>2 DEF Follows, Limits, Known
    <3>4. row'.exp = panel'.exp
      BY <1>2, <2>0, <2>1, <2>2, <3>2 DEF Extending
    <3> QED BY <1>2, <3>3, <3>4 DEF Level
  <2>5. CASE page.kind = "extend"
    <3>1. panel'.limit = Base /\ panel'.note = "admin_extend"
      BY <1>1, <1>5, <2>5, FreshPage
    <3>2. row.limit >= p.limit /\ p.limit >= Base + bought
      BY <1>1, <1>5, <2>1, <2>2, FreshPage DEF Follows, KeptInv, Kept, PaidIsAlwaysKept
    <3>3. /\ row.limit \in Nat /\ p.limit \in Nat /\ bought \in Nat /\ Base \in Nat
          /\ row.extra \in Nat
      BY <1>1 DEF SubBase, SubTypes, RowRecords, UserRecords
    <3>4. row'.limit >= Base /\ Known(panel)' /\ Follows(panel, row)'
      BY <1>2, <3>1, <3>2, <3>3 DEF Known, Follows, Limits
    <3>5. Extending'
      BY <1>2, <2>5, <3>1 DEF Extending
    <3> QED BY <1>2, <3>4, <3>5 DEF Level
  <2> QED BY <1>2, <2>4, <2>5
<1>6. misread => misread'
  BY <1>1 DEF PageTakesEffect
<1> QED BY <1>2, <1>3, <1>5, <1>6 DEF AgreeInv, Agreed

LEMMA AgreePageSaves ==
  ASSUME AgreeInv, KeptInv', PageSaves PROVE AgreeInv'
<1> USE SubscriptionAssumption, RestingIsWork DEF None
<1>1. SubBase /\ KeptInv
  BY DEF AgreeInv, KeptInv
<1>2. /\ page.kind \in {"disable", "enable", "extend"} /\ page.step = "save"
      /\ page' = Resting /\ task = Resting
      /\ misread' = (misread \/ page.copy # panel)
      /\ UNCHANGED <<panel, consumed, task, month, faults>>
  BY <1>1 DEF PageSaves, SubBase, SubTypes, Labelled, Pages, Works, AllPages
<1>3. Unconsumed' /\ TaskAgrees'
  BY <1>2 DEF Unconsumed, TaskAgrees
<1>4. ASSUME faults = 0, ~misread'
      PROVE Follows(panel, row)' /\ Known(panel)' /\ Shown(panel, row)' /\ row'.exp = panel'.exp
  <2>1. page.copy = panel /\ Level
    BY <1>2, <1>4 DEF AgreeInv, Agreed
  <2>0. /\ page.kind = "disable" => ~panel.on
        /\ page.kind = "enable" => panel.on
        /\ page.kind = "extend" => panel.on
    BY <1>1, <1>2, <1>4, <2>1 DEF KeptInv, PageKeeps
  <2>2. PICK r \in RowRecords : r = row
    BY <1>1 DEF SubBase, SubTypes
  <2>3. /\ panel.on \in BOOLEAN /\ panel.exp \in Nat
        /\ Follows(panel, row) /\ Known(panel)
        /\ page.kind # "extend" => row.exp = panel.exp
    BY <1>1, <2>1 DEF SubBase, SubTypes, UserRecords, Level, Extending
  <2>4. CASE page.kind = "disable"
    <3>1. row' = [r EXCEPT !.active = FALSE]
      BY <2>2, <2>4, PageSaveWrites
    <3>2. /\ row'.exp = r.exp /\ row'.limit = r.limit /\ row'.extra = r.extra
          /\ row'.active = FALSE
      BY <3>1 DEF RowRecords
    <3>3. panel.on = FALSE
      BY <2>0, <2>3, <2>4
    <3> QED BY <1>2, <2>2, <2>3, <2>4, <3>2, <3>3 DEF Follows, Limits, Known, Shown
  <2>5. CASE page.kind = "enable"
    <3>1. row' = [r EXCEPT !.active = TRUE]
      BY <2>2, <2>5, PageSaveWrites
    <3>2. /\ row'.exp = r.exp /\ row'.limit = r.limit /\ row'.extra = r.extra
          /\ row'.active = TRUE
      BY <3>1 DEF RowRecords
    <3>3. panel.on = TRUE
      BY <2>0, <2>3, <2>5
    <3> QED BY <1>2, <2>2, <2>3, <2>5, <3>2, <3>3 DEF Follows, Limits, Known, Shown
  <2>6. CASE page.kind = "extend"
    <3>1. row' = [r EXCEPT !.exp = panel.exp, !.active = TRUE]
      BY <2>1, <2>2, <2>6, PageSaveWrites
    <3>2. /\ row'.exp = panel.exp /\ row'.limit = r.limit /\ row'.extra = r.extra
          /\ row'.active = TRUE
      BY <2>3, <3>1 DEF RowRecords
    <3>3. panel.on = TRUE
      BY <2>0, <2>3, <2>6
    <3> QED BY <1>2, <2>2, <2>3, <3>2, <3>3 DEF Follows, Limits, Known, Shown
  <2> QED BY <1>2, <2>4, <2>5, <2>6
<1>5. faults = 0 /\ ~misread' => Level'
  BY <1>4 DEF Level
<1> QED BY <1>2, <1>3, <1>5 DEF AgreeInv, Agreed

\* The steps that touch the row between the operations.
LEMMA AgreeRow ==
  ASSUME AgreeInv, KeptInv', task = Resting, misread => misread',
         UNCHANGED <<panel, consumed, task, page, faults>>, row' \in RowRecords,
         month' \in Nat, month' >= month,
         \/ misread'
         \/ row' = row /\ page.step # "save"
         \/ row' = Synced(row, panel) /\ month' = month
         \/ /\ row.exp <= month /\ month' = month
            /\ row' = [row EXCEPT !.active = FALSE, !.due = NoCycle]
  PROVE AgreeInv'
<1> USE RestingIsWork DEF None
<1>1. SubBase
  BY DEF AgreeInv, KeptInv
<1>2. Unconsumed' /\ TaskAgrees'
  BY DEF Unconsumed, TaskAgrees
<1>3. ASSUME faults = 0, ~misread' PROVE Level'
  <2>1. Level
    BY <1>3 DEF AgreeInv, Agreed
  <2>2. Known(panel)' /\ (Extending => Extending')
    BY <2>1 DEF Level, Known, Extending
  <2>3. /\ panel \in UserRecords /\ row \in RowRecords /\ month \in Nat
        /\ panel.limit \in Nat /\ panel.exp \in Nat /\ panel.on \in BOOLEAN
    BY <1>1 DEF SubBase, SubTypes, UserRecords
  <2>4. CASE row' = row /\ page.step # "save"
    BY <2>1, <2>2, <2>3, <2>4 DEF Level, Follows, Limits, Shown, RowRecords
  <2>5. CASE row' = Synced(row, panel) /\ month' = month
    <3>1. /\ row'.exp = panel.exp /\ row'.limit = panel.limit /\ row'.extra = row.extra
          /\ row'.active = (panel.on /\ panel.exp > month)
      BY <1>1, <2>3, <2>5, RowTypes
    <3>2. Follows(panel, row)'
      BY <2>1, <2>3, <3>1 DEF Level, Follows, Limits
    <3>3. row'.exp > month => row'.active = panel.on
      BY <2>3, <3>1
    <3> QED BY <2>2, <2>5, <3>1, <3>2, <3>3 DEF Level, Shown
  <2>6. CASE /\ row.exp <= month /\ month' = month
             /\ row' = [row EXCEPT !.active = FALSE, !.due = NoCycle]
    <3>1. row'.exp = row.exp /\ row'.limit = row.limit /\ row'.extra = row.extra
      BY <2>3, <2>6 DEF RowRecords
    <3>2. ~(row'.exp > month)
      BY <2>3, <2>6, <3>1 DEF RowRecords
    <3> QED BY <2>1, <2>2, <2>6, <3>1, <3>2 DEF Level, Follows, Limits, Shown
  <2> QED BY <1>3, <2>4, <2>5, <2>6
<1> QED BY <1>2, <1>3 DEF AgreeInv, Agreed

LEMMA AgreeSteps == AgreeInv /\ [SubscriptionNext]_subscriptionVars => AgreeInv'
<1> SUFFICES ASSUME AgreeInv, [SubscriptionNext]_subscriptionVars PROVE AgreeInv'
  OBVIOUS
<1>1. KeptInv /\ KeptInv' /\ SubBase /\ SubBase' /\ Unconsumed
  BY KeptSteps DEF AgreeInv, KeptInv
<1> USE DEF history, None
<1>r. Resting.step = None /\ Resting.kind = None
  BY RestingIsWork
<1>2. ASSUME NEW kind \in {"renewal", "topup", "reset"}, NEW i \in Invoices \cup {None},
             StartWith(kind, i, "look"), kind = "renewal" => i \notin consumed,
             UNCHANGED <<panel, row, consumed, page, job, month, faults, history>>
      PROVE AgreeInv'
  <2>1. task' = Started(kind, i)
    BY <1>2 DEF StartWith, Started
  <2>2. task'.step = "look" /\ task'.kind = kind /\ task'.inv = i
    BY <2>1, StartedIs
  <2>3. Unconsumed' /\ TaskAgrees'
    BY <1>2, <2>2 DEF Unconsumed, TaskAgrees
  <2>4. task.step # "commit"
    BY <1>2, <1>r DEF StartWith
  <2> QED BY <1>1, <1>2, <2>3, <2>4, AgreeQuiet
<1>3. CASE CloseExpiredCycle
  <2>1. row' \in RowRecords /\ month \in Nat
    BY <1>1, <1>3 DEF CloseExpiredCycle, SubBase, SubTypes
  <2> QED BY <1>1, <1>3, <2>1, AgreeRow DEF CloseExpiredCycle
<1>4. CASE Look
  <2>1. /\ task.step = "look"
        /\ UNCHANGED <<panel, row, consumed, page, month, faults, misread>>
    BY <1>4 DEF Look
  <2>2. Unconsumed'
    BY <1>1, <1>4, <2>1, LookMoves DEF Unconsumed
  <2>3. ASSUME Agreed PROVE TaskAgrees'
    <3>1. Known(panel)
      BY <2>1, <2>3 DEF Agreed, Level
    <3>2. ~task'.again
      BY <1>1, <1>4, <2>1, <3>1, LookMoves DEF Known, Unconsumed, SubBase, Labelled
    <3>3. task'.step = "read"
      BY <1>1, <1>4, <3>2, LookMoves
    <3> QED BY <3>2, <3>3 DEF TaskAgrees
  <2> QED BY <1>1, <2>1, <2>2, <2>3, AgreeQuiet
<1>5. CASE Read
  <2>1. /\ task.step = "read"
        /\ UNCHANGED <<panel, row, consumed, page, month, faults, misread>>
    BY <1>5 DEF Read
  <2>2. Unconsumed'
    BY <1>1, <1>5, <2>1, ReadMoves DEF Unconsumed
  <2>3. Agreed => TaskAgrees'
    BY <1>1, <1>5, <2>1, ReadMoves DEF Agreed, TaskAgrees
  <2> QED BY <1>1, <2>1, <2>2, <2>3, AgreeQuiet
<1>6. CASE Write
  BY <1>1, <1>6, AgreeWrite
<1>7. CASE WriteIsRepeated
  BY <1>1, <1>7, ResendMoves, AgreeFaulty DEF WriteIsRepeated, WriteTakesEffect
<1>8. CASE WriteIsGivenUp \/ TaskFails \/ CommitIsLost
  BY <1>1, <1>8, AgreeFaulty DEF WriteIsGivenUp, WriteTakesEffect, TaskFails, CommitIsLost
<1>9. CASE Commit
  BY <1>1, <1>9, AgreeCommit
<1>10. ASSUME NEW k \in ConsolePages, StartPage(k) PROVE AgreeInv'
  <2>1. page' = Opened(k) /\ k \in AllPages
    BY <1>10, SubscriptionAssumption DEF StartPage, Opened
  <2>2. page'.step = "read" /\ page.step # "save"
    BY <1>10, <1>r, <2>1, OpenedIs DEF StartPage
  <2> QED BY <1>1, <1>10, <2>2, AgreePage DEF StartPage
<1>11. CASE PageReads
  <2>1. page'.step = "write" /\ page.step # "save"
    BY <1>1, <1>11, PageReadMoves DEF PageReads
  <2> QED BY <1>1, <1>11, <2>1, AgreePage DEF PageReads
<1>12. CASE PageWrites
  BY <1>1, <1>12, AgreePageWrites
<1>13. CASE PageFails
  <2>1. Fault /\ task' = task /\ consumed' = consumed
    BY <1>13 DEF PageFails, PageTakesEffect
  <2> QED BY <1>1, <2>1, AgreeFaulty
<1>14. CASE PageSaves
  BY <1>1, <1>14, AgreePageSaves
<1>15. CASE JobReads
  BY <1>1, <1>15, AgreePage DEF JobReads
<1>16. CASE JobSyncs
  <2>1. /\ task = Resting /\ month' = month /\ month \in Nat /\ row' \in RowRecords
        /\ row' = Synced(row, job)
        /\ misread' = (misread \/ Synced(row, job) # Synced(row, panel))
        /\ UNCHANGED <<panel, consumed, task, page, faults>>
    BY <1>1, <1>16 DEF JobSyncs, SubBase, SubTypes
  <2>2. misread' \/ row' = Synced(row, panel)
    BY <2>1
  <2>3. misread => misread'
    BY <2>1, Zenon
  <2>4. month' >= month
    BY <2>1
  <2> QED BY <1>1, <2>1, <2>2, <2>3, <2>4, AgreeRow
<1>17. CASE AMonthPasses
  <2>1. row' \in RowRecords /\ month' \in Nat /\ month' >= month /\ page.step # "save"
    BY <1>1, <1>17, <1>r DEF AMonthPasses, SubBase, SubTypes
  <2> QED BY <1>1, <1>17, <2>1, AgreeRow DEF AMonthPasses
<1>18. CASE UNCHANGED subscriptionVars
  BY <1>1, <1>18, AgreePage DEF subscriptionVars
<1>19. ASSUME NEW i \in Renewals, StartRenewal(i) PROVE AgreeInv'
  BY <1>2, <1>19 DEF StartRenewal, Invoices
<1>20. ASSUME NEW i \in Topups, StartTopup(i) PROVE AgreeInv'
  BY <1>2, <1>20 DEF StartTopup, Invoices
<1>21. CASE StartMonthlyReset
  BY <1>2, <1>21 DEF StartMonthlyReset
<1>22. CASE Operate
  BY <1>3, <1>4, <1>5, <1>6, <1>7, <1>8, <1>9, <1>19, <1>20, <1>21, <1>22 DEF Operate
<1>23. CASE Administer
  BY <1>10, <1>11, <1>12, <1>13, <1>14, <1>23 DEF Administer
<1> QED BY <1>15, <1>16, <1>17, <1>18, <1>22, <1>23 DEF SubscriptionNext

\* Nobody the admin switched off is turned on by the monthly reset or a job, until
\* somebody writes back an outdated reading; and as long as nothing was lost either,
\* whenever nobody is at work the row tells the expiry, the traffic and the state the
\* panel has, however pages, jobs and operations ran side by side.
THEOREM PanelAndRowStayTogether == SubscriptionSpec => []PanelAndRowAgree
<1>1. AgreeInv => PanelAndRowAgree
  <2> SUFFICES ASSUME AgreeInv PROVE PanelAndRowAgree
    OBVIOUS
  <2>1. OffStaysOff
    BY DEF AgreeInv, KeptInv, Kept, OffStaysOff
  <2>2. AtRest => task.step # "commit" /\ page.step # "save"
    BY RestingIsWork DEF AtRest, None
  <2>3. RowFollowsPanel
    BY <2>2 DEF RowFollowsPanel, AgreeInv, Agreed, Level, Extending, Follows, Shown
  <2> QED BY <2>1, <2>3 DEF PanelAndRowAgree
<1> QED BY <1>1, AgreeStarts, AgreeSteps, PTL DEF SubscriptionSpec

-----------------------------------------------------------------------------
(***************************************************************************)
(* The types of the records, side by side.  A code belongs to one promo    *)
(* because every write that could give it another one looks for it under   *)
(* the lock, and a form that leaves a code alone leaves the row's.         *)
(***************************************************************************)

Unused == \A p \in Promos : ~promo[p].exists => promo[p].used = 0
PagesTyped ==
  /\ DOMAIN promoPage = PromoPages
  /\ \A g \in PromoPages : promoPage[g].form \in Settings /\ promoPage[g].copy.set \in Settings

PromoTypes == PromoTypeOK /\ Unused /\ PagesTyped

LEMMA NoSettingsIs == NoSettings \in Settings
<1>1. PICK c \in Codes : TRUE
  BY PromoAssumption
<1>2. [code |-> c, max |-> Unlimited, over |-> FALSE, active |-> FALSE, unlocks |-> FALSE] \in Settings
  BY DEF Settings
<1>3. \E s \in Settings : ~s.active
  BY <1>2
<1> QED
  BY <1>3 DEF NoSettings

LEMMA PromoTypesStart == PromoInit => PromoTypes
<1> SUFFICES ASSUME PromoInit PROVE PromoTypes
  OBVIOUS
<1>1. PICK s \in Settings : s = NoSettings
  BY NoSettingsIs
<1>2. Cardinality(Redeemers) \in Nat
  BY PromoAssumption, FS_CardinalityType
<1>3. NoPromo = [exists |-> FALSE, set |-> s, used |-> 0]
  BY <1>1 DEF NoPromo
<1>4. \A p \in Promos : promo[p].set = s /\ promo[p].used = 0 /\ ~promo[p].exists
  BY <1>3 DEF PromoInit
<1>5. \A g \in PromoPages : promoPage[g].form = s /\ promoPage[g].copy.set = s
  BY <1>1, <1>3 DEF PromoInit, NoPage
<1> QED
  BY <1>2, <1>4, <1>5, PromoAssumption DEF PromoTypes, PromoTypeOK, Unused, PagesTyped, PromoInit, Live

\* The counter stays within the users there are.
LEMMA CounterFits ==
  ASSUME PromoInv, Unused, NEW p \in Promos
  PROVE  promo[p].used \in 0..Cardinality(Redeemers)
<1>1. Cardinality(Redeemers) \in Nat
  BY PromoAssumption, FS_CardinalityType
<1>2. RedeemersOf(p) \subseteq Redeemers
  BY DEF RedeemersOf
<1>3. Cardinality(RedeemersOf(p)) \in Nat /\ Cardinality(RedeemersOf(p)) <= Cardinality(Redeemers)
  BY <1>2, PromoAssumption, FS_Subset, FS_CardinalityType
<1>4. promo[p].exists => promo[p].used = Cardinality(RedeemersOf(p))
  BY DEF PromoInv, UsesAreCounted, Live, RedeemersOf
<1> QED
  BY <1>1, <1>3, <1>4 DEF Unused

CountsFit == \A p \in Promos : promo[p].used \in 0..Cardinality(Redeemers)

LEMMA CountersFit == PromoInv /\ Unused => CountsFit
  BY CounterFits DEF CountsFit

\* A page is opened with a copy of a row, and closed.
LEMMA PageCloses ==
  ASSUME PromoTypes, NEW g \in PromoPages, promoPage' = [promoPage EXCEPT ![g] = NoPage]
  PROVE  PagesTyped'
<1>1. PICK s \in Settings : s = NoSettings
  BY NoSettingsIs
<1>2. NoPage.form = s /\ NoPage.copy.set = s
  BY <1>1 DEF NoPage, NoPromo
<1>3. PICK none : none = NoPage
  OBVIOUS
<1> QED
  BY <1>2, <1>3 DEF PromoTypes, PagesTyped

LEMMA PageOpensTyped ==
  ASSUME PromoTypes, NEW g \in PromoPages, NEW p \in Promos, NEW op, NEW form \in Settings,
         promoPage' = [promoPage EXCEPT ![g] = [op |-> op, id |-> p, copy |-> promo[p], form |-> form]]
  PROVE  PagesTyped'
<1>1. promo[p].set \in Settings
  BY DEF PromoTypes, PromoTypeOK
<1> QED
  BY <1>1 DEF PromoTypes, PagesTyped

\* Codes stay different when one promo gets settings whose code is free or its own.
LEMMA WriteTyped ==
  ASSUME PromoInv, PromoInv', PromoTypes, PagesTyped',
         NEW p \in Promos, NEW new \in Settings, promo' = [promo EXCEPT ![p].set = new],
         CodeIsFree(new.code, p) \/ new.code = promo[p].set.code,
         UNCHANGED <<redemptions, unlocked>>, edits' \in 0..MaxEdits
  PROVE  PromoTypes'
<1>1. /\ promo'[p].set = new /\ promo'[p].exists = promo[p].exists /\ promo'[p].used = promo[p].used
      /\ \A q \in Promos \ {p} : promo'[q] = promo[q]
  BY DEF PromoInv, RowsOK, PromoRow
<1>2. Unused'
  BY <1>1 DEF PromoTypes, Unused
<1>3. \A q \in Promos : promo'[q].set \in Settings
  BY <1>1 DEF PromoTypes, PromoTypeOK
<1>4. ASSUME NEW q \in Live', NEW r \in Live', promo'[q].set.code = promo'[r].set.code
      PROVE  q = r
  <2>1. q \in Live /\ r \in Live
    BY <1>1 DEF Live
  <2> QED
    BY <1>1, <1>4, <2>1 DEF PromoTypes, PromoTypeOK, CodeIsFree, Live
<1>5. \A q \in Promos : promo'[q].used \in 0..Cardinality(Redeemers)
  BY <1>1 DEF PromoTypes, PromoTypeOK
<1> QED
  BY <1>2, <1>3, <1>4, <1>5 DEF PromoTypes, PromoTypeOK, PromoInv, RedemptionsOK

\* The rows stand still.
LEMMA RowsStand ==
  ASSUME PromoTypes, PagesTyped', UNCHANGED <<promo, redemptions, unlocked>>, edits' \in 0..MaxEdits
  PROVE  PromoTypes'
  BY DEF PromoTypes, PromoTypeOK, Unused, Live

LEMMA DeleteTyped ==
  ASSUME PromoInv, PromoTypes, PagesTyped', NEW p \in Promos, DeleteWith(p),
         UNCHANGED <<unlocked, edits>>
  PROVE  PromoTypes'
<1>1. PICK s \in Settings : s = NoSettings
  BY NoSettingsIs
<1>2. NoPromo = [exists |-> FALSE, set |-> s, used |-> 0]
  BY <1>1 DEF NoPromo
<1>3. /\ promo'[p] = NoPromo
      /\ \A q \in Promos \ {p} : promo'[q] = promo[q]
  BY DEF DeleteWith, PromoInv, RowsOK
<1>4. promo'[p].exists = FALSE /\ promo'[p].set = s /\ promo'[p].used = 0
  BY <1>2, <1>3
<1>5. Cardinality(Redeemers) \in Nat
  BY PromoAssumption, FS_CardinalityType
<1>6. redemptions' \subseteq Promos \X Redeemers
  BY DEF DeleteWith, PromoTypes, PromoTypeOK
<1>7. Live' \subseteq Live \ {p}
  BY <1>3, <1>4 DEF Live
<1>8. Unused'
  BY <1>3, <1>4 DEF PromoTypes, Unused
<1>9. \A q \in Promos : promo'[q].set \in Settings /\ promo'[q].used \in 0..Cardinality(Redeemers)
  BY <1>3, <1>4, <1>5 DEF PromoTypes, PromoTypeOK
<1>10. \A q, r \in Live' : promo'[q].set.code = promo'[r].set.code => q = r
  BY <1>3, <1>7 DEF PromoTypes, PromoTypeOK, Live
<1> QED
  BY <1>6, <1>8, <1>9, <1>10 DEF PromoTypes, PromoTypeOK

LEMMA CreateTyped ==
  ASSUME PromoInv, PromoTypes, NEW p \in Promos, NEW s \in Settings, CreatePromo(p, s)
  PROVE  PromoTypes'
<1>1. /\ promo'[p].exists = TRUE /\ promo'[p].set = s /\ promo'[p].used = 0
      /\ \A q \in Promos \ {p} : promo'[q] = promo[q]
  BY DEF CreatePromo, PromoInv, RowsOK
<1>2. UNCHANGED <<redemptions, unlocked, promoPage, edits>> /\ CodeIsFree(s.code, p)
  BY DEF CreatePromo
<1>3. Cardinality(Redeemers) \in Nat
  BY PromoAssumption, FS_CardinalityType
<1>4. Unused'
  BY <1>1 DEF PromoTypes, Unused
<1>5. \A q \in Promos : promo'[q].set \in Settings /\ promo'[q].used \in 0..Cardinality(Redeemers)
  BY <1>1, <1>3 DEF PromoTypes, PromoTypeOK
<1>6. Live' \subseteq Live \cup {p}
  BY <1>1 DEF Live
<1>7. \A q, r \in Live' : promo'[q].set.code = promo'[r].set.code => q = r
  BY <1>1, <1>2, <1>6 DEF PromoTypes, PromoTypeOK, CodeIsFree, Live
<1> QED
  BY <1>2, <1>4, <1>5, <1>7 DEF PromoTypes, PromoTypeOK, PagesTyped

LEMMA RedeemTyped ==
  ASSUME PromoInv, PromoInv', PromoTypes, NEW p \in Promos, NEW u \in Redeemers, Redeem(u, p)
  PROVE  PromoTypes'
<1>1. /\ promo[p].exists
      /\ promo' = [promo EXCEPT ![p].used = @ + 1]
      /\ redemptions' = redemptions \cup {<<p, u>>}
      /\ unlocked' \subseteq unlocked \cup {u}
      /\ UNCHANGED <<promoPage, edits>>
  BY DEF Redeem, Counted, Live
<1>2. /\ promo'[p].set = promo[p].set /\ promo'[p].exists
      /\ \A q \in Promos \ {p} : promo'[q] = promo[q]
  BY <1>1 DEF PromoInv, RowsOK, PromoRow
<1>3. Unused'
  BY <1>2 DEF PromoTypes, Unused
<1>4. CountsFit'
  BY <1>3, CountersFit, PTL
<1>5. \A q \in Promos : promo'[q].set \in Settings
  BY <1>2 DEF PromoTypes, PromoTypeOK
<1>6. Live' = Live
  BY <1>1, <1>2 DEF Live
<1>7. \A q, r \in Live' : promo'[q].set.code = promo'[r].set.code => q = r
  BY <1>2, <1>6 DEF PromoTypes, PromoTypeOK, Live
<1> QED
  BY <1>1, <1>3, <1>4, <1>5, <1>7 DEF PromoTypes, PromoTypeOK, PagesTyped, CountsFit

\* A form changes the columns in which it differs from its copy.
LEMMA FormIs ==
  ASSUME NEW form \in Settings, NEW loaded \in Settings, NEW set \in Settings
  PROVE  LET new == [f \in DOMAIN NoSettings |-> IF form[f] = loaded[f] THEN set[f] ELSE form[f]]
         IN new \in Settings /\ new.code \in {set.code, form.code}
<1>1. PICK d : d = DOMAIN NoSettings /\ d = {"code", "max", "over", "active", "unlocks"}
  BY NoSettingsIs DEF Settings
<1>2. PICK new : new = [f \in d |-> IF form[f] = loaded[f] THEN set[f] ELSE form[f]]
  OBVIOUS
<1>3. /\ new.code = IF form.code = loaded.code THEN set.code ELSE form.code
      /\ new.max = IF form.max = loaded.max THEN set.max ELSE form.max
      /\ new.over = IF form.over = loaded.over THEN set.over ELSE form.over
      /\ new.active = IF form.active = loaded.active THEN set.active ELSE form.active
      /\ new.unlocks = IF form.unlocks = loaded.unlocks THEN set.unlocks ELSE form.unlocks
  BY <1>1, <1>2
<1>4. /\ new.code \in Codes /\ new.max \in {Unlimited, 1} /\ new.over \in BOOLEAN
      /\ new.active \in BOOLEAN /\ new.unlocks \in BOOLEAN
  BY <1>3 DEF Settings
<1>5. new = [code |-> new.code, max |-> new.max, over |-> new.over, active |-> new.active,
             unlocks |-> new.unlocks]
  BY <1>1, <1>2
<1>6. new \in Settings
  BY <1>4, <1>5 DEF Settings
<1> QED
  BY <1>1, <1>2, <1>3, <1>6

LEMMA PromoTypesSteps ==
  ASSUME PromoInv, PromoInv', PromoTypes, [PromoNext]_promoVars PROVE PromoTypes'
<1>0. /\ edits \in 0..MaxEdits /\ (Edit => edits' \in 0..MaxEdits)
      /\ \A p \in Promos : promo[p].set \in Settings
  BY PromoAssumption DEF PromoTypes, PromoTypeOK, Edit
<1>1. ASSUME NEW p \in Promos, NEW u \in Redeemers, Redeem(u, p) PROVE PromoTypes'
  BY <1>1, RedeemTyped
<1>2. ASSUME NEW p \in Promos, PromoExpires(p) PROVE PromoTypes'
  <2>1. PICK set \in Settings : set = promo[p].set
    BY <1>0
  <2>2. PICK new : new = [set EXCEPT !.over = TRUE]
    OBVIOUS
  <2>3. new \in Settings /\ new.code = set.code
    BY <2>2 DEF Settings
  <2>4. promo' = [promo EXCEPT ![p].set = new] /\ PagesTyped'
    BY <1>2, <2>1, <2>2 DEF PromoExpires, PromoTypes, PagesTyped
  <2> QED
    BY <1>0, <1>2, <2>1, <2>3, <2>4, WriteTyped DEF PromoExpires
<1>3. ASSUME NEW p \in Promos, NEW s \in Settings, CreatePromo(p, s) PROVE PromoTypes'
  BY <1>3, CreateTyped
<1>4. ASSUME NEW p \in Promos, NEW s \in Settings, MenuEdits(p, s) PROVE PromoTypes'
  <2>1. PICK code \in Codes : code = promo[p].set.code
    BY <1>0 DEF Settings
  <2>2. PICK new : new = [s EXCEPT !.code = code, !.unlocks = FALSE]
    OBVIOUS
  <2>3. new \in Settings /\ new.code = code
    BY <2>2 DEF Settings
  <2>4. promo' = [promo EXCEPT ![p].set = new] /\ PagesTyped'
    BY <1>4, <2>1, <2>2 DEF MenuEdits, PromoTypes, PagesTyped
  <2> QED
    BY <1>0, <1>4, <2>1, <2>3, <2>4, WriteTyped DEF MenuEdits
<1>5. ASSUME NEW p \in Promos, MenuToggles(p) PROVE PromoTypes'
  <2>1. PICK set \in Settings : set = promo[p].set
    BY <1>0
  <2>2. PICK new : new = [set EXCEPT !.active = ~@]
    OBVIOUS
  <2>3. new \in Settings /\ new.code = set.code
    BY <2>2 DEF Settings
  <2>4. promo' = [promo EXCEPT ![p].set = new] /\ PagesTyped'
    BY <1>5, <2>1, <2>2 DEF MenuToggles, PromoTypes, PagesTyped
  <2> QED
    BY <1>0, <1>5, <2>1, <2>3, <2>4, WriteTyped DEF MenuToggles
<1>6. ASSUME NEW p \in Promos, MenuDeletes(p) PROVE PromoTypes'
  <2>1. PagesTyped'
    BY <1>6 DEF MenuDeletes, PromoTypes, PagesTyped
  <2> QED
    BY <1>6, <2>1, DeleteTyped DEF MenuDeletes
<1>7. ASSUME NEW g \in PromoPages, NEW p \in Promos, NEW op, NEW s \in Settings,
             PageOpens(g, p, op, s)
      PROVE  PromoTypes'
  <2>1. PagesTyped'
    BY <1>7, PageOpensTyped DEF PageOpens
  <2> QED
    BY <1>0, <1>7, <2>1, RowsStand DEF PageOpens
<1>8. ASSUME NEW g \in PromoPages, PageUpdates(g) PROVE PromoTypes'
  <2>1. PICK form \in Settings : form = promoPage[g].form
    BY DEF PromoTypes, PagesTyped
  <2>2. PICK loaded \in Settings : loaded = promoPage[g].copy.set
    BY DEF PromoTypes, PagesTyped
  <2>3. PICK p \in Promos : p = promoPage[g].id
    BY <1>8 DEF PageUpdates, Live
  <2>4. PICK set \in Settings : set = promo[p].set
    BY <1>0
  <2>5. PICK new : new = [f \in DOMAIN NoSettings |-> IF form[f] = loaded[f] THEN set[f] ELSE form[f]]
    OBVIOUS
  <2>6. new \in Settings /\ new.code \in {set.code, form.code}
    BY <2>5, FormIs
  <2>7. promo' = [promo EXCEPT ![p].set = new]
    BY <1>8, <2>1, <2>2, <2>3, <2>4, <2>5 DEF PageUpdates, FormSaved
  <2>8. CodeIsFree(form.code, p)
    BY <1>8, <2>1, <2>3 DEF PageUpdates
  <2>9. PagesTyped'
    BY <1>8, PageCloses DEF PageUpdates
  <2>10. CodeIsFree(new.code, p) \/ new.code = promo[p].set.code
    BY <2>4, <2>6, <2>8
  <2>11. UNCHANGED <<redemptions, unlocked, edits>>
    BY <1>8 DEF PageUpdates
  <2> QED
    BY <1>0, <2>6, <2>7, <2>9, <2>10, <2>11, WriteTyped
<1>9. ASSUME NEW g \in PromoPages, PageSetsActive(g) PROVE PromoTypes'
  <2>1. PICK form \in Settings : form = promoPage[g].form
    BY DEF PromoTypes, PagesTyped
  <2>2. PICK p \in Promos : p = promoPage[g].id
    BY <1>9 DEF PageSetsActive, Live
  <2>3. PICK set \in Settings : set = promo[p].set
    BY <1>0
  <2>4. PICK new : new = [set EXCEPT !.active = form.active]
    OBVIOUS
  <2>5. new \in Settings /\ new.code = set.code
    BY <2>4 DEF Settings
  <2>6. PagesTyped'
    BY <1>9, PageCloses DEF PageSetsActive
  <2>7. UNCHANGED <<redemptions, unlocked, edits>>
    BY <1>9 DEF PageSetsActive
  <2>8. CASE promo' = promo
    BY <1>0, <2>6, <2>7, <2>8, RowsStand
  <2>9. CASE promo' = [promo EXCEPT ![p].set = new]
    BY <1>0, <2>3, <2>5, <2>6, <2>7, <2>9, WriteTyped
  <2> QED
    BY <1>9, <2>1, <2>2, <2>3, <2>4, <2>8, <2>9 DEF PageSetsActive
<1>10. ASSUME NEW g \in PromoPages, PageDeletes(g) PROVE PromoTypes'
  <2>1. promoPage[g].id \in Promos /\ DeleteWith(promoPage[g].id) /\ UNCHANGED <<unlocked, edits>>
    BY <1>10 DEF PageDeletes, Live
  <2>2. PagesTyped'
    BY <1>10, PageCloses DEF PageDeletes
  <2> QED
    BY <2>1, <2>2, DeleteTyped
<1>11. ASSUME NEW g \in PromoPages, PageGivesUp(g) PROVE PromoTypes'
  <2>1. PagesTyped'
    BY <1>11, PageCloses DEF PageGivesUp
  <2> QED
    BY <1>0, <1>11, <2>1, RowsStand DEF PageGivesUp
<1>12. CASE UNCHANGED promoVars
  <2>1. PagesTyped'
    BY <1>12 DEF promoVars, PromoTypes, PagesTyped
  <2> QED
    BY <1>0, <1>12, <2>1, RowsStand DEF promoVars
<1> QED
  BY <1>1, <1>2, <1>3, <1>4, <1>5, <1>6, <1>7, <1>8, <1>9, <1>10, <1>11, <1>12 DEF PromoNext

LEMMA NoticeTypesStart == NoticeInit => NoticeTypeOK
  BY NotificationsAssumption DEF NoticeInit, NoticeTypeOK

LEMMA NoticeTypesSteps == NoticeTypeOK /\ [NoticeNext]_noticeVars => NoticeTypeOK'
<1> SUFFICES ASSUME NoticeTypeOK, [NoticeNext]_noticeVars PROVE NoticeTypeOK'
  OBVIOUS
<1> USE NotificationsAssumption DEF NoticeTypeOK
<1>0. Loss => losses' \in 0..MaxLosses
  BY DEF Loss
<1>1. ASSUME NEW k \in Kinds, BecomesDue(k) \/ ToggleRule(k) \/ Snooze(k) \/ SnoozeEnds(k) \/ CooldownEnds(k)
      PROVE  NoticeTypeOK'
  BY <1>1 DEF BecomesDue, ToggleRule, Snooze, SnoozeEnds, CooldownEnds, tally
<1>2. ASSUME NEW k \in Kinds, ReadPanel(k) PROVE NoticeTypeOK'
  <2>1. visit'.kind \in Kinds /\ visit'.dueKinds \subseteq Flagged
    BY <1>2 DEF ReadPanel
  <2> QED
    BY <1>2, <2>1 DEF ReadPanel, tally
<1>3. CASE PeriodRenewed \/ TrafficAdded
  <2>1. flags' \subseteq Flagged /\ dueKinds' \subseteq Flagged
    BY <1>3 DEF PeriodRenewed, TrafficAdded, Clear
  <2>2. periods' \in 0..MaxPeriods
    BY <1>3 DEF PeriodRenewed, TrafficAdded
  <2>3. served' \in BOOLEAN
    BY <1>3 DEF PeriodRenewed, TrafficAdded
  <2> QED
    BY <1>3, <2>1, <2>2, <2>3 DEF PeriodRenewed, TrafficAdded
<1>4. visit # Idle => visit.kind \in Kinds
  OBVIOUS
<1>a. Sync => served' \in BOOLEAN
  BY Zenon DEF Sync
<1>5. CASE NoReason
  BY <1>a, <1>5 DEF NoReason, tally
<1>6. CASE Suppress
  <2>1. flags' \subseteq Flagged /\ suppressed' \subseteq Kinds
    BY <1>4, <1>6 DEF Suppress, SetFlag
  <2> QED
    BY <1>a, <1>6, <2>1 DEF Suppress
<1>7. ASSUME NEW k \in Kinds, EnqueueNotice(k), SetFlag(k)
      PROVE flags' \subseteq Flagged /\ keys' \subseteq Flagged
  BY <1>7 DEF EnqueueNotice, SetFlag
<1>b. ASSUME NEW k \in Kinds, TakeCooldown(k) PROVE cooldowns' \subseteq Cooling
  BY <1>b DEF TakeCooldown
<1>8. CASE Notify
  <2>1. flags' \subseteq Flagged /\ keys' \subseteq Flagged /\ cooldowns' \subseteq Cooling
    BY <1>4, <1>7, <1>8, <1>b DEF Notify
  <2> QED
    BY <1>a, <1>8, <2>1 DEF Notify
<1>9. CASE NotifyWithoutRedis
  <2>1. flags' \subseteq Flagged /\ keys' \subseteq Flagged
    BY <1>4, <1>7, <1>9 DEF NotifyWithoutRedis
  <2> QED
    BY <1>0, <1>a, <1>9, <2>1 DEF NotifyWithoutRedis
<1>11. CASE NotifyIsLost
  <2>1. cooldowns' \subseteq Cooling
    BY <1>4, <1>11, <1>b DEF NotifyIsLost
  <2> QED
    BY <1>0, <1>11, <2>1 DEF NotifyIsLost, tally
<1>10. CASE UNCHANGED noticeVars
  BY <1>10 DEF noticeVars, tally
<1> QED
  BY <1>1, <1>2, <1>3, <1>5, <1>6, <1>8, <1>9, <1>10, <1>11 DEF NoticeNext, Visit

\* What is put to the panel has a note, and a cycle ends at most a month from now.
Writing == {"write", "resend", "commit", "save"}
SubNoted ==
  /\ panel.note \in Notes
  /\ task.step \in Writing => task.copy.note \in Notes
  /\ page.step \in Writing => page.copy.note \in Notes
  /\ job = NoUser \/ job.note \in Notes
SubBounded == row.due <= month + 1 /\ month <= MaxTime /\ faults <= MaxFaults

SubTyped == SubBase /\ SubNoted /\ SubBounded

LEMMA SubTypedIsOK == SubTyped => SubscriptionTypeOK
  BY DEF SubTyped, SubBase, SubTypes, SubNoted, SubBounded, SubscriptionTypeOK, Users, UserRecords,
         RowRecords, Tasks, Pages, Works

LEMMA SubTypedStarts == SubscriptionInit => SubTyped
<1>1. SubscriptionInit => SubBase
  BY SubBaseStarts
<1> QED
  BY <1>1, SubscriptionAssumption
     DEF SubscriptionInit, SubTyped, SubNoted, SubBounded, Notes, Resting, None, Writing

LEMMA SubNotedSteps ==
  ASSUME SubTyped, [SubscriptionNext]_subscriptionVars
  PROVE SubNoted'
<1> USE DEF Writing
<1>0. SubBase /\ SubNoted /\ Resting.step = None
  BY RestingIsWork DEF SubTyped
<1>1. ASSUME NEW i, NEW kind, StartWith(kind, i, "look"), UNCHANGED <<panel, page, job>>
      PROVE  SubNoted'
  <2>1. task'.step = "look"
    BY <1>1 DEF StartWith, Resting
  <2> QED
    BY <1>0, <1>1, <2>1 DEF SubNoted
<1>2. ASSUME task.kind # None, task.kind = "topup" => task.copy.note \in Notes, Put(NewUser(task))
      PROVE  panel'.note \in Notes
  <2>1. task.kind \in {"renewal", "topup", "reset"}
    BY <1>0, <1>2 DEF SubBase, SubTypes, Tasks, Works
  <2>2. panel' = NewUser(task)
    BY <1>2 DEF Put
  <2>3. CASE task.kind = "renewal"
    <3>1. task.inv \in Renewals /\ NewUser(task) = Renewed(task)
      BY <1>0, <2>3, NewUserIs DEF SubBase, Labelled
    <3> QED
      BY <2>2, <3>1 DEF Renewed, Notes
  <2>4. CASE task.kind = "topup"
    <3>1. PICK c \in UserRecords : c = task.copy
      BY <1>0 DEF SubBase, SubTypes, Tasks, Works
    <3>2. PICK l : l = task.seen.limit + 1
      OBVIOUS
    <3>3. [c EXCEPT !.limit = l, !.on = TRUE].note = c.note
      BY DEF UserRecords
    <3>4. NewUser(task) = [c EXCEPT !.limit = l, !.on = TRUE]
      BY <2>4, <3>1, <3>2, NewUserIs DEF ToppedUp
    <3> QED
      BY <1>2, <2>2, <2>4, <3>1, <3>3, <3>4
  <2>5. CASE task.kind = "reset"
    BY <2>2, <2>5, NewUserIs DEF Monthly, Notes
  <2> QED
    BY <2>1, <2>3, <2>4, <2>5
<1>3. ASSUME WriteTakesEffect PROVE panel'.note \in Notes /\ task.step \in Writing
  <2>1. task.step \in Writing /\ task.kind # None /\ Put(NewUser(task))
    BY <1>0, <1>3, WriteTypes DEF WriteTakesEffect, None
  <2> QED
    BY <1>0, <1>2, <2>1 DEF SubNoted
<1>4. ASSUME PageTakesEffect PROVE panel'.note \in Notes
  <2>1. page.kind \in AllPages /\ panel' = PageUser(page) /\ page.copy.note \in Notes
    BY <1>0, <1>4, PageTypes DEF PageTakesEffect, SubNoted
  <2>2. PICK c \in UserRecords : c = page.copy
    BY <1>0 DEF SubBase, SubTypes, Pages, Works
  <2>3. page.kind # "extend" => PageUser(page).note = c.note
    BY <2>1, <2>2, PageUserIs DEF AllPages, UserRecords
  <2>4. page.kind = "extend" => PageUser(page).note = "admin_extend"
    BY PageUserIs
  <2> QED
    BY <2>1, <2>2, <2>3, <2>4 DEF Notes
<1>5. CASE StartMonthlyReset
  BY <1>1, <1>5 DEF StartMonthlyReset
<1>6. CASE CloseExpiredCycle
  BY <1>0, <1>6 DEF CloseExpiredCycle, SubNoted
<1>7. CASE Look
  BY <1>0, <1>7, LookMoves DEF Look, SubNoted
<1>8. CASE Read
  BY <1>0, <1>8, ReadMoves DEF Read, SubNoted
<1>9. CASE Write
  BY <1>0, <1>3, <1>9, WriteMoves DEF Write, WriteTakesEffect, SubNoted
<1>10. CASE WriteIsRepeated
  <2>1. task.step \in Writing /\ task'.copy = task.copy /\ panel'.note \in Notes
    BY <1>0, <1>3, <1>10, ResendMoves DEF WriteIsRepeated
  <2> QED
    BY <1>0, <1>10, <2>1 DEF WriteIsRepeated, WriteTakesEffect, SubNoted
<1>11. CASE WriteIsGivenUp
  BY <1>0, <1>3, <1>11 DEF WriteIsGivenUp, WriteTakesEffect, SubNoted, None
<1>12. CASE TaskFails \/ CommitIsLost \/ Commit
  BY <1>0, <1>12 DEF TaskFails, CommitIsLost, Commit, SubNoted, None
<1>13. ASSUME NEW k \in ConsolePages, StartPage(k) PROVE SubNoted'
  <2>1. page'.step = "read"
    BY <1>13 DEF StartPage, Resting
  <2> QED
    BY <1>0, <1>13, <2>1 DEF StartPage, SubNoted
<1>14. CASE PageReads
  BY <1>0, <1>14, PageReadMoves DEF PageReads, SubNoted
<1>15. CASE PageWrites
  BY <1>0, <1>4, <1>15, PageWriteMoves DEF PageWrites, PageTakesEffect, SubNoted
<1>16. CASE PageFails
  <2>1. panel'.note \in Notes /\ UNCHANGED <<task, job>>
    BY <1>0, <1>4, <1>16 DEF PageFails, PageTakesEffect, SubNoted
  <2> QED
    BY <1>0, <1>16, <2>1 DEF PageFails, SubNoted, None
<1>17. CASE PageSaves
  BY <1>0, <1>17 DEF PageSaves, SubNoted, None
<1>18. CASE JobReads \/ JobSyncs \/ AMonthPasses
  BY <1>0, <1>18 DEF JobReads, JobSyncs, AMonthPasses, SubNoted
<1>19. CASE UNCHANGED subscriptionVars
  BY <1>0, <1>19 DEF subscriptionVars, SubNoted
<1>20. CASE Operate
  BY <1>1, <1>5, <1>6, <1>7, <1>8, <1>9, <1>10, <1>11, <1>12, <1>20 DEF Operate, StartRenewal, StartTopup
<1>21. CASE Administer
  BY <1>13, <1>14, <1>15, <1>16, <1>17, <1>21 DEF Administer
<1> QED
  BY <1>18, <1>19, <1>20, <1>21 DEF SubscriptionNext

LEMMA SubBoundedSteps ==
  ASSUME SubTyped, [SubscriptionNext]_subscriptionVars
  PROVE SubBounded'
<1>0. /\ row \in RowRecords /\ month \in Nat /\ faults \in Nat
      /\ row.due <= month + 1 /\ month <= MaxTime /\ faults <= MaxFaults
  BY DEF SubTyped, SubBase, SubTypes, SubBounded
<1>1. ASSUME UNCHANGED <<row, month>>, faults' = faults \/ Fault PROVE SubBounded'
  BY <1>0, <1>1, SubscriptionAssumption DEF SubBounded, Fault
<1>2. ASSUME row'.due <= month + 1, month' = month, faults' = faults \/ Fault PROVE SubBounded'
  BY <1>0, <1>2, SubscriptionAssumption DEF SubBounded, Fault
<1>3. ASSUME NEW p \in UserRecords PROVE Synced(row, p).due = row.due
  BY <1>3, RowTypes DEF SubTyped
<1>4. CASE Commit
  <2>1. PICK t \in Tasks : t = task
    BY DEF SubTyped, SubBase, SubTypes
  <2>2. t.kind \in {"renewal", "topup", "reset"} /\ t.copy \in UserRecords
    BY <1>4, <2>1 DEF Commit, SubTyped, SubBase, SubTypes, Labelled, Tasks, Works, None
  <2>3. PICK r \in RowRecords : r = Synced(row, t.copy) /\ r.due = row.due
    BY <1>3, <2>2, RowTypes DEF SubTyped
  <2>4. RenewedRow(t).due <= month + 1
    <3>1. RenewedRow(t) = IF t.again /\ row.due # NoCycle
                          THEN [r EXCEPT !.active = TRUE, !.limit = Base + r.extra]
                          ELSE [r EXCEPT !.active = TRUE, !.limit = Base, !.extra = 0, !.due = month + 1]
      BY <2>3 DEF RenewedRow
    <3>2. PICK later \in Nat : later = month + 1
      BY <1>0
    <3>3. /\ \A l : [r EXCEPT !.active = TRUE, !.limit = l].due = r.due
          /\ \A l : [r EXCEPT !.active = TRUE, !.limit = l, !.extra = 0, !.due = later].due = later
      BY DEF RowRecords
    <3> QED
      BY <1>0, <2>3, <3>1, <3>2, <3>3
  <2>5. ToppedUpRow(t).due <= month + 1
    <3>1. PICK until \in Nat : /\ until = IF row.due # NoCycle THEN row.due
                                          ELSE IF row.exp > month THEN month + 1 ELSE month
                               /\ until <= month + 1
      BY <1>0 DEF RowRecords
    <3>2. ToppedUpRow(t) = [r EXCEPT !.extra = row.extra + 1, !.limit = Base + row.extra + 1,
                                     !.due = until]
      BY <2>3, <3>1 DEF ToppedUpRow
    <3>3. \A l, m : [r EXCEPT !.extra = m, !.limit = l, !.due = until].due = until
      BY DEF RowRecords
    <3> QED
      BY <3>1, <3>2, <3>3
  <2>6. MonthlyRow(t).due <= month + 1
    <3>1. PICK later \in Nat : later = month + 1
      BY <1>0
    <3>2. MonthlyRow(t) = [r EXCEPT !.extra = 0, !.limit = Base, !.due = later]
      BY <2>3, <3>1 DEF MonthlyRow
    <3>3. \A l : [r EXCEPT !.extra = 0, !.limit = l, !.due = later].due = later
      BY DEF RowRecords
    <3> QED
      BY <1>0, <3>1, <3>2, <3>3
  <2>7. row'.due <= month + 1
    BY <1>4, <2>1, <2>2, <2>4, <2>5, <2>6, CommitWrites
  <2> QED
    BY <1>2, <1>4, <2>7 DEF Commit
<1>5. CASE CloseExpiredCycle
  <2>1. row'.due = 0
    BY <1>0, <1>5 DEF CloseExpiredCycle, RowRecords, NoCycle
  <2> QED
    BY <1>0, <1>2, <1>5, <2>1 DEF CloseExpiredCycle
<1>6. CASE TaskFails
  <2>1. task.seen \in UserRecords
    BY DEF SubTyped, SubBase, SubTypes, Tasks, Works
  <2>2. row'.due = row.due
    BY <1>3, <1>6, <2>1 DEF TaskFails
  <2> QED
    BY <1>0, <1>2, <1>6, <2>2 DEF TaskFails, Fault
<1>7. CASE PageSaves
  <2>1. page.kind \in AllPages
    BY <1>7 DEF PageSaves, SubTyped, SubBase, SubTypes, Labelled, Pages, Works, None
  <2>2. row'.due = row.due
    BY <1>0, <1>7, <2>1, PageSaveWrites DEF AllPages, RowRecords
  <2> QED
    BY <1>0, <1>2, <1>7, <2>2 DEF PageSaves
<1>8. CASE JobSyncs
  <2>1. job \in UserRecords
    BY DEF SubTyped, SubBase, SubTypes
  <2> QED
    BY <1>0, <1>2, <1>3, <1>8, <2>1 DEF JobSyncs
<1>9. CASE AMonthPasses
  <2>1. row.due \in Nat
    BY <1>0 DEF RowRecords
  <2> QED
    BY <1>0, <1>9, <2>1, SubscriptionAssumption DEF AMonthPasses, SubBounded
<1>10. CASE WriteTakesEffect /\ (faults' = faults \/ Fault)
  BY <1>1, <1>10 DEF WriteTakesEffect
<1>11. CASE PageTakesEffect /\ (faults' = faults \/ Fault)
  BY <1>1, <1>11 DEF PageTakesEffect
<1>12. CASE StartMonthlyReset \/ Look \/ Read \/ CommitIsLost \/ PageReads \/ JobReads
  BY <1>1, <1>12 DEF StartMonthlyReset, Look, Read, CommitIsLost, PageReads, JobReads
<1>13. ASSUME NEW i, StartRenewal(i) \/ StartTopup(i) \/ StartPage(i) PROVE SubBounded'
  BY <1>1, <1>13 DEF StartRenewal, StartTopup, StartPage
<1>14. CASE Operate
  BY <1>4, <1>5, <1>6, <1>10, <1>12, <1>13, <1>14 DEF Operate, Write, WriteIsRepeated, WriteIsGivenUp
<1>15. CASE Administer
  BY <1>1, <1>7, <1>11, <1>12, <1>13, <1>15 DEF Administer, PageWrites, PageFails
<1>16. CASE UNCHANGED subscriptionVars
  BY <1>1, <1>16 DEF subscriptionVars
<1> QED
  BY <1>8, <1>9, <1>12, <1>14, <1>15, <1>16 DEF SubscriptionNext

LEMMA SubTypedSteps == SubTyped /\ [SubscriptionNext]_subscriptionVars => SubTyped'
<1> SUFFICES ASSUME SubTyped, [SubscriptionNext]_subscriptionVars PROVE SubTyped'
  OBVIOUS
<1> QED
  BY SubBaseSteps, SubNotedSteps, SubBoundedSteps DEF SubTyped

\* The records of the five components keep their types, a code belongs to one promo, the
\* panel's user has a note of this system, and a cycle ends at most a month from now
\* (Subscription.next_reset_at, TelegramOutbox, PromoCode.code).
THEOREM RecordsTypeCorrect == RecordsSpec => []RecordsTypeOK
<1> DEFINE All == IInv /\ ResetTypeOK /\ SubTyped /\ NoticeTypeOK /\ PromoInv /\ PromoTypes
<1>1. RecordsInit => All
  BY InitInv, ResetTypeStarts, SubTypedStarts, NoticeTypesStart, PromoStarts, PromoTypesStart
     DEF RecordsInit, RowsInit
<1>2. All /\ [RecordsNext]_recordsVars => All'
  <2> SUFFICES ASSUME All, [RecordsNext]_recordsVars PROVE All'
    OBVIOUS
  <2>1. /\ [OutboxNext]_outboxVars /\ [ResetNext]_resetVars /\ [SubscriptionNext]_subscriptionVars
        /\ [NoticeNext]_noticeVars /\ [PromoNext]_promoVars
    BY DEF RecordsNext, recordsVars, recordVars
  <2>2. PromoInv'
    BY <2>1, PromoSteps
  <2>3. PromoTypes'
    BY <2>1, <2>2, PromoTypesSteps
  <2> QED
    BY <2>1, <2>2, <2>3, NextInv, ResetTypeSteps, SubTypedSteps, NoticeTypesSteps
<1>3. All => RecordsTypeOK
  BY SubTypedIsOK DEF IInv, PromoTypes, RecordsTypeOK
<1> QED
  BY <1>1, <1>2, <1>3, PTL DEF RecordsSpec
=============================================================================
