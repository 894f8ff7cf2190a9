------------------------------ MODULE PromoCodes ------------------------------
(***************************************************************************)
(* Promo codes: PromoService in src/app/services/promos.py, the            *)
(* repositories PromoRepository and PromoRedemptionRepository, the promo   *)
(* pages of src/app/web/routes.py and the promo menu of                    *)
(* src/app/handlers/admin_panel.py.                                        *)
(*                                                                         *)
(* A redemption holds the row of the promo from its checks to its commit,  *)
(* so it is one action; the bot's admin menu also reads under the lock.    *)
(* The web console reads the promo, and only then locks it: SQLAlchemy     *)
(* does not refresh a loaded object, so the page decides on its copy and   *)
(* writes the columns in which the form differs from the copy.             *)
(*                                                                         *)
(* What a bonus does to a balance is in Wallets.                           *)
(***************************************************************************)
EXTENDS Naturals, FiniteSets

CONSTANTS Promos,     \* ids of promo_codes, never used twice
          Codes,
          Redeemers,  \* users
          PromoPages,      \* requests of the web console
          MaxEdits    \* bound on edits, archivings and the like

ASSUME PromoAssumption == MaxEdits \in Nat /\ IsFiniteSet(Redeemers) /\ Codes # {}

Unlimited == 0   \* max_uses IS NULL
Settings == [code : Codes, max : {Unlimited, 1}, over : BOOLEAN, active : BOOLEAN,
             unlocks : BOOLEAN]

VARIABLES promo,       \* rows: [exists, set : Settings, used]
          redemptions, \* promo_redemptions: <<promo, user>>
          unlocked,    \* users that the unlocked tariff is open to
          promoPage,   \* what a console request read: [op, id, copy, form]
          edits,       \* edits so far
          retired,     \* history: promos that were deleted
          paid,        \* history: bonuses paid, by promo and user
          used         \* history: redemptions of a promo

promoVars == <<promo, redemptions, unlocked, promoPage, edits, retired, paid, used>>

NoSettings == CHOOSE s \in Settings : ~s.active
NoPromo == [exists |-> FALSE, set |-> NoSettings, used |-> 0]
NoPage == [op |-> "none", id |-> 0, copy |-> NoPromo, form |-> NoSettings]

PromoInit ==
  /\ promo = [p \in Promos |-> NoPromo]
  /\ redemptions = {} /\ unlocked = {}
  /\ promoPage = [g \in PromoPages |-> NoPage]
  /\ edits = 0
  /\ retired = {}
  /\ paid = [p \in Promos |-> [u \in Redeemers |-> 0]]
  /\ used = [p \in Promos |-> 0]

Live == {p \in Promos : promo[p].exists}
Edit == edits < MaxEdits /\ edits' = edits + 1

\* mutation: an archived promo does not hold its code
CodeIsFreeIfArchived(code, p) ==
  \A q \in Live \ {p} : promo[q].set.code # code \/ ~promo[q].set.active

\* uq_promo_code, and _ensure_unique_code before it.
CodeIsFree(code, p) == \A q \in Live \ {p} : promo[q].set.code # code

\* expires_at in the past is refused when it is set.
Acceptable(s) == ~s.over

-----------------------------------------------------------------------------
(* The user                                                                *)

Exhausted(p) == promo[p].set.max # Unlimited /\ promo[p].used >= promo[p].set.max

\* mutation: has_redeemed is asked for the code's limit only
NeverRedeemed(p, u) == FALSE

HasRedeemed(p, u) == <<p, u>> \in redemptions

\* mutation: the counter is only kept for promos with a limit
CountedIfLimited(p) ==
  [promo EXCEPT ![p].used = IF promo[p].set.max = Unlimited THEN @ ELSE @ + 1]

Counted(p) == [promo EXCEPT ![p].used = @ + 1]

Redeem(u, p) ==
  /\ p \in Live
  /\ promo[p].set.active /\ ~promo[p].set.over
  /\ ~Exhausted(p)
  /\ ~HasRedeemed(p, u)
  /\ redemptions' = redemptions \cup {<<p, u>>}
  /\ promo' = Counted(p)
  /\ unlocked' = IF promo[p].set.unlocks THEN unlocked \cup {u} ELSE unlocked
  /\ paid' = [paid EXCEPT ![p][u] = @ + 1]
  /\ used' = [used EXCEPT ![p] = @ + 1]
  /\ UNCHANGED <<promoPage, edits, retired>>

\* expires_at passes.
PromoExpires(p) ==
  /\ p \in Live /\ ~promo[p].set.over
  /\ Edit
  /\ promo' = [promo EXCEPT ![p].set.over = TRUE]
  /\ UNCHANGED <<redemptions, unlocked, promoPage, retired, paid, used>>

-----------------------------------------------------------------------------
(* The bot's menu and the creation of promos: one transaction, read under  *)
(* the lock of the row                                                     *)

CreatePromo(p, s) ==
  /\ ~promo[p].exists /\ p \notin retired
  /\ Acceptable(s) /\ CodeIsFree(s.code, p)
  /\ promo' = [promo EXCEPT ![p] = [exists |-> TRUE, set |-> s, used |-> 0]]
  /\ UNCHANGED <<redemptions, unlocked, promoPage, edits, retired, paid, used>>

MenuToggles(p) ==
  /\ p \in Live
  /\ Edit
  /\ promo' = [promo EXCEPT ![p].set.active = ~@]
  /\ UNCHANGED <<redemptions, unlocked, promoPage, retired, paid, used>>

\* admin_promo_edit_input says nothing of the tariff, and update_promo takes
\* that for none.
MenuEdits(p, s) ==
  /\ p \in Live
  /\ Acceptable(s)
  /\ Edit
  /\ promo' = [promo EXCEPT ![p].set = [s EXCEPT !.code = promo[p].set.code, !.unlocks = FALSE]]
  /\ UNCHANGED <<redemptions, unlocked, promoPage, retired, paid, used>>

\* Deleting a promo deletes its redemptions.
DeleteWith(p) ==
  /\ promo' = [promo EXCEPT ![p] = NoPromo]
  /\ redemptions' = {r \in redemptions : r[1] # p}
  /\ retired' = retired \cup {p}

MenuDeletes(p) ==
  /\ p \in Live
  /\ promo[p].used = 0
  /\ DeleteWith(p)
  /\ UNCHANGED <<unlocked, promoPage, edits, paid, used>>

-----------------------------------------------------------------------------
(* admin_promocodes_update                                                 *)

PageOpens(g, p, op, form) ==
  /\ promoPage[g] = NoPage
  /\ p \in Live
  /\ Edit
  /\ promoPage' = [promoPage EXCEPT ![g] = [op |-> op, id |-> p, copy |-> promo[p],
                                            form |-> form]]
  /\ UNCHANGED <<promo, redemptions, unlocked, retired, paid, used>>

\* mutation: the page writes back the whole copy
CopySaved(g) ==
  [promo EXCEPT ![promoPage[g].id] =
     [promoPage[g].copy EXCEPT !.set = promoPage[g].form]]

\* Only the columns in which the form differs from the copy.
FormSaved(g) ==
  LET pg == promoPage[g] IN
  [promo EXCEPT ![pg.id].set =
     [f \in DOMAIN NoSettings |->
        IF pg.form[f] = pg.copy.set[f] THEN promo[pg.id].set[f] ELSE pg.form[f]]]

PageUpdates(g) ==
  LET pg == promoPage[g] IN
  /\ pg.op = "update" /\ pg.id \in Live
  /\ Acceptable(pg.form) /\ CodeIsFree(pg.form.code, pg.id)
  /\ promo' = FormSaved(g)
  /\ promoPage' = [promoPage EXCEPT ![g] = NoPage]
  /\ UNCHANGED <<redemptions, unlocked, edits, retired, paid, used>>

\* archive, activate and toggle_active, with the target in the form.
PageSetsActive(g) ==
  LET pg == promoPage[g] IN
  /\ pg.op = "set_active" /\ pg.id \in Live
  /\ promo' = IF pg.form.active = pg.copy.set.active THEN promo
              ELSE [promo EXCEPT ![pg.id].set.active = pg.form.active]
  /\ promoPage' = [promoPage EXCEPT ![g] = NoPage]
  /\ UNCHANGED <<redemptions, unlocked, edits, retired, paid, used>>

PageDeletes(g) ==
  LET pg == promoPage[g] IN
  /\ pg.op = "delete" /\ pg.id \in Live
  /\ pg.copy.used = 0
  /\ DeleteWith(pg.id)
  /\ promoPage' = [promoPage EXCEPT ![g] = NoPage]
  /\ UNCHANGED <<unlocked, edits, paid, used>>

\* The promo is gone, the form is refused, or the connection is lost.
PageGivesUp(g) ==
  /\ promoPage[g] # NoPage
  /\ promoPage' = [promoPage EXCEPT ![g] = NoPage]
  /\ UNCHANGED <<promo, redemptions, unlocked, edits, retired, paid, used>>

PromoNext ==
  \/ \E p \in Promos :
       \/ \E u \in Redeemers : Redeem(u, p)
       \/ PromoExpires(p)
       \/ \E s \in Settings : CreatePromo(p, s) \/ MenuEdits(p, s)
       \/ MenuToggles(p)
       \/ MenuDeletes(p)
  \/ \E g \in PromoPages :
       \/ \E p \in Promos, op \in {"update", "set_active", "delete"}, s \in Settings :
            PageOpens(g, p, op, s)
       \/ PageUpdates(g) \/ PageSetsActive(g) \/ PageDeletes(g) \/ PageGivesUp(g)

PromoSpec == PromoInit /\ [][PromoNext]_promoVars

-----------------------------------------------------------------------------
(* Properties                                                              *)

\* Types, and a code is held by one promo.
PromoTypeOK ==
  /\ \A p \in Promos : promo[p].set \in Settings /\ promo[p].used \in 0 .. Cardinality(Redeemers)
  /\ \A p, q \in Live : promo[p].set.code = promo[q].set.code => p = q
  /\ redemptions \subseteq Promos \X Redeemers
  /\ unlocked \subseteq Redeemers
  /\ edits \in 0 .. MaxEdits

\* used_count is the number of redemption rows, whatever the console saves
\* from an old copy in the meantime (FormSaved writes no counter).
UsesAreCounted ==
  \A p \in Live : promo[p].used = Cardinality({u \in Redeemers : <<p, u>> \in redemptions})

\* A promo pays each user once, also after its code, limit or activity changed
\* and after it was deleted under a redemption (has_redeemed).
PaidOnce == \A p \in Promos, u \in Redeemers : paid[p][u] <= 1

\* A code pays once to each user, and its counter says how often.
RedemptionsAddUp == UsesAreCounted /\ PaidOnce

\* A promo that was used is not deleted.
UsedIsKept == \A p \in retired : used[p] = 0
=============================================================================
