------------------------------ MODULE Tariffs ------------------------------
(***************************************************************************)
(* The price list: the pricing rules, the tariff saved under a code, the   *)
(* packs of extra traffic and the sale of an extra device, as the console  *)
(* edits them, and what PricingService makes of them.  Money is in kopecks *)
(* and discounts in thousandths.  A code is its number of GB, and 0 stands *)
(* for 'unlim'; a number, price or count that is NULL is 0, which is what  *)
(* the code's "or" takes it for.                                           *)
(***************************************************************************)
EXTENDS Integers, Sequences, FiniteSets, FiniteSetsExt

CONSTANTS RuleBook,      \* the pricing rules an administrator may save
          TariffRows, NoRow,   \* the tariffs one may save, and none
          RowCode,       \* the code they are saved under
          Ticks,         \* boxes an administrator ticks: [active, public, archived]
          Packages,      \* TRAFFIC_OPTIONS
          MaxDevices,    \* MAX_CUSTOM_DEVICES
          Packs, NoPack, \* packs of traffic, and a deleted one
          Upsells        \* settings of the sale of a device

ASSUME PackagesAssumption == Packages # {} /\ Packages \subseteq Nat \ {0} /\ IsFiniteSet(Packages)
ASSUME MaxDevicesAssumption == MaxDevices \in Nat /\ MaxDevices >= 2

NoLimit == 0
PackageCodes == Packages \cup {NoLimit}
Modes == {"single", "custom", "unlimited"}
LongestPeriod == 12
Rouble == 100

RuleValues == [base : Nat, gbStep : Nat \ {0}, gbPrice : Nat, devicePrice : Nat, unlimitedDevices : Nat,
               combo : Nat, maxDiscount : Nat, maxMonths : 1..LongestPeriod, minTopup : Nat \ {0}]
BandValues == [low : Nat, usual : Nat, high : Nat, step : Nat, price : Nat]
ScaleValues == [low : 0..MaxDevices, usual : 0..MaxDevices, high : 0..MaxDevices, step : Nat, price : Nat]
RowValues == [pricing : {"fixed", "constructor"}, traffic : {"fixed", "constructor", "unlimited"},
              devices : {"fixed", "constructor", "unlimited"}, base : Nat, single : Nat, surcharge : Nat,
              gb : BandValues, dev : ScaleValues, periods : SUBSET (1..LongestPeriod)]

\* What the forms and the database let an administrator save, on the scale of the
\* shop: no longer than MAX_MONTHS and no more devices than MAX_CUSTOM_DEVICES, two
\* bounds that neither checks.
ASSUME PriceListAssumption ==
  /\ RuleBook \subseteq RuleValues /\ TariffRows \subseteq RowValues
  /\ Ticks \subseteq [active : BOOLEAN, public : BOOLEAN, archived : BOOLEAN]
  /\ Packs \subseteq [price : Nat, enabled : BOOLEAN]
  /\ Upsells \subseteq [enabled : BOOLEAN, mode : {"fixed", "prorated"}, fixed : Nat]

VARIABLES rules,    \* the row of pricing_rules
          tariff,   \* NoRow, or [row, active, public, archived]
          pack,     \* NoPack, or [price, enabled]
          upsell    \* [enabled, mode, fixed]

tariffVars == <<rules, tariff, pack, upsell>>

Standings == [row : TariffRows, active : BOOLEAN, public : BOOLEAN, archived : BOOLEAN]
Standing(r, k) == [row |-> r, active |-> k.active, public |-> k.public, archived |-> k.archived]

\* CHECK (NOT (is_archived AND is_active)): any other write is refused.
Storable(t) == ~(t.archived /\ t.active)

TariffsInit ==
  /\ rules \in RuleBook
  /\ tariff = NoRow
  /\ pack \in Packs
  /\ upsell \in Upsells

-----------------------------------------------------------------------------
(* What the console saves; each form is one transaction.                   *)

\* admin_pricing_update, update_rules.
SaveRules(r) ==
  /\ rules # r
  /\ rules' = r
  /\ UNCHANGED <<tariff, pack, upsell>>

\* save_tariff for a code without a row: the flags go in as they are ticked.
CreateTariff(r, k) ==
  /\ tariff = NoRow
  /\ Storable(k)
  /\ tariff' = Standing(r, k)
  /\ UNCHANGED <<rules, pack, upsell>>

\* save_tariff for a row: archiving also takes it off sale.
UpdateTariff(r, k) ==
  /\ tariff # NoRow
  /\ tariff' = [Standing(r, k) EXCEPT !.active = @ /\ ~k.archived, !.public = @ /\ ~k.archived]
  /\ UNCHANGED <<rules, pack, upsell>>

ArchiveTariff ==
  /\ tariff # NoRow
  /\ tariff' = [tariff EXCEPT !.archived = TRUE, !.active = FALSE, !.public = FALSE]
  /\ UNCHANGED <<rules, pack, upsell>>

ReactivateTariff ==
  /\ tariff # NoRow
  /\ tariff' = [tariff EXCEPT !.archived = FALSE, !.active = TRUE, !.public = TRUE]
  /\ UNCHANGED <<rules, pack, upsell>>

SavePack(p) ==
  /\ pack # p
  /\ pack' = p
  /\ UNCHANGED <<rules, tariff, upsell>>

TogglePack ==
  /\ pack # NoPack
  /\ pack' = [pack EXCEPT !.enabled = ~@]
  /\ UNCHANGED <<rules, tariff, upsell>>

DeletePack ==
  /\ pack # NoPack
  /\ pack' = NoPack
  /\ UNCHANGED <<rules, tariff, upsell>>

SaveUpsell(u) ==
  /\ upsell # u
  /\ upsell' = u
  /\ UNCHANGED <<rules, tariff, pack>>

-----------------------------------------------------------------------------
(* The option a code stands for.                                           *)

\* _legacy_option: what is sold under a code that has no row.
LegacyOption(code) ==
  [pricing |-> "constructor",
   traffic |-> IF code = NoLimit THEN "unlimited" ELSE "fixed",
   devices |-> IF code = NoLimit THEN "unlimited" ELSE "constructor",
   base |-> 0, single |-> 0, surcharge |-> 0, priced |-> FALSE,
   gb |-> [low |-> code, usual |-> code, high |-> code, step |-> 0, price |-> 0],
   dev |-> [low |-> 1, usual |-> 1, high |-> MaxDevices, step |-> 1, price |-> 0],
   periods |-> {1}]

\* str() of a member of a (str, Enum) class is the name of the member with that
\* of the class, which is none of the words the modes are compared with.
AsText(mode) ==
  IF mode = "fixed" THEN "Enum.fixed" ELSE IF mode = "constructor" THEN "Enum.constructor" ELSE "Enum.unlimited"

\* _option_from_row.  The prices of a row are never NULL, so that
\* legacy_price_single and legacy_price_unlimited are set ("priced") and
\* unlimited devices are allowed whatever the form says.
OptionFromRow(r) ==
  [pricing |-> AsText(r.pricing), traffic |-> AsText(r.traffic), devices |-> AsText(r.devices),
   base |-> r.base, single |-> r.single, surcharge |-> r.surcharge, priced |-> TRUE,
   gb |-> r.gb, dev |-> r.dev,
   periods |-> IF r.periods # {} THEN r.periods ELSE 1..rules.maxMonths]

\* get_plan: the row of the code whatever its standing, or the legacy option.
OptionOf(code) ==
  IF code = RowCode /\ tariff # NoRow THEN OptionFromRow(tariff.row) ELSE LegacyOption(code)

-----------------------------------------------------------------------------
(* The arithmetic.                                                         *)

OrElse(a, b) == IF a # 0 THEN a ELSE b
Within(low, high, n) == Max({low, Min({high, n})})
\* Decimal quantize with ROUND_HALF_UP, and Python's round() to even.
HalfUp(n, d) == (2 * n + d) \div (2 * d)
ToEven(n, d) ==
  LET q == n \div d
      r == 2 * (n % d)
  IN IF r < d \/ (r = d /\ q % 2 = 0) THEN q ELSE q + 1

\* _normalize_constructor_traffic; 0 for a traffic that was not named.
NormalTraffic(o, selected) ==
  LET step == OrElse(o.gb.step, 50)
      low == OrElse(OrElse(o.gb.low, o.gb.usual), step)
      high == OrElse(o.gb.high, Max({low, o.gb.usual}))
      target == Within(low, high, OrElse(selected, OrElse(o.gb.usual, low)))
  IN Within(low, high, low + ToEven(target - low, step) * step)

Single == [mode |-> "single", count |-> 1]
Unmetered == [mode |-> "unlimited", count |-> 0]
Several(n) == IF n = 1 THEN Single ELSE [mode |-> "custom", count |-> n]

\* _normalize_constructor_devices.
NormalDevices(o, mode, count) ==
  LET low == OrElse(o.dev.low, OrElse(o.dev.usual, 1))
      high == Max({low, OrElse(o.dev.high, MaxDevices)})
      step == OrElse(o.dev.step, 1)
      wanted == Within(low, high, OrElse(count, low))
  IN IF mode = "unlimited" \/ o.devices = "unlimited" THEN Unmetered
     ELSE IF o.devices = "fixed" THEN Several(OrElse(o.dev.usual, 1))
     ELSE IF mode = "single" THEN Several(low)
     ELSE Several(Within(low, high, low + ToEven(wanted - low, step) * step))

\* _resolve_plan_selection: traffic without a limit is for devices without one.
Resolve(o, mode, count, selected) ==
  LET gb == IF o.traffic = "unlimited" THEN NoLimit
            ELSE IF o.traffic = "fixed" THEN o.gb.usual
            ELSE NormalTraffic(o, selected)
      wanted == IF gb = NoLimit THEN "unlimited" ELSE mode
      explicit == o.pricing = "fixed" /\ o.priced
      devices == IF \/ o.devices = "fixed" /\ o.dev.usual = 1
                    \/ o.devices # "unlimited" /\ explicit /\ wanted = "single" THEN Single
                 ELSE IF o.devices = "unlimited" \/ (explicit /\ wanted = "unlimited") THEN Unmetered
                 ELSE NormalDevices(o, wanted, count)
  IN [gb |-> gb, mode |-> devices.mode, count |-> devices.count]

\* calculate_plan_monthly_price.
MonthlyPrice(o, gb, mode, count) ==
  LET base == OrElse(o.base, OrElse(o.single, rules.base))
      gbSteps == Max({0, gb - OrElse(o.gb.usual, OrElse(o.gb.low, gb))})
                   \div OrElse(o.gb.step, rules.gbStep)
      traffic == IF gb # NoLimit /\ o.traffic = "constructor"
                   THEN gbSteps * OrElse(o.gb.price, rules.gbPrice) ELSE 0
      more == Max({0, count - OrElse(o.dev.usual, OrElse(o.dev.low, 1))}) \div OrElse(o.dev.step, 1)
      surcharge == IF o.priced THEN o.surcharge
                   ELSE IF gb # NoLimit THEN rules.unlimitedDevices
                   ELSE rules.combo - rules.base
      devices == IF o.devices = "constructor" /\ mode = "custom"
                   THEN more * OrElse(o.dev.price, rules.devicePrice)
                 ELSE IF mode = "unlimited" THEN surcharge ELSE 0
      explicit == o.pricing = "fixed" /\ o.priced
  IN IF explicit /\ mode = "single" THEN o.single
     ELSE IF explicit /\ mode = "unlimited" THEN o.single + o.surcharge
     ELSE base + traffic + devices

\* discount_percent: 2.5% for each month after the first, up to the rules' most.
Discount(months) == Min({25 * (months - 1), rules.maxDiscount})

\* A mutant: the first period that is long enough, or the first of all.
PeriodLongEnough(o, months) ==
  LET enough == {m \in o.periods : m >= months}
  IN IF enough # {} THEN Min(enough) ELSE Min(o.periods)

\* The period of the plan that is nearest to the months asked for, the shorter
\* of two.
Period(o, months) ==
  LET asked == Within(1, Max(o.periods), months)
      Far(m) == IF m > asked THEN m - asked ELSE asked - m
  IN CHOOSE m \in o.periods : \A n \in o.periods \ {m} : Far(m) < Far(n) \/ (Far(m) = Far(n) /\ m < n)

\* calculate_tariff_basket without the balance.
Basket(code, mode, count, months, selected) ==
  LET o == OptionOf(code)
      period == Period(o, months)
      what == Resolve(o, mode, count, selected)
      monthly == MonthlyPrice(o, what.gb, what.mode, what.count)
  IN [months |-> period, gb |-> what.gb, mode |-> what.mode, count |-> what.count,
      discount |-> Discount(period),
      total |-> HalfUp(monthly * period * (1000 - Discount(period)), 1000)]

\* quote_device_topup: fixed, or the rest of the period at the price of a
\* device, rounded up to a rouble.
DevicePrice(code, daysLeft, daysInCycle) ==
  LET own == IF code = RowCode /\ tariff # NoRow THEN tariff.row.dev.price ELSE 0
      rest == OrElse(own, rules.devicePrice) * daysLeft
  IN IF upsell.mode = "fixed" THEN upsell.fixed
     ELSE Rouble * ((rest + daysInCycle * Rouble - 1) \div (daysInCycle * Rouble))

ConsoleNext ==
  \/ \E r \in RuleBook : SaveRules(r)
  \/ \E r \in TariffRows, k \in Ticks : CreateTariff(r, k) \/ UpdateTariff(r, k)
  \/ ArchiveTariff \/ ReactivateTariff
  \/ \E p \in Packs : SavePack(p)
  \/ TogglePack \/ DeletePack
  \/ \E u \in Upsells : SaveUpsell(u)
=============================================================================
