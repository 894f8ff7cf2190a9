-------------------------------- MODULE Shop --------------------------------
(***************************************************************************)
(* The bot's dialogue of a purchase: one message whose keyboard is edited  *)
(* from screen to screen.  A button carries the whole choice made so far,  *)
(* and nothing else is remembered, so a press on a message of some days    *)
(* ago is a press on a screen drawn then; the prices may have changed      *)
(* since.  The bill, its payment apart (module Payments), ends a dialogue, *)
(* and what it sells is what the next renewal starts from.                 *)
(***************************************************************************)
EXTENDS Tariffs

CONSTANTS Sums,   \* round sums a user types, in kopecks
          Cycle      \* days of a traffic cycle

ASSUME SumsAssumption == Sums # {} /\ Sums \subseteq Nat \ {0}
ASSUME CycleAssumption == Cycle \in Nat \ {0}

VARIABLES screen,    \* the message: where it is, its buttons' data, what it says
          service,   \* the user's subscription
          amount     \* the sum of the top-up dialogue (FSM data), 0 before one

shopVars == <<tariffVars, screen, service, amount>>

NoService == [alive |-> FALSE, trial |-> FALSE, code |-> NoLimit, gb |-> NoLimit,
              mode |-> "single", count |-> 0, left |-> 0]

\* Every screen has the same fields; "shown" is what its text says, and "fresh"
\* that nothing it depends on has changed since.
Silent == [kind |-> "none", total |-> 0, months |-> 0, mode |-> "single", count |-> 0, discount |-> 0]
Screen(at, code, mode, count, months, most, early, renewal, shown) ==
  [at |-> at, code |-> code, mode |-> mode, count |-> count, months |-> months, most |-> most,
   early |-> early, renewal |-> renewal, shown |-> shown, fresh |-> TRUE,
   asked |-> Silent, honest |-> FALSE, delivers |-> 0]

Smallest == Min(Packages)
Menu == Screen("menu", Smallest, "single", 0, 1, 1, FALSE, FALSE, Silent)
DevicesScreen(early, renewal) == Screen("devices", Smallest, "single", 0, 1, 1, early, renewal, Silent)
CountScreen(count) ==
  Screen("count", screen.code, "custom", count, 1, 1, screen.early, screen.renewal, Silent)
TrafficScreen(code, mode, count) ==
  Screen("traffic", code, mode, count, 1, 1, screen.early, screen.renewal, Silent)

\* A mutant: the devices are not in the text.
TextWithoutDevices(code, mode, count, months, selected) ==
  LET b == Basket(code, mode, 1, months, selected)
  IN [kind |-> "tariff", total |-> b.total, months |-> months, mode |-> b.mode,
      count |-> b.count, discount |-> b.discount]

\* _render_months_text, of the purchase and of the renewal: the total is that of
\* the basket, the months those asked for.
MonthsText(code, mode, count, months, selected) ==
  LET b == Basket(code, IF code = NoLimit THEN "unlimited" ELSE mode, count, months, selected)
  IN [kind |-> "tariff", total |-> b.total, months |-> months, mode |-> b.mode,
      count |-> b.count, discount |-> b.discount]

MonthsScreen(code, mode, count, months, early, renewal, selected) ==
  Screen("months", code, mode, count, months, rules.maxMonths, early, renewal,
         MonthsText(code, mode, count, months, selected))

ShopInit ==
  /\ TariffsInit
  /\ screen = Menu
  /\ service = NoService
  /\ amount = 0

\* A dialogue is entered by a button of the main menu, which ends that of a top-up.
Show(s) == screen' = s /\ amount' = 0 /\ UNCHANGED <<tariffVars, service>>
At(place) == screen.at = place

-----------------------------------------------------------------------------
(* Choosing.                                                               *)

\* my_vpn, open_new_purchase_flow: the purchase starts anew.
BuyNew == Show(DevicesScreen(FALSE, FALSE))

\* open_tariffs_renew, from the details of a service that is paid for; its text
\* names no traffic.
Renew(early) ==
  /\ service # NoService /\ ~service.trial
  /\ IF service.alive
       THEN Show(MonthsScreen(service.code, service.mode, service.count, 1, early, TRUE, 0))
       ELSE Show(DevicesScreen(early, TRUE))

\* choose_device_mode: the default package of the mode.
ChooseMode(mode) ==
  /\ At("devices") \/ (At("count") /\ mode = "unlimited")
  /\ \/ mode = "custom" /\ Show(CountScreen(2))
     \/ mode = "single" /\ Show(TrafficScreen(Smallest, "single", 1))
     \/ mode = "unlimited" /\ Show(TrafficScreen(NoLimit, "unlimited", 0))

\* choose_device_count, set and confirm.
SetCount(d) ==
  /\ At("count")
  /\ Show(CountScreen(Within(2, MaxDevices, screen.count + d)))

ConfirmCount == At("count") /\ Show(TrafficScreen(Smallest, "custom", screen.count))

\* The package one step down or up from the shown one, as the keyboard has it.
Less(code) == IF code = NoLimit THEN Max(Packages)
              ELSE Max({p \in Packages : p < code} \cup {Smallest})
More(code) == IF code = NoLimit THEN NoLimit
              ELSE Min({p \in Packages : p > code} \cup {Max(Packages)})

\* choose_traffic_package, set: without a limit of traffic there is none of
\* devices, and stepping back does not bring the devices back.
SetTraffic(code) ==
  /\ At("traffic")
  /\ IF code = NoLimit THEN Show(TrafficScreen(code, "unlimited", 0))
     ELSE Show(TrafficScreen(code, screen.mode, screen.count))

\* choose_traffic_package, confirm.
ConfirmTraffic ==
  /\ At("traffic")
  /\ Show(MonthsScreen(screen.code, screen.mode, screen.count, 1, screen.early, screen.renewal,
                       screen.code))

\* back_to_devices: to the details of the service in an early renewal.
BackToDevices ==
  /\ At("traffic") \/ At("months")
  /\ IF screen.early /\ screen.renewal THEN Show(Menu)
     ELSE IF screen.mode = "custom" THEN Show(CountScreen(Within(2, MaxDevices, screen.count)))
     ELSE Show(DevicesScreen(screen.early, screen.renewal))

\* choose_months, set: the button has its number from when the screen was drawn.
SetMonths(d) ==
  /\ At("months")
  /\ LET button == Within(1, screen.most, screen.months + d)
         months == Within(1, rules.maxMonths, button)
     IN Show(MonthsScreen(screen.code, screen.mode, screen.count, months, screen.early,
                          screen.renewal, screen.code))

-----------------------------------------------------------------------------
(* Bills.  A screen that is a bill remembers the text it was asked for on.  *)

Bill(kind, total, months, mode, count, discount, delivers, sold) ==
  /\ screen' = [Screen("bill", sold, "single", 0, 1, 1, FALSE, FALSE,
                       [kind |-> kind, total |-> total, months |-> months, mode |-> mode,
                        count |-> count, discount |-> discount])
                  EXCEPT !.asked = screen.shown, !.honest = screen.fresh, !.delivers = delivers]
  /\ UNCHANGED <<tariffVars, service>>

\* The cart has the discount from a snapshot that rounds it to whole percents.
CartDiscount(d) == HalfUp(d, 10) * 10

\* _normalize_device_count.
AskedCount(mode, count) ==
  IF mode = "single" THEN 1 ELSE IF mode = "custom" THEN Within(2, MaxDevices, count) ELSE 0

\* choose_months, confirm, and create_tariff_invoice: the bill names the months
\* asked for, and its snapshot, which the service is extended by, those of the
\* basket.
ConfirmMonths ==
  /\ At("months")
  /\ screen.renewal => service # NoService
  /\ screen.early => screen.renewal /\ service.alive /\ ~service.trial
  /\ LET months == Within(1, rules.maxMonths, screen.months)
         b == Basket(screen.code, screen.mode, AskedCount(screen.mode, screen.count), months, screen.code)
     IN Bill("tariff", b.total, months, b.mode, b.count, CartDiscount(b.discount), b.months, screen.code)
  /\ UNCHANGED amount

Running == service.alive /\ ~service.trial

\* topup_menu and buy_topup.
OpenPacks ==
  /\ service # NoService /\ ~service.trial /\ service.gb # NoLimit
  /\ pack # NoPack /\ pack.enabled
  /\ Show(Screen("packs", service.code, "single", 0, 1, 1, FALSE, FALSE,
                 [Silent EXCEPT !.kind = "pack", !.total = pack.price]))

BuyPack ==
  /\ At("packs")
  /\ Running /\ service.gb # NoLimit
  /\ pack # NoPack /\ pack.enabled
  /\ Bill("pack", pack.price, 0, "single", 0, 0, 0, service.code)
  /\ UNCHANGED amount

\* mutation: up to the limit, and not one less
OneDeviceTooMany ==
  /\ Running /\ upsell.enabled
  /\ service.mode # "unlimited"
  /\ service.count <= MaxDevices

\* _validate_device_topup_target and quote_device_topup.
DeviceOnOffer ==
  /\ Running /\ upsell.enabled
  /\ service.mode # "unlimited"
  /\ service.count + 1 <= MaxDevices

DeviceQuote ==
  [Silent EXCEPT !.kind = "device", !.total = DevicePrice(service.code, service.left, Cycle),
                 !.mode = "custom", !.count = service.count + 1]

\* show_add_device_preview, and confirm_add_device, which quotes again and
\* refuses to sell for nothing.
PreviewDevice ==
  /\ DeviceOnOffer
  /\ Show(Screen("device", service.code, "custom", service.count, 1, 1, FALSE, FALSE, DeviceQuote))

ConfirmDevice ==
  /\ At("device") /\ DeviceOnOffer
  /\ DeviceQuote.total > 0
  /\ Bill("device", DeviceQuote.total, 0, "custom", service.count + 1, 0, 0, service.code)
  /\ UNCHANGED amount

\* balance_topup_menu, balance_topup_input and the buttons of its keyboard; the
\* typed sum and the one in a button are both at least the minimum of the day.
AmountScreen(a) ==
  Screen("amount", Smallest, "single", 0, 1, 1, FALSE, FALSE,
         [Silent EXCEPT !.kind = "balance", !.total = a])
Ask(a) ==
  /\ screen' = AmountScreen(a)
  /\ amount' = a
  /\ UNCHANGED <<tariffVars, service>>

OpenTopup == Ask(Max({Min(Sums), rules.minTopup}))
TypeAmount(a) == amount > 0 /\ a >= rules.minTopup /\ Ask(a)
StepAmount(a) ==
  /\ At("amount")
  /\ LET wanted == Max({rules.minTopup, a}) IN wanted # amount /\ Ask(wanted)
CancelTopup == At("amount") /\ screen' = Menu /\ amount' = 0 /\ UNCHANGED <<tariffVars, service>>

\* confirm: the sum of the button, raised to the minimum of the day, and
\* create_balance_topup_invoice.
ConfirmAmount ==
  /\ At("amount")
  /\ Bill("balance", Max({rules.minTopup, screen.shown.total}), 0, "single", 0, 0, 0, Smallest)
  /\ amount' = 0

-----------------------------------------------------------------------------
(* What happens around the dialogue.                                       *)

\* The bill is paid and applied (modules Payments and Subscription).
BillIsPaid ==
  /\ At("bill")
  /\ screen' = Menu
  /\ service' =
       IF screen.shown.kind = "tariff"
         THEN [alive |-> TRUE, trial |-> FALSE, code |-> screen.code,
               gb |-> Resolve(OptionOf(screen.code), screen.shown.mode, screen.shown.count, screen.code).gb,
               mode |-> screen.shown.mode, count |-> screen.shown.count, left |-> Cycle]
       ELSE IF screen.shown.kind = "device" /\ service.alive
         THEN [service EXCEPT !.mode = "custom", !.count = screen.shown.count]
       ELSE service
  /\ UNCHANGED <<tariffVars, amount>>

BillIsDropped == At("bill") /\ Show(Menu)

\* take_trial.
TakeTrial ==
  /\ service = NoService
  /\ service' = [NoService EXCEPT !.alive = TRUE, !.trial = TRUE, !.gb = Smallest,
                                  !.count = 1, !.left = 1]
  /\ UNCHANGED <<tariffVars, screen, amount>>

\* What a screen that is out of date said is forgotten, as nothing is compared with
\* it any more, but for the sum in the buttons of a top-up.  A screen without a
\* price stays as it is.
Outdated ==
  IF screen.shown.kind = "none" THEN screen
  ELSE [screen EXCEPT !.fresh = FALSE, !.honest = FALSE, !.asked = Silent,
          !.shown.total = IF At("amount") THEN @ ELSE 0, !.shown.months = 0, !.shown.discount = 0]

\* Days pass, and the service runs out.
DaysPass ==
  /\ service.alive
  /\ service' = IF service.left = 1 THEN [service EXCEPT !.alive = FALSE, !.left = 0]
                ELSE [service EXCEPT !.left = 1]
  /\ screen' = Outdated
  /\ UNCHANGED <<tariffVars, amount>>

PricesChange == ConsoleNext /\ screen' = Outdated /\ UNCHANGED <<service, amount>>

ShopNext ==
  \/ BuyNew
  \/ \E early \in BOOLEAN : Renew(early)
  \/ \E mode \in Modes : ChooseMode(mode)
  \/ \E d \in {-1, 1} : SetCount(d) \/ SetMonths(d)
  \/ ConfirmCount
  \/ \E code \in {Less(screen.code), More(screen.code), NoLimit} : SetTraffic(code)
  \/ ConfirmTraffic \/ BackToDevices \/ ConfirmMonths
  \/ OpenPacks \/ BuyPack
  \/ PreviewDevice \/ ConfirmDevice
  \/ OpenTopup \/ CancelTopup \/ ConfirmAmount
  \/ \E a \in Sums : TypeAmount(a) \/ StepAmount(a)
  \/ BillIsPaid \/ BillIsDropped
  \/ TakeTrial \/ DaysPass \/ PricesChange

ShopSpec == ShopInit /\ [][ShopNext]_shopVars

-----------------------------------------------------------------------------
Texts == [kind : {"none", "tariff", "pack", "device", "balance"}, total : Nat, months : Nat,
          mode : Modes, count : 0..MaxDevices, discount : Nat]

\* Every screen and service is a well-formed one.
ShopTypeOK ==
  /\ rules \in RuleBook
  /\ tariff \in Standings \cup {NoRow}
  /\ pack \in Packs \cup {NoPack} \cup [price : Nat, enabled : BOOLEAN]
  /\ upsell \in Upsells
  /\ screen.at \in {"menu", "devices", "count", "traffic", "months", "packs", "device", "amount", "bill"}
  /\ screen.code \in PackageCodes /\ screen.mode \in Modes /\ screen.count \in 0..MaxDevices
  /\ screen.months \in 1..LongestPeriod /\ screen.most \in 1..LongestPeriod
  /\ screen.shown \in Texts /\ screen.asked \in Texts
  /\ service.code \in PackageCodes /\ service.mode \in Modes /\ service.count \in 0..MaxDevices
  /\ service.left \in 0..Cycle
  /\ amount \in Nat

\* A bill says what the screen it was asked for on said - the sum, the months,
\* the devices - unless something the price depends on changed in between,
\* although it is computed anew from the data of a button and from the user's
\* service as it is by then (purchase.py, choose_months and confirm_add_device).
SoldAsShown ==
  At("bill") /\ screen.honest =>
    /\ screen.shown.kind = screen.asked.kind
    /\ screen.shown.total = screen.asked.total
    /\ screen.shown.months = screen.asked.months
    /\ screen.shown.mode = screen.asked.mode
    /\ screen.shown.count = screen.asked.count

\* Of two choices the one that includes the other never costs less: from the
\* screen of the months, a longer period, and one more device (tariffs.py,
\* calculate_tariff_basket).
MoreNeverCostsLess ==
  At("months") =>
    LET Total(mode, count, months) == Basket(screen.code, mode, count, months, screen.code).total
    IN /\ \A months \in 1..rules.maxMonths :
            Total(screen.mode, screen.count, months) <= Total(screen.mode, screen.count, months + 1)
       /\ Total("single", 1, screen.months) <= Total("custom", 2, screen.months)
       /\ \A n \in 2..(MaxDevices - 1) :
            Total("custom", n, screen.months) <= Total("custom", n + 1, screen.months)

\* The cart and the description of a bill promise "{months} мес."
\* (payment_engine.py, _build_tariff_invoice_payload): the service is extended by
\* as many.  The code does not keep this: the snapshot has the period of the
\* basket.
PromisedMonthsAreDelivered ==
  At("bill") /\ screen.fresh /\ screen.shown.kind = "tariff"
    => screen.delivers = screen.shown.months

\* "Legacy fixed plans keep explicit prices for single/unlimited devices"
\* (tariffs.py, calculate_plan_monthly_price): a month of one device of such a
\* tariff is billed at its price.  The code does not keep this: the modes of a
\* row are never recognised.
FixedPlanKeepsItsPrice ==
  At("bill") /\ screen.honest /\ screen.shown.kind = "tariff" /\ screen.code = RowCode
    /\ tariff # NoRow /\ tariff.row.pricing = "fixed" /\ screen.shown.mode = "single"
    /\ screen.fresh /\ screen.delivers = 1
    => screen.shown.total = tariff.row.single

\* What is sold can be stood by: the bill says what was shown, and more never costs
\* less.
ShopIsHonest == SoldAsShown /\ MoreNeverCostsLess
=============================================================================
