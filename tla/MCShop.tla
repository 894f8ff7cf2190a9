------------------------------- MODULE MCShop -------------------------------
(***************************************************************************)
(* A small price list for TLC: the rules of the migrations and others with *)
(* a longer period, a smaller discount and a higher minimum; a tariff with *)
(* a price of its own and a gap in its periods; one pack, one sale of      *)
(* devices by the day.                                                     *)
(***************************************************************************)
EXTENDS Shop

CONSTANT nothingSaved

TwoPackages == {250, 300}

UsualRules ==
  [base |-> 13900, gbStep |-> 50, gbPrice |-> 2000, devicePrice |-> 3000,
   unlimitedDevices |-> 10000, combo |-> 29900, maxDiscount |-> 275, maxMonths |-> 2,
   minTopup |-> 5000]
LongerRules ==
  [UsualRules EXCEPT !.base = 15900, !.maxDiscount = 20, !.maxMonths = 3, !.minTopup = 10000]
TwoRules == {UsualRules, LongerRules}

Band(low, usual, high, step, price) ==
  [low |-> low, usual |-> usual, high |-> high, step |-> step, price |-> price]
OneTariff ==
  {[pricing |-> "fixed", traffic |-> "fixed", devices |-> "constructor", base |-> 0,
    single |-> 20000, surcharge |-> 9000, gb |-> Band(0, 300, 0, 0, 0),
    dev |-> Band(1, 1, 3, 1, 4000), periods |-> {1, 3}]}

\* On sale; taken off; archived without being taken off, which the database refuses.
SomeTicks ==
  {[active |-> TRUE, public |-> TRUE, archived |-> FALSE],
   [active |-> FALSE, public |-> FALSE, archived |-> TRUE],
   [active |-> TRUE, public |-> TRUE, archived |-> TRUE]}

OnePack == {[price |-> 5000, enabled |-> TRUE]}
ByTheDay == {[enabled |-> TRUE, mode |-> "prorated", fixed |-> 0]}
=============================================================================
