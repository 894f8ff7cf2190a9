SPECIFICATION ShopSpec
CONSTANTS
  nothingSaved = nothingSaved
  RuleBook <- TwoRules
  TariffRows <- OneTariff
  NoRow <- nothingSaved
  RowCode = 300
  Ticks <- SomeTicks
  Packages <- TwoPackages
  MaxDevices = 3
  Packs <- OnePack
  NoPack <- nothingSaved
  Upsells <- ByTheDay
  Sums = {5000}
  Cycle = 2
INVARIANTS
  PromisedMonthsAreDelivered
CHECK_DEADLOCK FALSE
