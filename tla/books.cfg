SPECIFICATION BooksSpec
CONSTANTS
  m1 = m1
  m2 = m2
  w1 = w1
  alice = alice
  bob = bob
  nothing = nothing
  s1 = s1
  s2 = s2
  r1 = r1
  t1 = t1
  u1 = u1
  u2 = u2
  g1 = g1
  Nothing <- nothing
  Messages <- TwoMessages
  Workers <- OneWorker
  Chats <- TwoChats
  Chat <- ChatOf
  MaxAttempts = 2
  BatchSize = 2
  MaxMishaps = 2
  Sessions <- TwoSessions
  Price = 2
  InitBalance = 4
  Amounts = {1, 2}
  MaxWrites = 2
  MaxResets = 4
  Renewals <- OneRenewal
  Topups <- OneTopup
  ConsolePages <- AllPages
  Base = 1
  MaxTime = 1
  MaxExpire = 2
  MaxFaults = 1
  Flagged <- FlaggedKinds
  Repeating <- WeeklyKind
  TrafficKinds <- LowTraffic
  Expiry = "expired"
  Cooling <- Cooled
  Switchable <- LowTraffic
  Snoozable <- LowTraffic
  MaxPeriods = 1
  MaxLosses = 1
  MaxWeeks = 1
  Promos = {1, 2}
  Codes = {"A"}
  Redeemers <- TwoRedeemers
  PromoPages <- OnePage
  MaxEdits = 1
  n1 = n1
  e1 = e1
  e2 = e2
  Rows = {1, 2}
  Sources = {"a", "b"}
  Names = {"n"}
  NodePages <- OneNodePage
  Threshold = 2
  MaxTurns = 3
  Files = {"page", "env", "geo"}
  Deployers = {1, 2}
  Values = {0, 1}
  Broken = 9
  NoFile = NoFile
  RestartCommand = TRUE
  KeepCount = 1
  LastStamp = 2
  MaxDeploys = 3
  Profiles = {1, 2}
  Marks = {"m"}
  Editors <- TwoEditors
  MaxForms = 3
  nothingSaved = nothingSaved
  RuleBook <- TwoRules
  TariffRows <- OneTariff
  NoRow <- nothingSaved
  RowCode = 300
  Ticks <- SomeTicks
  Packages <- TwoPackages
  MaxDevices = 3
  Packs <- OnePack
  NoPack <- nothingSaved
  Upsells <- ByTheDay
  Sums = {5000}
  Cycle = 2
CONSTRAINT UntilMisread
INVARIANTS
  RecordsTypeOK
  ChargedOnlyForResets
  PaidIsKept
  RepeatedOnlyIfForgotten
  PanelAndRowAgree
  NoticesAreHonest
  RedemptionsAddUp
  SettingsTypeOK
  RegistryIsTrusted
  DeploymentIsSafe
  RoutingHasDefault
  ShopIsHonest
PROPERTIES
  ImplementsDelivery
CHECK_DEADLOCK FALSE
