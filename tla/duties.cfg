SPECIFICATION DutiesSpec
CONSTANTS
  c1 = c1
  c2 = c2
  c3 = c3
  c4 = c4
  i1 = i1
  i2 = i2
  i3 = i3
  ghost = ghost
  nobody = nobody
  b1 = b1
  b2 = b2
  newsletter = newsletter
  m1 = m1
  w1 = w1
  w2 = w2
  alice = alice
  nothing = nothing
  Nothing <- nothing
  Messages <- OneMessage
  Workers <- TwoWorkers
  Chats <- OneChat
  Chat <- ChatOf
  MaxAttempts = 3
  BatchSize = 1
  MaxMishaps = 2
  Calls <- FourCalls
  FailureThreshold = 2
  MaxFailures = 4
  Instances <- ThreeInstances
  Ghost <- ghost
  Nobody <- nobody
  MaxEnds = 3
  Senders <- TwoSenders
  Jobs <- OneJob
  Audience = {1, 2, 3}
  Batch = 2
  MaxFaults = 2
  MaxChanges = 2
  o1 = o1
  o2 = o2
  noAccount = noAccount
  Origins <- TwoOrigins
  Limit = 2
  Window = 3
  BlockTime = 1
  MinGap = 1
  Buckets = 1
  BucketLife = 2
  SettingsLife = 2
  MaxEvents = 4
  LastSecond = 5
  MaxUpsets = 1
  Addresses = {"x", "y"}
  Guests = {1, 2}
  FailureLimit = 2
  FailureWindow = 2
  Tracked = 1
  Share = 1
  LastMinute = 4
  MaxKnocks = 5
  NoAccount <- noAccount
  Logins = {"env", "ann"}
  EnvName = "env"
  Words = {"old", "new"}
  EnvWord = "old"
  Clerks <- TwoClerks
  MaxRequests = 3
  Models = {1, 2}
  Codes = {"a", "b"}
  Topics = {"t"}
  MaxFewShot = 1
  Drafters = {1, 2}
  Secrets = {"k", "l"}
  MaxAnswers = 2
  MaxPages = 1
INVARIANTS
  DutiesTypeOK
  BreakerIsCoherent
  OneScheduler
  BroadcastIsAccounted
  EndsAreTrue
  DeliveriesAreCounted
  EntrancesAreLimited
  LostOnlyInARace
  UsageIsHonest
PROPERTIES
  BreakerRecovers
  LeadershipHeals
  DutiesEnd
CHECK_DEADLOCK FALSE
