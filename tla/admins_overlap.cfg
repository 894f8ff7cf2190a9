SPECIFICATION AdminsSpec
CONSTANTS
  NoAccount = NoAccount
  Clerks = {"c1", "c2"}
  Logins = {"env", "ann"}
  EnvName = "env"
  Words = {"old"}
  EnvWord = "old"
  MaxRequests = 3
INVARIANTS
  SuperadminRemains
CHECK_DEADLOCK FALSE
