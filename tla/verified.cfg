SPECIFICATION Spec
CONSTANTS
  r1 = r1
  r2 = r2
  Requests = {r1, r2}
  Clients <- MCClients
  Packages = {"documented", "generic"}
  Configs <- MCConfigs
  MaxAsks = 2
  Stock = 1
  Budget = 1
  OwnsStake = TRUE
  Faulty = TRUE
INVARIANTS VerifiedIsAttested
CHECK_DEADLOCK FALSE
