SPECIFICATION Spec
CONSTANTS
  p1 = p1
  p2 = p2
  c1 = c1
  c2 = c2
  admin = admin
  NULL = NULL
  Providers = {p1, p2}
  Consumers = {c1}
  Admin = admin
  JobIds = {j1}
  AskIds = {a1}
  StakeIds = {s1}
  Models = {m1}
  MarketModel = m1
  Measurements = {mock}
  MockMeasurements = {mock}
  SeedMeasurements = {mock}
  Quantities = {10}
  UnitPrices = {20}
  Tips = {50}
  Bonds = {1000}
  Capacities = {10}
  Latencies = {0, 2}
  TopUps <- SomeTopUps
  Slas <- TwoSlas
  FeeRates = {200}
  SlashSchedules <- TwoSchedules
  MaxCapacity = 20
  Withdrawals = {100}
  InitialUsdc <- MCUsdc
  Governed = {"pool", "fee", "slash", "sla", "stake", "treasury"}
INVARIANTS CustodyIntact OutcomeFollowsVerdict NothingReportedEarly EscrowFullyDisbursed NoSlashWithoutFault TreasuryBooksBalance
PROPERTIES TerminalIsFinal TermsFixedAtCreation
