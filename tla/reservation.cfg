SPECIFICATION Spec
CONSTANTS
  p1 = p1
  p2 = p2
  c1 = c1
  c2 = c2
  admin = admin
  NULL = NULL
  Providers = {p1}
  Consumers = {c1}
  Admin = admin
  JobIds = {j1, j2}
  AskIds = {a1}
  StakeIds = {s1}
  Models = {m1}
  MarketModel = m1
  Measurements = {mock}
  MockMeasurements = {mock}
  SeedMeasurements = {mock}
  Quantities = {10}
  UnitPrices = {100}
  Tips = {0}
  Bonds = {1000}
  Capacities = {20}
  Latencies = {0, 2}
  TopUps <- NoTopUps
  Slas <- OneSla
  FeeRates = {30}
  SlashSchedules <- OneSchedule
  MaxCapacity = 20
  Withdrawals = {100}
  InitialUsdc <- MCUsdc
  Governed = {}
INVARIANTS ReservationHeldWhileLive
SYMMETRY JobSymmetry
