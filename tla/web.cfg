SPECIFICATION FairSpec
CONSTANTS
  Chains = {"dry-run", "generic", "distinct", "one-account"}
  NProviders = 2
  NConsumers = 1
  Capacity = 3
  Mint = {2, 4}
  Bond = 500
  Budget = 900
  Qtys = {1, 2}
  Prices = {300, 500}
  Faults = {"None", "SkipAttest", "LateAttest", "WrongOutput"}
  Orders = 2
  Drops = 1
  Modes = {"ws", "mock", "live"}
  MaxCredits = 3
  Replies = 2
INVARIANTS TypeOK OrdersAreBacked BooksBalance FeedMatchesTally OutcomesAreTrue AuditIsSound
PROPERTIES PageCatchesUp
CHECK_DEADLOCK FALSE
