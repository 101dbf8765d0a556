SPECIFICATION FairSpec
CONSTANTS
  Environments <- MCEnvironments
  Capacity = 6
  Qty = 2
  Threshold = 1
  MaxLives = 2
  MaxFailures = 2
  MaxPosts = 4
INVARIANTS TypeOK PromisesWithinStakes  AbandonedAskIsSpent DiscoveryNamesTendedAsk
PROPERTIES OfferIsRenewed
CHECK_DEADLOCK FALSE
