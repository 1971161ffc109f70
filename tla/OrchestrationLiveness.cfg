CONSTANTS
  i1 = i1
  i2 = i2
  Items <- MCItems
  Tier2 <- MCTier2
  Tier3 <- MCNoTier3
  Concurrency = 1
  MaxTurns = 2
  MaxHandoffs = 0
  MaxCalls = 2
  MaxAsks = 1
  MaxCrashes = 1
SPECIFICATION FairSpec
PROPERTY EverythingEnds
CHECK_DEADLOCK FALSE
