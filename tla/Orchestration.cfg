CONSTANTS
  i1 = i1
  i2 = i2
  Items <- MCItems
  Tier2 <- MCTier2
  Tier3 <- MCTier3
  Concurrency = 1
  MaxTurns = 3
  MaxHandoffs = 1
  MaxCalls = 2
  MaxAsks = 1
  MaxCrashes = 2
SPECIFICATION Spec
INVARIANTS ParkedAnswerable PendingIsParked EffectsApproved AbortReachesAll LimiterExact InterruptedTreeClosed
PROPERTY ImplementsLedger
CHECK_DEADLOCK FALSE
