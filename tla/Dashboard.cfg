CONSTANTS
  s1 = s1
  s2 = s2
  s3 = s3
  Socks <- MCSocks
  MaxEvents = 2
  MaxDrops = 2
  MaxMounts = 2
SPECIFICATION FairSpec
INVARIANTS FoldsThePrefix NothingMissed LiveMeansFed
PROPERTY CatchesUp
CHECK_DEADLOCK FALSE
