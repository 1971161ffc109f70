CONSTANTS
  r1 = r1
  r2 = r2
  r3 = r3
  Readers <- MCReaders
  Streaming <- MCStreaming
  MaxChunks = 2
SPECIFICATION FairSpec
INVARIANTS AbandonedIsTimed TimerMeansNobody
PROPERTIES ImplementsFeed EverybodyServed
CHECK_DEADLOCK FALSE
