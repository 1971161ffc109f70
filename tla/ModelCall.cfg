CONSTANTS
  MaxAttempts = 3
  MaxContent = 2
SPECIFICATION FairSpec
INVARIANTS OneVoice BilledIfAnswered Accounted RecordsTrue
PROPERTY AbortSettles
CHECK_DEADLOCK FALSE
