SPECIFICATION FairSpec
CONSTANTS
  Calls = {"inner", "write"}
  Gated = {"inner", "write"}
  Inside = {"inner"}
  Writes = {"inner", "write"}
  MaxTurns = 2
  MaxMessages = 2
  ChildMessages = 2
  ChildTurns = 2
  MaxRuns = 2
INVARIANTS MessagesInOrder EndsTidily
PROPERTIES RefusalHolds RunsEnd
CHECK_DEADLOCK FALSE
