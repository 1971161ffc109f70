SPECIFICATION Spec
CONSTANTS
  Workers = {"w1", "w2"}
  Files = {"in", "out"}
  Zone = {"in"}
  Passages = {"a", "$&"}
  SearchProvider = "brave"
  SearchUrl = FALSE
  SearchKey = TRUE
  Cap = 1
  MaxCalls = 2
  MaxWrites = 3
INVARIANT EditsExactly
CHECK_DEADLOCK FALSE
