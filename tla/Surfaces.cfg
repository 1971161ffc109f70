CONSTANTS
 MaxParts = 4
 MaxMessages = 4
 MaxItems = 2
 MaxCosts = 2
 MaxCap = 1
 MaxEvents = 5
 MaxCrashes = 1
 Models = {"m1", "m2"}
 MaxRecords = 2
 MaxTime = 2
 MaxLog = 5
 MaxOlder = 2
 Limit = 2
 Tabs = {"7d", "1d"}
 MaxSeq = 3
 MaxAsks = 3
 MaxPresses = 3
 Names = {"n1", "n2"}
 Prices = {"", "0"}
 MaxActs = 4
 MaxOthers = 1
 MaxLines = 3
 MaxSaid = 1
 Workers = {"w1", "w2"}
 Files = {"in", "out"}
 Zone = {"in"}
 Passages = {"a", "$&"}
 SearchProvider = "brave"
 SearchUrl = FALSE
 SearchKey = TRUE
 Cap = 1
 MaxCalls = 2
 MaxWrites = 3
 Slugs = {"p"}
 Registered <- MCRegistered
 Upstream <- MCUpstream
 Tools <- MCTools
 Price <- MCPrice
 Wanted <- MCWanted
 Default <- MCDefault
 Harnesses <- MCHarnesses
 Uncapped = 9
 MaxTasks = 1
 MaxEdits = 2
 Ceilings = {5, 7}
 MaxRounds = 5
 MaxPasses = 1
 MaxSpent = 8
 MaxOut = 2
 MaxMoves = 2
SPECIFICATION Spec
INVARIANTS SaysWhatWasSaid ShowsWhatIsThere PassesLinesOn EditsWhatIsThere
PROPERTIES DoesWhatItSays StaysInBounds
CHECK_DEADLOCK FALSE
