CONSTANTS
 MaxPids = 2
 Tasks = {"t"}
 MaxStops = 1
 MaxPolls = 1
 MaxCrashes = 1
 Old = {"t1", "t2"}
 MaxDay = 4
 MaxGcs = 2
 Days = 1
 Builds = {"b1", "b2"}
 Nodes = {"n1", "n2"}
 MaxSteps = 4
SPECIFICATION FairSpec
PROPERTIES ServiceKeepsRules ServiceGoesOn SweepsWhatIsOld InstallsWhatStarts
CHECK_DEADLOCK FALSE
