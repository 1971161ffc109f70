CONSTANTS
 Slugs = {"s1", "s2"}
 Projects = {"p"}
 Tasks = {"t1", "t2"}
 MaxUpsets = 1
 Budget = 3000
 HeaderCosts = {100, 600}
 LineCosts = {3, 60, 400}
 MaxLines = 70
 Models = {"m"}
 Facts = {0, 1, 2}
 MaxEdits = 2
 MaxCommands = 2
 Items = {"i1", "i2", "i3"}
 Costs = {0, 36}
SPECIFICATION FairSpec
INVARIANTS OnlyApprovedIsSeen HumansWord DerivedIsTrue
PROPERTIES NothingLost AllEnds
CHECK_DEADLOCK FALSE
