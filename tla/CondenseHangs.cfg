CONSTANTS
 Budget = 3000
 HeaderCosts = {100, 600}
 LineCosts = {3, 60, 400}
 MaxLines = 70
SPECIFICATION FairSpec
PROPERTY Condenses
CHECK_DEADLOCK FALSE
