CONSTANTS
    Thread = {main, other}
    NoThread = none
    Enabled = {main}
    Sig = {1,2}
    Actions = {0}
    Interval = 1
    HasCounter = TRUE
    MaxNest = 2
    MaxEvents = 2
    MaxOverflows = 1
SPECIFICATION FairSpec
INVARIANTS NoSignalLost
PROPERTIES SignalsDelivered FiredActionsPerformed AsyncExceptionsRaised
