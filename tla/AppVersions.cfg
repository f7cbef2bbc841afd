SPECIFICATION Spec
CONSTANTS
    Members = {m1}
    Keep = 2
    KeptMax = 1
    SetsKept = 1
    PerApp = 2
    Batch = 1
    MaxNumber = 4
    MaxPublishes = 3
INVARIANTS
    NewestStays
    RateIsHourly
    LiveHasSet
    RollbackTargets
PROPERTIES
    DeletionsShowNothing
    OnlyShownGo
CHECK_DEADLOCK FALSE
