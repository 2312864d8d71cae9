SPECIFICATION FairSpec
CONSTANTS
    DataCount = 3
    NameCount = 2
    MaxFree = 1
    FaultSets <- MCFaultSets
INVARIANTS
    FoundFits
    LoadIsSpread
    DataStateIsLast
PROPERTY EveryServerChecked
CHECK_DEADLOCK FALSE
