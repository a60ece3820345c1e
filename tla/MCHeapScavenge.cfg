CONSTANTS
    EdenWords = 4
    SurvivorWords = 2
    OldWords = 9
    OldInitial = 8
    GrowSegment = 3
    CardWords = 5
    MaxChainSkip = 1
    SlotCounts = {1, 2}
    AgeMax = 2
    NRoots = 2
    NCode = 1
    GcStress = FALSE
    GcPrimitives = TRUE
    MaxOps = 4
SPECIFICATION MCSpec
CHECK_DEADLOCK FALSE
INVARIANTS TypeOK RememberedSet RefsValid NoDoubleVisit
PROPERTY ImplementsStore
