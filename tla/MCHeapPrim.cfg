CONSTANTS
    EdenWords = 5
    SurvivorWords = 2
    OldWords = 9
    OldInitial = 2
    GrowSegment = 3
    CardWords = 5
    MaxChainSkip = 1
    SlotCounts = {1, 2}
    AgeMax = 2
    NRoots = 2
    NCode = 0
    GcStress = FALSE
    GcPrimitives = TRUE
    MaxOps = 4
SPECIFICATION MCSpec
CHECK_DEADLOCK FALSE
INVARIANT StallOnlyUnmet
