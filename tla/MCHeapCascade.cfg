CONSTANTS
    EdenWords = 3
    SurvivorWords = 3
    OldWords = 9
    OldInitial = 3
    GrowSegment = 3
    CardWords = 2
    MaxChainSkip = 1
    SlotCounts = {2, 5}
    AgeMax = 2
    NRoots = 2
    NCode = 0
    GcStress = FALSE
    GcPrimitives = FALSE
    MaxOps = 4
SPECIFICATION MCFairSpec
CHECK_DEADLOCK FALSE
INVARIANTS Parsable OffsetsResolve GuaranteeHolds
PROPERTY CollectionEnds
