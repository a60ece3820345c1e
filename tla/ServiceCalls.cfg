SPECIFICATION Spec
CONSTANTS
    Names = {n1}
    MaxWorkers = 1
    Timeouts = {0}
    MaxSpawns = 2
    MaxCalls = 3
    MaxNow = 2
INVARIANTS
    TypeOK
    EndsOnce
    LiveIsUnsettled
PROPERTIES
    AnsweredNotDead
    AllSettle
