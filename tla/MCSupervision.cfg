SPECIFICATION MCFairSpec
CONSTANTS
    a = a  b = b  root = root  sub = sub
    Specs = {a, b}  Sups = {root, sub}  Root = root
    Children <- MCChildren  Strategy <- MCStrategy  Temporary = {a}
    MaxRestarts <- MCMaxRestarts  Window = 1  MaxWorkers = 2
    MaxCalls = 3  MaxCrashes = 2  MaxNow = 2
INVARIANTS TypeOK OwnersAreCurrent NoLeakedWorker DownMeansDown IntensityBounded
PROPERTY CrashIsHandled
CHECK_DEADLOCK FALSE
