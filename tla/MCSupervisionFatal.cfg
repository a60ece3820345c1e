SPECIFICATION MCSpec
CONSTANTS
    a = a  b = b  root = root  sub = sub
    Specs = {a, b}  Sups = {root}  Root = root
    Children <- MCFlatChildren  Strategy <- MCFlat  Temporary = {}
    MaxRestarts <- MCMaxRestarts  Window = 1  MaxWorkers = 2
    MaxCalls = 3  MaxCrashes = 2  MaxNow = 0
PROPERTY SendsFindTheDead
CHECK_DEADLOCK FALSE
