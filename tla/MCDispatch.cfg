SPECIFICATION Spec
CONSTANTS
    a = a
    b = b
    c = c
    f = f
    Klasses <- MCKlasses
    Chain <- MCChain
    Selectors <- MCSelectors
    Moves <- MCMoves
    Programs <- MCPrograms
    Definable <- MCDefinable
    Sites = {1, 2}
    Selector <- MCSelector
    PolyMax = 2
    MaxVersion = 2
    MaxInstalls = 2
INVARIANTS
    TypeOK
    CacheCurrent
    StampedCasesCurrent
