SPECIFICATION Spec
CONSTANTS
    a = a
    b = b
    c = c
    f = f
    g = g
    h = h
    Klasses <- MCKlasses
    Chain <- MCChain
    Selectors <- MCSelectors
    Callee <- MCCallee
    Moves <- MCMoves
    Programs <- MCPrograms
    Definable <- MCDefinable
    MaxVersion = 2
    MaxInstalls = 1
    MaxSlots = 2
    MaxCompiles = 2
    MaxVersions = 1
    PicMax = 2
    MaxDepth = 2
    Hot = {b}
INVARIANTS
    TypeOK
    KeysNameCurrentCode
    InvalidationComplete
    SitesLeadToTheirCode
    RunningCodeKept
    WrongCodeIsLeft
PROPERTIES
    CompiledSendsAreCurrent
    ReplacementKeepsKey
