SPECIFICATION MCSpec
CONSTANTS
    NCells = 3
    NSeqs = 2
    PosMax = 3
    NUbatch = 2
    NBatch = 3
    Toks = {a, b}
    a = a
    b = b
    MaxOps = 5
SYMMETRY AnyToks
INVARIANTS CellsOK AttentionComplete
PROPERTIES RefusedWhenFull PrepareTransparent
CHECK_DEADLOCK FALSE
