SPECIFICATION MCWindowSpec
CONSTANTS
    NCells = 6
    NSeqs = 2
    PosMax = 7
    NUbatch = 2
    NBatch = 7
    Toks = {a}
    a = a
    MaxOps = 5
SYMMETRY AnyToks
PROPERTY PrepareRestores
CHECK_DEADLOCK FALSE
