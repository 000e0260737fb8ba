SPECIFICATION Spec
CONSTANTS
    NMax = 2
    Widths = {1, 2}
    NNodes = 1
    NChunks = 1
    MaxGraphs = 3
INVARIANT NobodyElse
CHECK_DEADLOCK FALSE
