SPECIFICATION MCSpec
CONSTANTS
    Alignment = 2
    SizeMax = 1000
    MaxFreeBlocks = 256
    NLeafs = 2
    NNodes = 4
    Sizes = {1, 3}
    MaxGraphs = 2
INVARIANTS AllocatorOK NothingOverwritten InsideBuffer PlanOK
CHECK_DEADLOCK FALSE
