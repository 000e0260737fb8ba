SPECIFICATION Spec
CONSTANTS
    NMax = 3
    Widths = {1, 2, 3}
    NNodes = 2
    NChunks = 8
    MaxGraphs = 2
INVARIANTS WorkShared PhasesSeparated NobodyElseUntilTorn
PROPERTIES GraphsEnd CallsObeyed
CHECK_DEADLOCK FALSE
