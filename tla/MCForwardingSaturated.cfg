CONSTANTS
    MaxAccepts = 2
    Kinds = {"plain"}
    MaxChunks <- BothWays
    MaxSockets = 2
    AcceptsPerCycle = 2
    MaxParked = 2
    OutQueue = 3
    Window = 2
    Batch = 1
    OutLimit = 2
    Capacity = 2
    Windowed = TRUE
    Faults = FALSE
SPECIFICATION Spec
CHECK_DEADLOCK FALSE
INVARIANT
    NeverBothStuck
