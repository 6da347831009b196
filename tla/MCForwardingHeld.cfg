CONSTANTS
    MaxAccepts = 1
    Kinds = {"plain"}
    MaxChunks <- LongUpload
    MaxSockets = 2
    AcceptsPerCycle = 2
    MaxParked = 1
    OutQueue = 2
    Window = 1
    Batch = 1
    OutLimit = 3
    Capacity = 3
    Windowed = FALSE
    Faults = FALSE
SPECIFICATION Spec
CHECK_DEADLOCK FALSE
INVARIANT
    InOrder
