CONSTANTS
    MaxAccepts = 2
    Kinds = {"plain", "socks"}
    MaxChunks <- UploadChunks
    MaxSockets = 2
    AcceptsPerCycle = 2
    MaxParked = 1
    OutQueue = 2
    Window = 1
    Batch = 1
    OutLimit = 3
    Capacity = 2
    Windowed = TRUE
    Faults = FALSE
SPECIFICATION Spec
CHECK_DEADLOCK FALSE
INVARIANTS
    TypeOK
    InOrder
    NothingHeld
