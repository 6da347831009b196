CONSTANTS
    MaxAccepts = 1
    Kinds = {"plain", "socks", "stdio"}
    MaxChunks <- UploadChunks
    MaxSockets = 2
    AcceptsPerCycle = 2
    MaxParked = 1
    OutQueue = 3
    Window = 2
    Batch = 2
    OutLimit = 3
    Capacity = 3
    Windowed = TRUE
    Faults = TRUE
SPECIFICATION FairSpec
CHECK_DEADLOCK FALSE
INVARIANTS
    CloseDeliversAll
    CreditConserved
PROPERTIES
    NoOrphanDestination
    EndsTogether
    ParkedSenderResumes
