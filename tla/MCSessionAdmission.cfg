CONSTANTS
    h1 = h1
    h2 = h2
    Handlers = {h1, h2}
    MaxGen = 2
SPECIFICATION Spec
SYMMETRY HandlerSymmetry
CHECK_DEADLOCK FALSE
INVARIANTS
    TypeOK
    StartingIsOwned
    OneSessionPerTerminal
    WaitersCancelled
    ExpirySparesClients
    ShutdownReachesEveryone
    SessionsReachable
PROPERTY LiveSlotKept
