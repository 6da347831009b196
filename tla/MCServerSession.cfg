CONSTANTS
    h1 = h1
    h2 = h2
    Handlers = {h1, h2}
    NFlow = 2
    NSent = 2
    MaxRecoveries = 2
    MaxLosses = 1
    BackToBack = FALSE
SPECIFICATION Spec
SYMMETRY HandlerSymmetry
CHECK_DEADLOCK FALSE
INVARIANTS
    TypeOK
    SingleFlight
    OutputKept
    SnapshotStaysCurrent
    EndMeansDelivered
    OnlyFailedTransportsDropped
    ShutdownIsFinal
    RetiredIsUnreachable
    SentOnce
PROPERTY HeldPacketsKept
