CONSTANTS
    h1 = h1
    h2 = h2
    Handlers = {h1, h2}
    NFlow = 1
    NSent = 0
    MaxRecoveries = 2
    MaxLosses = 1
    BackToBack = TRUE
SPECIFICATION Spec
CHECK_DEADLOCK FALSE
INVARIANT SnapshotStaysCurrent
