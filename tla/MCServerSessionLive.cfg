CONSTANTS
    h1 = h1
    Handlers = {h1}
    NFlow = 1
    NSent = 1
    MaxRecoveries = 2
    MaxLosses = 1
    BackToBack = FALSE
SPECIFICATION FairSpec
CHECK_DEADLOCK FALSE
PROPERTIES
    RecoverEnds
    DrainEnds
