SPECIFICATION FairSpec
CONSTANTS
    MaxData = 2
    MaxTransports = 3
    Slack = 0
    OldTransportQuiet = TRUE
    InstallMayFail = FALSE
CHECK_DEADLOCK FALSE
INVARIANTS
    TypeOK
    InOrderExactlyOnce
    SequencesAgree
    RecoveryServable
    WireContinuesReader
PROPERTIES
    ImplementsChannel
    EverythingDelivered
