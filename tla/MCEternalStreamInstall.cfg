SPECIFICATION Spec
CONSTANTS
    MaxData = 1
    MaxTransports = 3
    Slack = 0
    OldTransportQuiet = TRUE
    InstallMayFail = TRUE
CHECK_DEADLOCK FALSE
INVARIANT RecoveryServable
