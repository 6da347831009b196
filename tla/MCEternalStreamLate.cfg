SPECIFICATION Spec
CONSTANTS
    MaxData = 1
    MaxTransports = 3
    Slack = 0
    OldTransportQuiet = FALSE
    InstallMayFail = FALSE
CHECK_DEADLOCK FALSE
INVARIANT InOrderExactlyOnce
