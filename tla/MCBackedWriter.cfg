SPECIFICATION Spec
CONSTANTS
    PacketLens <- MCPacketLens
    MacLen = 1
    MaxBackupBytes = 8
    DisconnectBufferBytes = 5
    MaxRecoveryBackupBytes = 12
    MaxBackupPackets = 3
    MaxDisconnectPackets = 2
    ConnectedBackupBytes = 4
    ConnectedBackupPackets = 2
    SlackPackets = 2
    SlackBytes = 3
    FloorPackets = 1
    MaxSequence = 6
INVARIANTS
    TypeOK
    RecoveryTotalBounded
    DisconnectBufferBounded
    BacklogAccounted
PROPERTIES
    UnacknowledgedYieldOnlyToHardCap
