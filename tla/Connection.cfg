SPECIFICATION Spec
CONSTANTS
    SeqValues = 2
    ReliableCap = 2
    MaxRetries = 1
    DisconnectSends = 2
    MaxPackets = 3
    MaxStale = 1
INVARIANTS NothingForgotten
PROPERTIES LanesAreFifos ConnectsOnce
CHECK_DEADLOCK FALSE
