SPECIFICATION FairSpec
CONSTANTS
    SeqValues = 2
    ReliableCap = 2
    MaxRetries = 1
    DisconnectSends = 2
    MaxPackets = 2
    MaxStale = 1
PROPERTIES ReliableDelivery BothEndsLetGo
CHECK_DEADLOCK FALSE
