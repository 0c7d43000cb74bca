SPECIFICATION FairLockstep
CONSTANTS
    Players = {0}
    Drones = {1}
    BackupTics = 2
    ByteValues = 4
    ExpandLow = 1
    ExpandHigh = 2
    StallTics = 0
    SinglePlayerAhead = 0
    ExtraTics = 1
    DeadlockSpan = 2
    MaxTic = 2
    MaxUpload = 2
    MaxStale = 1
    None = None
    MaxAhead = 0
    MaxLate = 1
    MayLeave = {}
    MaxBatch = 1
    Garbled = Garbled
PROPERTY DroneLossRecovered
CHECK_DEADLOCK FALSE
