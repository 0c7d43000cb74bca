SPECIFICATION FairLockstep
CONSTANTS
    Players = {0, 1}
    Drones = {}
    BackupTics = 2
    ByteValues = 4
    ExpandLow = 1
    ExpandHigh = 2
    StallTics = 0
    SinglePlayerAhead = 0
    ExtraTics = 1
    DeadlockSpan = 2
    MaxTic = 2
    MaxUpload = 2
    MaxStale = 1
    None = None
    MaxAhead = 0
    MaxLate = 1
    MayLeave = {0}
    MaxBatch = 1
    Garbled = Garbled
INVARIANTS TicsRunTrue
PROPERTY EveryTicIsRun
CHECK_DEADLOCK FALSE
