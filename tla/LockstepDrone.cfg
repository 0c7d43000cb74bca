SPECIFICATION LockstepSpec
CONSTANTS
    Players = {0}
    Drones = {1}
    BackupTics = 3
    ByteValues = 6
    ExpandLow = 2
    ExpandHigh = 3
    StallTics = 1
    SinglePlayerAhead = 0
    ExtraTics = 1
    DeadlockSpan = 2
    MaxTic = 4
    MaxUpload = 2
    MaxStale = 1
    None = None
    MaxAhead = 0
    MaxLate = 1
    MayLeave = {0, 1}
    MaxBatch = 2
    Garbled = Garbled
INVARIANTS NobodyRunsAhead ClientCanResend UploadsFitWindow ClientGapsAreAsked
CHECK_DEADLOCK FALSE
