SPECIFICATION Spec
CONSTANTS
    Players = {0, 1, 2}
    Drones = {}
    BackupTics = 2
    ByteValues = 4
    ExpandLow = 1
    ExpandHigh = 2
    StallTics = 0
    SinglePlayerAhead = 0
    ExtraTics = 1
    DeadlockSpan = 2
    MaxTic = 1
    MaxUpload = 1
    MaxStale = 2
    None = None
INVARIANT SameStream
CHECK_DEADLOCK FALSE
