SPECIFICATION Spec
CONSTANTS
    Players = {0, 1}
    Drones = {}
    BackupTics = 2
    ByteValues = 4
    ExpandLow = 1
    ExpandHigh = 2
    StallTics = 0
    SinglePlayerAhead = 0
    ExtraTics = 1
    DeadlockSpan = 2
    MaxTic = 5
    MaxUpload = 2
    MaxStale = 2
    None = None
INVARIANTS NobodySkipped WindowNeverJams NeverAliased FanoutIsTrue ReplayIsExact AcksHoldTheWindow GapsAreAsked
CHECK_DEADLOCK FALSE
