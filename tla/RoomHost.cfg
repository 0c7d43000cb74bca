SPECIFICATION HostSpec
CONSTANTS
    MaxJoins = 3
    MaxPeers = 2
    Modes = {m1}
    Capabilities = {2}
    MaxNodes = 4
    NetMaxPlayers = 2
    ReliableCap = 2
    DisconnectSends = 2
    None = None
    OutboxCapacity = 1
    MaxHostBatch = 67
    GameBurst = 65
INVARIANTS RegistryAgrees RemovalsReachTheBinding BatchIsNoBacklog RemovedAreOwedEverything MemoryIsBounded
