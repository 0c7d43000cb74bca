SPECIFICATION FairSpec
CONSTANTS
    MaxJoins = 3
    MaxPeers = 2
    Modes = {m1}
    Capabilities = {2}
    MaxNodes = 4
    NetMaxPlayers = 2
    ReliableCap = 2
    DisconnectSends = 2
    None = None
INVARIANTS DrainingHearsOnlyDisconnect StrangersDisturbNobody
PROPERTIES DrainingPeersLeave EmptyGameEnds Lifecycle
