SPECIFICATION Spec
CONSTANTS
    MaxJoins = 3
    MaxPeers = 3
    Modes = {m1, m2}
    Capabilities = {2}
    MaxNodes = 4
    NetMaxPlayers = 2
    ReliableCap = 2
    DisconnectSends = 2
    None = None
INVARIANTS TypeOK SlotsAreExclusive LobbyIsClean OneGameMode StartedRoomHasAPlayer
PROPERTIES IndicesAreFrozen
SYMMETRY ModeSymmetry
