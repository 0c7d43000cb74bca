SPECIFICATION WriterSpec
CONSTANTS
    Sessions = {s1, s2}
    Listeners = {}
    Addresses = {a1}
    MaxPlayers = 1
    OutboxCapacity = 1
    MaxLives = 2
    MaxIds = 2
    MaxFrames = 1
PROPERTY LeftSessionsClose
CHECK_DEADLOCK FALSE
