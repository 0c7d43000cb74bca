SPECIFICATION ListenerSpec
CONSTANTS
    Sessions = {s1}
    Listeners = {l1}
    Addresses = {a1}
    MaxPlayers = 2
    OutboxCapacity = 1
    MaxLives = 2
    MaxIds = 3
    MaxFrames = 1
INVARIANTS BindingsAgree LifetimesDoNotOverlap PriorTerminalFirst OwedInOrder NoLostWakeup
PROPERTY DrainsEnd
CHECK_DEADLOCK FALSE
