CONSTANTS
    east = east
    west = west
    hub = hub
    Node = {east, west}
    Broadcast = Broadcast
    None = None
    Garbled = Garbled
    Sends <- BothSend
    To <- Pair
    MaxFragments = 1
    MaxRetries = 1
    Backoff = TRUE
    MaxPeers = 2
    Window = 2
    SeqMod = 16
    FirstSeq = 15
    MaxTakes = 8
    MaxSessions = 1
    Encrypted = FALSE
    RadioFails = FALSE
SPECIFICATION FairSpec
CHECK_DEADLOCK FALSE
INVARIANTS
    LinkListens
PROPERTIES
    SendEnds
    ListensAgain
