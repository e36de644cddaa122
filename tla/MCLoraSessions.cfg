CONSTANTS
    east = east
    west = west
    hub = hub
    Node = {east, west}
    Broadcast = Broadcast
    None = None
    Garbled = Garbled
    Sends <- TwoInARow
    To <- Pair
    MaxFragments = 1
    MaxRetries = 1
    Backoff = TRUE
    MaxPeers = 1
    Window = 2
    SeqMod = 16
    FirstSeq = 13
    MaxTakes = 8
    MaxSessions = 2
    Encrypted = TRUE
    RadioFails = TRUE
SPECIFICATION Spec
CHECK_DEADLOCK FALSE
INVARIANTS
    AckMeansDelivered
    NonceOnce
PROPERTIES
    InOrderOnce
