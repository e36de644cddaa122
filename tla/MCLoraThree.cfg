CONSTANTS
    east = east
    west = west
    hub = hub
    Node = {east, west, hub}
    Broadcast = Broadcast
    None = None
    Garbled = Garbled
    Sends <- TwoSend
    To <- ToOne
    MaxFragments = 2
    MaxRetries = 1
    Backoff = FALSE
    MaxPeers = 2
    Window = 2
    SeqMod = 16
    FirstSeq = 1
    MaxTakes = 8
    MaxSessions = 1
    Encrypted = TRUE
    RadioFails = FALSE
SYMMETRY TwoSenders
SPECIFICATION Spec
CHECK_DEADLOCK FALSE
INVARIANTS
    WholeMessages
