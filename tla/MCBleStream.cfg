CONSTANTS
    None = None
    MaxCounter = 3
    QueueDepth = 2
    AttemptLimit = 2
    MaxSessions = 3
    MaxGenerations = 2
SPECIFICATION Spec
INVARIANTS
    PayloadsStay
    FramesStay
    PendingIsReal
    NoneOutlivesLink
    BackoffHolds
PROPERTIES
    NonceOnce
