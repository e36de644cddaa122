SPECIFICATION FairSpec
CONSTANTS
    Images = {factory, a, b}
    Factory = factory
    NoImage = NoImage
    NSectors = 2
    MaxAttempts = 1
    SeqHalf = 2
INVARIANTS
    NothingLost
    LaunchIsWhole
PROPERTIES
    RecordsAdvance
    ImplementsTwoSlotUpdate
    Launches
