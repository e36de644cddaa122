CONSTANTS
    Tasks = {a, b}
    Capacity = 2
    Tokens = {t1, t2, t3}
    MaxOpens = 2
    NoToken = NoToken
SPECIFICATION FairSpec
INVARIANTS
    LeaseHolds
    OnePlace
PROPERTY ClosesFinish
