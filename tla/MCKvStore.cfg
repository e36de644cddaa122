SPECIFICATION Spec
CONSTANTS
    Keys = {k1, k2}
    Vals = {v1}
    NoVal = NoVal
    BankCells = 4
    MaxKeys = 1
    GenHalf = 2
SYMMETRY KvSymmetry
INVARIANTS
    IndexIsReplay
    CleanIsDurable
    AppendIsSafe
    TearIsAtomic
    RecoveryFits
