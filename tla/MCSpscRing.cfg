CONSTANTS
    Data = {d1, d2}
    Capacity = 3
    NoData = NoData
SPECIFICATION Spec
INVARIANTS
    NoDataRace
PROPERTY ImplementsFifo
