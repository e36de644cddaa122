SPECIFICATION Spec
CONSTANTS
    Keys = {k1}
    Vals = {v1}
    NoVal = NoVal
    BankCells = 4
    MaxKeys = 1
    GenHalf = 2
PROPERTIES
    ImplementsDurableMap
    BankSurvives
    CallsReturn
