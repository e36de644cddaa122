CONSTANTS
    Callers = {core0, core1, task}
    UsbUsers = {worker}
    NoOwner = NoOwner
SPECIFICATION FairSpec
INVARIANTS
    OneTransaction
    NoFalseRefusal
    SafeZone
    NothingLeftBehind
PROPERTY CallsReturn
