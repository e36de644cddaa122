CONSTANTS
    Task = {wifi, bt}
    Bluetooth = bt
    None = None
    Profile = {ble, classic}
    MaxReferences = 2
    MaxDepth = 2
SPECIFICATION HostSpec
INVARIANTS
    StackQuiet
    NoHoldAndWait
    ReferenceIsBacked
    RolledBack
