CONSTANTS
    Fields = {f1, f2}
    f1 = f1
    f2 = f2
    NoFile = NoFile
    NoClient = NoClient
    MaxOrders = 3
    MaxCrashes = 1
SPECIFICATION Spec
INVARIANTS
    IInv
    NewestKept
PROPERTIES
    NeverRevived
    RestartNeverRevives
CHECK_DEADLOCK FALSE
