CONSTANTS
    t1 = t1
    t2 = t2
    Targets = {t1, t2}
    Reliable = {t1}
    NoRetry = NoRetry
    NoTarget = NoTarget
    NoCommand = NoCommand
    MaxWrites = 3
    MaxCrashes = 1
    ClockMaySet = FALSE
    Revisions = {1, 2, 3}
    Values = {v}
    v = v
    Ranks = {1}
    Times = {1, 2}
SPECIFICATION Spec
INVARIANTS
    IInv
    NoRepeatedDispatch
    LatestWriteKept
PROPERTIES
    DeliverySpec
    EventuallyHandled
CHECK_DEADLOCK FALSE
