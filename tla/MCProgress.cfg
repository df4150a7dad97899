SPECIFICATION ProgressSpec
CONSTANTS
    Fields = {f1}
    f1 = f1
    NoFile = NoFile
    NoClient = NoClient
    MaxOrders = 2
    MaxCrashes = 1
    Reads = {1, 2}
    CoreReads = {1, 2}
    Members <- MCMembers
    OptionalReads = {1}
    Refresh = "r"
    Commands = {"u", "r", "d", "register_evcs"}
    Priority <- MCPriority
    QueueClass <- MCQueueClass
    Budget <- MCBudget
    WindowTicks = 1
    ReadTicks = 1
    RetryTicks = 2
    SloTicks = 2
    ScanTicks = 1
    StaleTicks = 1
    RestartTicks = 1
    Stretch = 2
    MaxSequence = 1
    NoValue = NoValue
    Commands_ <- MCCommands
    HasCharger = TRUE
    NeedsPause = TRUE
    QueueMax = 1
    MinInterval = 1
    MaxCommands = 2
INVARIANT ProgressInv
PROPERTIES
    FallbackResolved
    ReadsServed
    HungReplaced
    OffRestored
CHECK_DEADLOCK FALSE
