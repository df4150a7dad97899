INIT BundleInit
NEXT BundleNext
CONSTANTS
    AutoMinRuntime = 1
    AutoMinOff = 1
    AutoStartDelay = 1
    AutoStopDelay = 2
    GridMissingStop = 1
    OverrideTicks = 1
    WarmupTicks = 1
    AgeCap = 2
    SampleWindow = 1
    NightLockStop = FALSE
    AllowWithoutSoc = FALSE
    Readings <- MCAutoReadings
    Policy <- MCPolicy
    Sights <- MCSights
    BaseSetpoint = 1
    Deadband = 2
    IntegralLimit = 1
    Levels_ = {1, 2}
    MinUpdate = 1
    LockoutWindow = 2
    LockoutChanges = 2
    LockoutTicks = 1
    CooldownTicks = 1
    ObservationTicks = 2
    MinConfidence = 85
    MinStability = 75
    MinSamples = 1
    RollbackStability = 45
    MaxCount = 1
    ActivationMode = "export_only"
    Unset = Unset
    LpMeters <- MCMeters
    LpPhases = {"L1", "3P"}
    StartDelay = 1
    LearnWindow = 3
    LpMaxAge = 3
    StableSamples = 2
    StableTicks = 2
    MinStableScore = 65
    MinWatts = 5
    MaxAmps = 1
    NominalVolt = 23
    PowerTolerance = 2
    VoltTolerance = 3
    MismatchSessions = 2
    LpNone = LpNone
    ChReadings <- MCChReadings
    ChSoftFail = 1
    DirectMaxAge = 2
    SyncTimeout = 1
    LatchCount = 2
    LatchTicks = 2
    IssueMaxAge = 1
    RetryWindow = 2
    MinAmps = 1
    MaxAmpsAllowed = 3
    ChNone = ChNone
    DaySlots = 6
    LastDay = 8
    MonthEnd = 4
    MonthWindows <- MCWindows
    DaySettings <- MCSettings
    FallbackDays = {0, 1, 2, 3, 4}
    SmDelays = {0, 1, 2, 5}
    LatestEnds = {0, 1, 2, 3}
    Commands_ <- MCCommands
    HasCharger = TRUE
    NeedsPause = TRUE
    QueueMax = 1
    MinInterval = 1
    MaxCommands = 2
    Sites <- MCSites
    RsHorizon = 1
    MaxStarts = 2
    MaxChanges = 2
    SourceCount = 2
    ReadSteps <- MCSteps
    PrimaryGrid = 1
    Payloads <- MCPayloads
    RetryTicks = 1
    GatewayInputs <- MCGatewayInputs
    PollTicks = 1
    BackoffBase = 1
    BackoffMax = 2
    GoodMaxAge = 1
    UseCombinedSoc = TRUE
    PvPolicy = "gateway_preferred"
    PrimaryMaxAge = 1
    FailoverHold = 1
    FailoverSamples = 2
    RecoverySamples = 3
    MismatchSamples = 2
    MismatchWatts = 2
    Absent = Absent
    Batteries = {1, 2}
    Observed <- MCObserved
    NlPeriods <- MCPeriods
    Writable = {1}
    ActiveLevel = 1
    GridLevel = 2
    SocBand = 2
    ResponseScale = 2
    MaxSamples = 2
    NotKnown = NotKnown
    Workers = 2
    Keys = {1, 2}
    Posts <- MCPosts
    TokenSets <- MCTokenSets
    ApiHosts = {"loopback", "remote"}
    HistoryLimit = 1
    MaxRequests = 1
    RateTicks = 1
    CooldownSpan = 1
    RingSize = 1
    RecentLimit = 1
    MaxEvents = 2
INVARIANTS
    ServiceInv
    SetpointRemembered
    AnsweredNotRunAgain
PROPERTIES
    SwitchesEarned
    GridReturnEarned
CHECK_DEADLOCK FALSE
