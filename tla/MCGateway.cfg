INIT BundleInit
NEXT BundleNext
CONSTANTS
    EnsureManual = TRUE
    Targets = {0, 1}
    Existing = {1}
    NormallyClosed = FALSE
    NoFlight = NoFlight
    NoCommand = NoCommand
    MaxRequests = 3
    MaxOutstanding = 2
    MaxCrashes = 1
    Revisions <- MCRevisions
    Ranks <- MCRanks
    Times <- MCTimes
    Values <- MCValues
    Metrics = {"load", "cpu"}
    TimeoutWindow = 3
    DegradedTimeouts = 2
    ProtectiveTimeouts = 2
    DegradedTicks = 2
    ProtectiveTicks = 3
    ResourceHold = 2
    HealthHold = 2
    SnapshotTicks = 1
    BaseBurst = 8
    MinTick = 2
    MaxTick = 10
    SloTenths = 30
    Samples <- MCSamples
    Levels <- MCLevels
    Demands <- MCDemands
    PvMembers = {1, 2}
    ErrorBackoff = 1
    EvidenceTtl = 2
    Retention = 2
    HoldWindow = 2
    MaxObservations = 1
    PvHorizon = 3
    OpWindow = 1
    DegradeAt = 1
    ProtectAbove = 1
    DegradeTicks = 1
    ProtectTicks = 2
    ResourceTicks = 1
    AggregateTicks = 1
    NhSamples <- MCNhSamples
    NhSlo <- MCNhSlo
    NhDemands <- MCNhDemands
    NhOperations = {"read", "optional_read"}
    ShortTick = 20
    LongTick = 100
    Storages = {1, 2}
    Sights <- MCSights
    ConfirmTicks = 1
    MaxAge = 2
    MaxBytes = 3
    CheckTicks_ = 1
    MaxBatch = 1
    MaxBundles = 3
    MaxTime = 5
    MaxRestarts = 1
    MaxRuns = 2
    MaxLive = 2
    Bundles = {1, 2}
    Items = {"code"}
    Sentinels = {"code", "deploy"}
    ConfigKeys = {"Host"}
    CheckTicks = 3
    DeferTicks = 2
    BootTicks = 2
    CeEstimates = {1, 2}
    StableNeeded = 3
    MaxWrites = 3
    RecheckTicks = 2
    RetryRefreshes = 1
    MaxEdits = 2
CONSTRAINT LockKept
INVARIANTS
    GatewayInv
    ConfirmedHolds
    ProtectiveCauseHolds
    ReleasesIntact
PROPERTIES
    RetiredOnlyWhenServed
    GatewaySteps
CHECK_DEADLOCK FALSE
