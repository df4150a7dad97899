INIT BundleInit
NEXT BundleNext
CONSTANTS
    NaWishes <- MCNaWishes
    NaFields = {"a"}
    NaBudget <- MCNaBudget
    NaBurst = 1
    FastCapacity = 1
    NaPressures = {"ok", "slow"}
    MaxRevision = 1
    NrOrder <- MCOrder
    NrInterval <- MCInterval
    GridPaths = 1
    AcServices <- MCAc
    DcService = "no service"
    Aggregate = "no service"
    AggregatePaths = 1
    Batteries <- MCBat
    ServiceTicks = 2
    MissingTicks = 2
    FreshTicks = 2
    TickReserve = 1
    FailTicks = 1
    FailCap = 1
    FailLimit = 2
    HoldTicks = 2
    ProbeTicks = 2
    DormantTicks = 1
    KeepTicks = 1
    MaxSources = 1
    StaleTicks_ = 1
    MaxGeneration = 1
    NrHorizon = 2
    MaxRefresh = 1
    HpPollTicks = 1
    PvTicks = 1
    GridTicks = 1
    BatteryTicks = 1
    ValidationTicks = 2
    TopologyTicks = 1
    BeatTicks = 1
    RetryGap = 1
    MaxInputAge = 1
    BackupAge = 1
    KeepAge = 1
    HpPolicies = {"gateway_preferred"}
    HpOffers <- MCOffers
    HpViews <- MCViews
    NsCount = 2
    UseCombined = TRUE
    NsSelectedPv = 0
    NsInterval = 1
    NsBackoffBase = 1
    NsBackoffMax = 1
    NsKeep = 1
    Failover = 2
    Recover = 1
    Mismatches = 1
    PrimaryAge = 1
    GatewayAge = 1
    HoldAge = 0
    Tolerance = 1
    ConnectorsOf <- MCConn
    PartsOf <- MCParts
    PhysicalOf <- MCPhysical
    PriorityOf <- MCPriority
    IdOf <- MCIds
    NsAnswers <- MCAnswers
    NsGateways <- MCGateways
    Kinds_ = {"group", "native"}
    GroupSize = 2
    HalfAmps = {13}
    LowestSetting = 6
    HighestSetting = 32
    DefaultSetting = 6
    SoftFail = 0
    Delays <- MCDelays
    DoublingCap = 0
    ChargerRetry = 1
    StaleAfter = 0
    Nothing = Nothing
CONSTRAINT NotCrossed
INVARIANTS
    AdaptersInv
    WaitingIsUnderWay
    FreshIsAnswered
    CommandLands
CHECK_DEADLOCK FALSE
