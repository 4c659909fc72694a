SPECIFICATION ServicesSpec
CONSTANTS
    Entry = 10000
    SolUsd = 20
    StopLoss = 800
    DeepFactor = 2
    DepthFloor = 3000
    TakeProfit = 1500
    Activation = 1000
    TrailDistance = 400
    MinTrail = 300
    RunnerFactor = 2
    RunnerFloor = 400
    FeeDrag = 150
    MinNet = 300
    DrainExit = 35
    DrainPanic = 60
    DumpPart = 20
    DumpPanic = 50
    HardFloor = 4500
    MaxExtension = 1000
    Ticks = {1, 2}
    Observations <- MCObservations
    Extensions = {2600}
    ConfirmTicks = 2
    MaxDefenses = 1
    RetryPrices = {12400}
    MaxTimers = 1
    Advisor = TRUE
    AllowExitNow = TRUE
    CheckEarlyStop = TRUE
    CheckTrailing = TRUE
    Monitors = {1, 2}
    Chats = {"a", "b", "d"}
    LiveChats = {"a", "b"}
    MaxConcurrent = 2
    StagnantChecks = 3
    Deliveries = {1, 2}
    Payloads <- MCPayloads
    Wallets = {"a", "b"}
    Transfers <- MCTransfers
    MaxPushes = 3
    Natures <- MCNatures
    Markets <- MCMarkets
    Reports <- MCReports
    EstablishedAges = {3, 4}
    Attempts = 3
    Penalties = {1}
    RequireDevZero = FALSE
CHECK_DEADLOCK FALSE

INVARIANT AllTypesOK
INVARIANT OneEvaluation
INVARIANT LossBudget
INVARIANT SlotsMatchMonitors
INVARIANT BuysTwiceOnlyAfterTornRebound
INVARIANT RestsAfterTrade
INVARIANT VaultsMatchChain
INVARIANT SafeOnEvidence
INVARIANT CondemnedOnEvidence
PROPERTY HalvesOwed
