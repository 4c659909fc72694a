SPECIFICATION Spec
CONSTANTS
    Entry = 10000
    SolUsd = 20
    StopLoss = 800
    DeepFactor = 2
    DepthFloor = 3000
    TakeProfit = 1500
    Activation = 1000
    TrailDistance = 400
    MinTrail = 300
    RunnerFactor = 2
    RunnerFloor = 400
    FeeDrag = 150
    MinNet = 300
    DrainExit = 35
    DrainPanic = 60
    DumpPart = 20
    DumpPanic = 50
    HardFloor = 4500
    MaxExtension = 1000
    Ticks = {1, 2}
    Observations <- MCCrash
    Extensions = {2600}
    ConfirmTicks = 2
    MaxDefenses = 1
    RetryPrices = {12400}
    MaxTimers = 1
    Advisor = TRUE
    AllowExitNow = TRUE
    CheckEarlyStop = TRUE
    CheckTrailing = TRUE
CHECK_DEADLOCK FALSE

INVARIANT HardCrashSellsAll
