SPECIFICATION BuysSpec
CONSTANTS
    c1 = c1
    c2 = c2
    Calls <- MCCalls
    Mints = {m1, m2}
    TotalSlots = 1
    Sizes = {2, 4}
    DefaultSize = 2
    ProbeMin = 4
    Start = 12
    ReserveShare = 5
    MinReserve = 1
    MaxReserve = 2
    Cushion = 1
    Proceeds = {2}
    MaxParts = 1
    Routes = {"MICIN"}
    Buyers <- MCCalls
    Outcomes <- MCOutcomes
    StreakLimit <- MCStreakLimit
    StreakRows = 2
    DayLimit = 1
    DrawdownLimit = 2
    WorstLoss = 2
    TradingSlots = 1
    MaxCloses = 3
    MaxUnfinished = 1
INVARIANT NeverSilentlyLost
CHECK_DEADLOCK FALSE
