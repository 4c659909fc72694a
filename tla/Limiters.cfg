SPECIFICATION LimitersSpec
CONSTANTS
    x1 = x1
    x2 = x2
    b1 = b1
    b2 = b2
    b3 = b3
    Sells <- MCSells
    Buys <- MCBuys
    Prices <- MCPrices
    Cap = 1
    MaxQueue = 2
    MinDelay = 2
    Poll = 1
    SellWait = 4
    BuyWait = 2
    Deadline = 3
    MaxAttempts = 2
    Backoff = 1
    Callers = {1, 2}
    Urls = {"pair", "boosts"}
    Ttl <- MCTtl
    Gap = 2
    DexAttempts = 3
    DexBackoff = 3
CHECK_DEADLOCK FALSE
INVARIANT TypeOK
INVARIANT NoLostWakeup
INVARIANT SlotsAccounted
INVARIANT SellNotHeldByBuys
INVARIANT NeverCrowded
PROPERTY ImplementsLanes
PROPERTY EverySettles
PROPERTY EveryCallSettles
