SPECIFICATION Spec
CONSTANTS
    s1 = s1
    s2 = s2
    t1 = t1
    t2 = t2
    NoTx = NoTx
    Sellers <- MCSellers
    TxIds <- MCTxIds
    InitialBag = 3
    Lifetime = 1
    TTL = 1
    MaxRetries = 2
    Faults = {"unparsed"}
CHECK_DEADLOCK FALSE
INVARIANT UnrecoveredStaysOpen
