SPECIFICATION Spec
CONSTANTS
    s1 = s1
    s2 = s2
    t1 = t1
    t2 = t2
    NoTx = NoTx
    Sellers <- MCSellers
    TxIds <- MCTxIds
    InitialBag = 3
    Lifetime = 1
    TTL = 1
    MaxRetries = 2
    Faults = {"crash", "rpc", "unparsed", "throw", "toggle", "operator"}
CHECK_DEADLOCK FALSE
SYMMETRY Symmetric
INVARIANT TypeOK
INVARIANT CreditedAtMostOnce
INVARIANT NoAbandonedTokens
PROPERTY ClosedIsFinal
PROPERTY ImplementsLedger
