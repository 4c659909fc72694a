SPECIFICATION Spec
CONSTANTS
    c1 = c1
    c2 = c2
    c3 = c3
    Calls <- MCCalls
    Amounts = {3, 6, 9}
    Start = 12
    Reserve = 4
    Fee = 1
    MaxEntries = 2
SYMMETRY Symmetric
INVARIANT TypeOK
INVARIANT RowsMatchChain
INVARIANT OnlyOverlapBreaksReserve
PROPERTY PaidAddressIsSpent
