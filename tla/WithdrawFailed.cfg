SPECIFICATION Spec
CONSTANTS
    c1 = c1
    c2 = c2
    c3 = c3
    Calls <- MCTwoCalls
    Amounts = {3, 6, 9}
    Start = 12
    Reserve = 4
    Fee = 1
    MaxEntries = 2
INVARIANT FailedMeansUnpaid
