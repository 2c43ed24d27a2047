SPECIFICATION Spec
CONSTANTS
    spy = spy
    w1 = w1
    w2 = w2
    Symbols <- OneAsset
    RetrySymbols <- OneAsset
    SeedCount = 2
    NumBatches = 2
    Workers = {w1, w2}
    MaxFailures = 2
    MaxRestarts = 1
    MaxRequests = 4
SYMMETRY Swaps
CHECK_DEADLOCK FALSE
INVARIANT TypeOK
INVARIANT FinalizedIsComplete
PROPERTY DecisionsImmutable
INVARIANT CompletedAtIsEarned
