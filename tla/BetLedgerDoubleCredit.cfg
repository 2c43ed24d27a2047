SPECIFICATION Spec
CONSTANTS
    r1 = r1
    r2 = r2
    c1 = c1
    c2 = c2
    NoWallet = NoWallet
    Runs = {r1}
    Amounts = {2}
    Returns <- FullLossOrGain
    InitialBalance = 3
    MaxOpenBets = 2
    MaxOpenExposure = 4
    Adjustments = {}
    Resets = {}
    Clients = {c1, c2}
    MaxRequests = 3
CHECK_DEADLOCK FALSE
INVARIANT CreditedOnce
