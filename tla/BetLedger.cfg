SPECIFICATION Spec
CONSTANTS
    r1 = r1
    r2 = r2
    c1 = c1
    c2 = c2
    NoWallet = NoWallet
    Runs = {r1, r2}
    Amounts = {1, 2}
    Returns <- LossesAndGains
    InitialBalance = 4
    MaxOpenBets = 2
    MaxOpenExposure = 3
    Adjustments <- SomeAdjustments
    Resets = {2}
    Clients = {c1, c2}
    MaxRequests = 5
SYMMETRY Swaps
CHECK_DEADLOCK FALSE
INVARIANT TypeOK
INVARIANT MoneyConserved
INVARIANT StakesAreDebited
INVARIANT OnceAlone
PROPERTY OpensAreAllowed
