SPECIFICATION FairSpec
CONSTANTS
    r1 = r1
    r2 = r2
    multi = multi
    spy = spy
    v1 = v1
    v2 = v2
    c1 = c1
    c2 = c2
    Runs = {r1}
    Assets = {multi, spy}
    RetryAsset = spy
    Imported <- MCImported
    Variants = {v1, v2}
    Covers <- MCCovers
    Expected <- MCExpected
    Clients = {c1}
    MaxRequests = 4
    MaxFaults = 0

CHECK_DEADLOCK FALSE
INVARIANT NoDuplicateJob
PROPERTY FollowsLifecycle
PROPERTY QueueDrains
