SPECIFICATION FairSpec
CONSTANTS
    r1 = r1
    r2 = r2
    multi = multi
    spy = spy
    v1 = v1
    v2 = v2
    c1 = c1
    c2 = c2
    Runs = {r1}
    Assets = {multi, spy}
    RetryAsset = spy
    Imported <- SpyImported
    Variants = {v1, v2}
    Covers <- MCCovers
    Expected <- SpyExpected
    Clients = {c1}
    MaxRequests = 3
    MaxFaults = 0

CHECK_DEADLOCK FALSE
PROPERTY RequestsSettle
