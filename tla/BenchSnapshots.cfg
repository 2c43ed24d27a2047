SPECIFICATION Spec
CONSTANTS
    equal = equal
    top20 = top20
    b1 = b1
    b2 = b2
    c1 = c1
    c2 = c2
    spy = spy
    qqq = qqq
    ProductionTag = ProductionTag
    NoTag = NoTag
    NoMode = NoMode
    Modes = {equal, top20}
    Payloads <- ThresholdPayloads
    BaselineTags = {b1}
    MatchWindow = 2
    Clients = {c1, c2}
    MaxSnapshots = 3
    MaxRequests = 3
CHECK_DEADLOCK FALSE
INVARIANT TypeOK
INVARIANT TagsHaveOneOwner
PROPERTY NothingTakenUnasked
PROPERTY PromotionsImprove
INVARIANT ProductionIsEarned
SYMMETRY Swaps
