SPECIFICATION Spec
CONSTANTS
    keen = keen
    calm = calm
    c1 = c1
    c2 = c2
    Script = Script
    SimAgents = {keen, calm}
    Keen = {keen}
    NumSteps = 5
    MaxHoldSteps = 2
    Seeds = {7, 8}
    Clients = {c1, c2}
    MaxRequests = 3
SYMMETRY Swaps
CHECK_DEADLOCK FALSE
INVARIANT TypeOK
INVARIANT SimulatedHasEveryStep
INVARIANT TradesTakeTurns
INVARIANT CurveIsWhole
PROPERTY PoolReplacesAll
