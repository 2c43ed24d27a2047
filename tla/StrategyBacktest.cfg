SPECIFICATION Spec
CONSTANTS
    spy = spy
    qqq = qqq
    Symbols <- TwoSymbols
    Bars <- SomeBars
    Horizon = 2
    MinLookback = 0
    NeutralLookback = 2
    Margin = 0
    NeutralMax = 70
    ConvictionMin = 25
    Threshold = 1
    Caps = {1, 2}
    MaxDays = 5
    MaxBars = 9
CHECK_DEADLOCK FALSE
INVARIANT CapIsHeld
INVARIANT StopsBoundLosses
PROPERTY NoLookAhead
