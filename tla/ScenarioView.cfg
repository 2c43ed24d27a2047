SPECIFICATION Spec
CONSTANTS
    v1 = v1
    v2 = v2
    None = None
    Variants = {v1, v2}
    MaxSelects = 2
    MaxSubmits = 2
    MaxBacks = 1
    MaxFailures = 1
CHECK_DEADLOCK FALSE
INVARIANT ShownIsSelected
INVARIANT FreshAfterSubmit
PROPERTY SettlesAlone
