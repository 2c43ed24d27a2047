SPECIFICATION Spec
CONSTANTS
    v1 = v1
    v2 = v2
    c1 = c1
    c2 = c2
    Absent = Absent
    Variants = {v1, v2}
    NumBatches = 2
    Clients = {c1, c2}
    MaxRequests = 4
    MaxFailures = 1
SYMMETRY Swaps
CHECK_DEADLOCK FALSE
INVARIANT TypeOK
PROPERTY CompletedIsCurrent
PROPERTY UndoTakesNewest
PROPERTY ScoresAreOfOnePiece
