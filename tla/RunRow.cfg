SPECIFICATION RowSpec
CONSTANTS
    c1 = c1
    c2 = c2
    Handlers = {c1, c2}
    MaxTime = 2
    Null = Null
SYMMETRY Symmetry
INVARIANT RowTypeOK
INVARIANT AuditConsistent
PROPERTY RowNeverRevived
PROPERTY FreshWritesFollowLifecycle
