SPECIFICATION Spec
CONSTANTS
    o1 = o1
    o2 = o2
    a = a
    b = b
    c = c
    None = None
    Operations = {o1, o2}
    Workers = {w1, w2}
    Commits = {a, b, c}
    Ancestry <- Line
    Grants <- ContestedGrants
    Keys = {k1}
    MaxMoves = 1
    IdentityCapacity = 1
    UnfinishedCapacity = 1
SYMMETRY WorkerSymmetry
INVARIANTS
    AcknowledgementIsTrue
    PushLandsAsApproved
PROPERTY
    ImplementsLifecycle
CHECK_DEADLOCK FALSE
