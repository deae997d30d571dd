SPECIFICATION FairSpec
CONSTANTS
    o1 = o1
    o2 = o2
    a = a
    b = b
    c = c
    None = None
    Operations = {o1}
    Workers = {w1}
    Commits = {a, b, c}
    Ancestry <- Line
    Grants <- OneGrant
    Keys = {k1}
    MaxMoves = 1
    IdentityCapacity = 2
    UnfinishedCapacity = 2
PROPERTY
    AdmittedWorkFinishes
CHECK_DEADLOCK FALSE
