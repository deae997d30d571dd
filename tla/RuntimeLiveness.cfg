CONSTANTS
    a = a
    b = b
    s1 = s1
    s2 = s2
    s3 = s3
    t1 = t1
    None = None
    Submissions = {s1, s2}
    Reads = {}
    Operations = {a, b}
    Target <- PairTarget
    Conditions <- MCConditions
    ConnectionsMax = 2
    StoppedMax = 1
    Cancellable = {s1}
    MayStop = TRUE
    InitialRows <- AnyJournal
SPECIFICATION ResponsiveSpec
PROPERTIES
    ConnectionsClose
    StopRetires
CHECK_DEADLOCK FALSE
