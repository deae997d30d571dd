CONSTANTS
    a = a
    b = b
    s1 = s1
    s2 = s2
    s3 = s3
    t1 = t1
    None = None
    Submissions = {s1, s2, s3}
    Reads = {t1}
    Operations = {a, b}
    Target <- ContendedTarget
    Conditions <- MCConditions
    ConnectionsMax = 2
    StoppedMax = 1
    Cancellable = {s2, s3}
    MayStop = TRUE
    InitialRows <- EmptyJournal
SPECIFICATION Spec
SYMMETRY TwoCallers
CONSTRAINT Scenarios
INVARIANTS
    GuidanceFollowsHistory
    RetiredMeansQuiet
    OneExecution
    DiagnosticIsCurrent
PROPERTY
    RefusalIsDefinite
CHECK_DEADLOCK FALSE
