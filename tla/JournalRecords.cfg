SPECIFICATION Spec
CONSTANTS
    None = None
    DesiredReplicas = 2
    IdentityCapacity = 2
    UnfinishedCapacity = 1
    Id = "id"
    Peers = {p1}
    p1 = p1
    Handles = {h1, h2}
    h1 = h1
    h2 = h2
    Requests <- BothRequests
    Rejections = {"invalid_target"}
    Targets <- SmallTargets
    Outcomes <- SmallOutcomes
    Observations <- SmallObservations
    ReceiptKeys = {"key"}
    Other = Other
    Invalid = Invalid
    Oversized = Oversized
    EditedNumbers <- EditNumbers
    I32Max = 7
    MaxEdits = 1
    MaxLayoutEdits = 1
INVARIANTS
    FinalizedFactsAreSealed
    AdmittedHistoryReopens
    OpenedLayoutIsExact
    LeaseHasAWorker
PROPERTY
    WritesReadBack
SYMMETRY HandleSymmetry
CHECK_DEADLOCK FALSE
