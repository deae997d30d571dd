SPECIFICATION Spec
CONSTANTS
    None = None
    o1 = o1
    o2 = o2
    old = old
    new = new
    Operations = {o1}
    Workers = {w1, w2}
    Images = {old, new}
    Keys = {k1}
    Grants <- ReplacedGrants
    Statuses <- RolloutStatuses
    DesiredReplicas = 1
    ObservationAttempts = 2
    MaxVersion = 4
    MaxUid = 2
    IdentityCapacity = 1
    UnfinishedCapacity = 1
CONSTRAINT Scenarios
SYMMETRY WorkerSymmetry
INVARIANTS
    ResultIsTrue
    PatchLandsOnApprovedVersion
    AtMostOneSend
    AcknowledgedIsDurable
PROPERTIES
    FactsAreWrittenOnce
    ImplementsLifecycle
CHECK_DEADLOCK FALSE
