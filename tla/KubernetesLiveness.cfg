SPECIFICATION FairSpec
CONSTANTS
    None = None
    o1 = o1
    o2 = o2
    old = old
    new = new
    Operations = {o1, o2}
    Workers = {w1}
    Images = {old, new}
    Keys = {k1}
    Grants <- TwoGrants
    Statuses <- AvailableStatus
    DesiredReplicas = 1
    ObservationAttempts = 1
    MaxVersion = 1
    MaxUid = 1
    IdentityCapacity = 1
    UnfinishedCapacity = 1
PROPERTIES
    AdmittedWorkFinishes
CHECK_DEADLOCK FALSE
