CONSTANTS
    a = a
    b = b
    k1 = k1
    k2 = k2
    Runs = {r1, r2, r3, r4}
    Operations = {a, b}
    Keys = {k1, k2}
    Grants <- MCGrants
    Documents <- MCDocuments
    Installed <- FirstDocument
    CanLosePower = TRUE
    None = None
SPECIFICATION Spec
SYMMETRY RunSymmetry
CHECK_DEADLOCK FALSE
INVARIANTS
    OutcomeIsTrue
    ServingIsReachable
    InstalledCatalogueAgrees
PROPERTIES
    SelectionHasOriginalAuthority
