CONSTANTS
    Processes = {p1, p2}
    Rows = {a, b}
    MaxCrashes = 3
    MaxLosses = 1
    None = None
SPECIFICATION FairSpec
CHECK_DEADLOCK FALSE
INVARIANTS
    HistoryIsKept
    PagesAreProtected
PROPERTIES
    ValidationSeesHistory
    FormattedIsServed
