SPECIFICATION Spec
CONSTANTS
    None = None
    Beginnings <- MCBeginnings
    Catalogue <- MCCatalogue
    Unknown = "op-z"
    Lines <- MCLines
    ReceiptBytes = {1, 16384}
    ReadFailures = {"AuthorityUnavailable", "StorageUnavailable"}
    MaxExchanges = 3
INVARIANTS
    EveryAnswerIsUsable
    ReportStaysTrue
    ExportIsWhole
CHECK_DEADLOCK FALSE
