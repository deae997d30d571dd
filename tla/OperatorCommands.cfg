SPECIFICATION Spec
CONSTANTS
    None = None
    Keys <- MCKeys
    Limits <- MCLimits
    Processes = {p1, p2}
    GrantPaths = {"g1"}
    Proposals <- MCProposals
    GitProposals <- MCGitProposals
    Signers <- MCSigners
    KeyLists <- MCKeyLists
    ApprovalLists <- MCApprovalLists
    Labels <- MCLabels
    ReceiptKeyIds <- MCReceiptKeyIds
    Receipts <- MCReceipts
    ReceiptTrusts <- MCReceiptTrusts
    Times <- MCTimes
    LimitChoices <- MCLimitChoices
    Versions <- MCVersions
    EditCells <- MCEditCells
    MaxEdits = 1
    MaxCommands = 3
    MaxCommandsEdited = 1
INVARIANTS
    GrantsAreExact
    CatalogueAgreesWithGateway
    InspectionIsExact
    AcceptedInputsMakeInspectableReceipts
    ReportIsTrue
SYMMETRY Interchangeable
CONSTRAINT Separate
CHECK_DEADLOCK FALSE
