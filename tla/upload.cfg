SPECIFICATION UploadSpec
CONSTANTS
    User = {u1}
    TotalEpsilon = 4
    ReservedEpsilon = 1
    Cost = 2
    MaxEpochs = 1
    MaxOutages = 2
    MaxStarts = 1
    Required = TRUE
    ScanFailClosed = TRUE
    DpEnabled = TRUE
    ExhaustionPolicy = {"fail_closed", "fallback_heuristics"}
    MaxAnalyses = 2
    SoftPercent = 50
    EveryChunks = 1
    Score = {10, 60}
    MaxFragments = 2
    MaxUploads = 2
INVARIANTS
    UploadTypeOK
    DeliveredIsVetted
    MaliciousIsIsolated
    TransferSpendBounded
    ReserveUntouched
    OutageBound
PROPERTY AnswerComesNearer
CHECK_DEADLOCK FALSE
