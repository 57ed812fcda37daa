SPECIFICATION UploadSpec
CONSTANTS
    User = {u1}
    TotalEpsilon = 4
    ReservedEpsilon = 1
    Cost = 2
    MaxEpochs = 1
    MaxOutages = 1
    MaxStarts = 1
    Required = TRUE
    ScanFailClosed = TRUE
    DpEnabled = TRUE
    ExhaustionPolicy = {"fallback_heuristics"}
    MaxAnalyses = 2
    SoftPercent = 50
    EveryChunks = 1
    Score = {10, 60}
    MaxFragments = 2
    MaxUploads = 2
INVARIANT BlockedIsNotDelivered
CHECK_DEADLOCK FALSE
