SPECIFICATION FairSpec
CONSTANTS
    Handler = {h1, h2}
    Registration = {r1, r2}
    Upload = {u1}
    MaxLog = 3
    MaxClock = 1
CHECK_DEADLOCK FALSE
INVARIANTS
    LogForksOnlyByOverlapOrTie
    CompletedIsRecorded
    TwoActiveOnlyByOverlap
PROPERTIES
    ReleaseIsFinal
    ImplementsUploadAnswers
    JobResolves
