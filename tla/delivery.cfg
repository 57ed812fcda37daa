SPECIFICATION FairSpec
CONSTANTS
    Upload = {u1, u2}
    Download = {d1, d2}
    Batch = 1
    Attempts = 2
    Fragments = 1
    MaxSenderKeys = 2
INVARIANTS
    ClaimIsExclusive
    OneActiveKey
    NoDowngrade
    FailureIsExplained
PROPERTIES
    UploadCallsEnd
    ImplementsOneTimeKeys
