SPECIFICATION MfaSpec
CONSTANTS
    Request = {r1, r2}
    MaxAttempts = 2
    MaxResends = 1
    MaxLogins = 1
    MaxChallenges = 4
INVARIANTS
    LockedIsConsumed
    WrongAnswersBounded
    TokensBounded
    ResendReplaces
    ResendForksBounded
PROPERTY ConsumedForever
CHECK_DEADLOCK FALSE
