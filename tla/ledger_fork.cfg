SPECIFICATION Spec
CONSTANTS
    Thread = {t1, t2}
    Body = {b1, b2}
    Enabled = TRUE
    Required = TRUE
    MaxRetries = 2
    MaxRows = 2
    MaxMined = 3
    MaxRestarts = 0
INVARIANT NoPreviousHashMismatch
