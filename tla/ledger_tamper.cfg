SPECIFICATION TamperSpec
CONSTANTS
    Thread = {t1}
    Body = {b1, b2}
    Enabled = TRUE
    Required = FALSE
    MaxRetries = 1
    MaxRows = 2
    MaxMined = 3
    MaxRestarts = 0
INVARIANTS
    EditIsDetected
    ConfirmedRewriteIsDetected
