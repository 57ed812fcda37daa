SPECIFICATION FairSpec
CONSTANTS
    Thread = {t1}
    Body = {b1}
    Enabled = TRUE
    Required = TRUE
    MaxRetries = 3
    MaxRows = 3
    MaxMined = 5
    MaxRestarts = 1
INVARIANTS
    LinearWhenSerial
PROPERTIES
    CallsEnd
    ImplementsTrail
