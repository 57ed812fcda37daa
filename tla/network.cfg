SPECIFICATION Spec
CONSTANTS
    Client = {c1}
    Server = {s1, s2}
    Handler = {h1}
    SeqSpace = 4
    FirstNumber = {0}
    MaxTracked = 1
    BufferCap = 2
    RetransmissionLimit = 0
    GapLimit = 0
    IndicatorLimit = 0
    MinSamples = 1
    MaxBaseline = 11
    MaxPos = 5
    MaxSeen = 3
    MaxBorn = 2
INVARIANTS
    SignalsAreReal
    CaptureIsOfOneFlow
CHECK_DEADLOCK FALSE
