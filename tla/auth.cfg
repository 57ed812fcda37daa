SPECIFICATION Spec
CONSTANTS
    Call = {c1, c2, c3}
    Token = {t1, t2}
    Worker = {w1, w2}
    Nobody = Nobody
    TokenLife = 1
    RecordLife = 2
    SlowestCall = 1
    MaxClock = 3
SYMMETRY Symmetry
INVARIANTS
    ReplayNeedsAnotherStore
    ProductionReplayNeedsLoss
CHECK_DEADLOCK FALSE
