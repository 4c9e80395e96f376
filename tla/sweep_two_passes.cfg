SPECIFICATION Spec
CONSTANTS
    p1 = p1
    p2 = p2
    m1 = m1
    m2 = m2
    Passes = {p1, p2}
    Messages = {m1, m2}
    Resends = {m1, m2}
    Undated = {m1}
    Overlap = 2
    MatchWindow = 1
    Lookback = 2
    Limit = 1
    Retention = 2
    Delay = 1
    Lag = 1
    MaxClock = 5
CHECK_DEADLOCK FALSE
CONSTRAINT LooksBackFarEnough
SYMMETRY PassSymmetry
INVARIANTS
    TypeOK
    StoredOnce
PROPERTIES
    SkipsNothing
