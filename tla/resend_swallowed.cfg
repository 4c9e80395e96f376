SPECIFICATION Spec
CONSTANTS
    p1 = p1
    m1 = m1
    m2 = m2
    Passes = {p1}
    Messages = {m1, m2}
    Resends = {m1, m2}
    Undated = {}
    Overlap = 2
    MatchWindow = 1
    Lookback = 2
    Limit = 2
    Retention = 2
    Delay = 0
    Lag = 0
    MaxClock = 4
CHECK_DEADLOCK FALSE
CONSTRAINT PlatformFirst
INVARIANT ResendsKeptApart
