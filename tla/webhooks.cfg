SPECIFICATION FairSpec
CONSTANTS
    h1 = h1
    e1 = e1
    e2 = e2
    w1 = w1
    w2 = w2
    t1 = t1
    o1 = o1
    Hooks = {h1}
    Events = {e1, e2}
    Wants <- MCWants
    Workers = {w1, w2}
    Tests = {t1}
    Operators = {o1}
    QueueSize = 1
    FailureLimit = 2
    Attempts = 2
    Nothing = Nothing
CHECK_DEADLOCK FALSE
INVARIANTS
    TypeOK
    NoNagging
    CountIsTheRun
    SwitchedOffForCause
PROPERTIES
    QueueDrains
