SPECIFICATION Spec
CONSTANTS
    p1 = p1
    p2 = p2
    m1 = m1
    m2 = m2
    Passes = {p1, p2}
    Periodic = {p1}
    Messages = {m1}
    Bad = {}
    BatchSize = 2
    MaxCodes = 1
    MaxClock = 3
    Urls = {"tsunagi"}
    BatchAnswers = {"verdicts"}
CHECK_DEADLOCK FALSE
SYMMETRY PassSymmetry
ACTION_CONSTRAINTS
    OptionSettled
    ServerSteady
    ResumeBetweenPasses
    SweepsComplete
PROPERTIES
    HeldBackStaysHeld
    PausedSessionIsHeld
