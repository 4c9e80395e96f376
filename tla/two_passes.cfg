SPECIFICATION Spec
CONSTANTS
    p1 = p1
    p2 = p2
    m1 = m1
    m2 = m2
    Passes = {p1, p2}
    Periodic = {p1}
    Messages = {m1, m2}
    Bad = {m2}
    BatchSize = 2
    MaxCodes = 1
    MaxClock = 1
    Urls = {"tsunagi"}
    BatchAnswers = {"stored", "verdicts"}
CHECK_DEADLOCK FALSE
SYMMETRY PassSymmetry
ACTION_CONSTRAINT OptionSettled
INVARIANTS
    TypeOK
    AckedIsStored
    QuarantineIsJustified
PROPERTIES
    DropsOnlyUnknownDevice
