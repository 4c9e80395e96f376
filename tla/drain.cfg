SPECIFICATION FairSpec
CONSTANTS
    p1 = p1
    p2 = p2
    m1 = m1
    m2 = m2
    Passes = {p1}
    Periodic = {p1}
    Messages = {m1, m2}
    Bad = {m2}
    BatchSize = 2
    MaxCodes = 1
    MaxClock = 1
    Urls = {"tsunagi", "elsewhere"}
    BatchAnswers = {"stored", "verdicts"}
CHECK_DEADLOCK FALSE
ACTION_CONSTRAINT OptionSettled
PROPERTIES
    DrainsQueue
    KeepsUploadPromise
