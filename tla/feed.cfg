SPECIFICATION FairSpec
CONSTANTS
    m1 = m1
    m2 = m2
    m3 = m3
    r1 = r1
    r2 = r2
    d1 = d1
    d2 = d2
    Messages = {m1, m2, m3}
    Devices = {d1, d2}
    Requests = {r1, r2}
    Batch <- MCBatch
    From <- MCFrom
    Limit = 1
    QueueSize = 2
    Cleared = {d1}
CHECK_DEADLOCK FALSE
INVARIANTS
    TypeOK
    AnnouncedOnce
    NoLostWakeUp
    SkippedOnlyIfOvertaken
PROPERTIES
    UploadsAreAtomic
    UploadsEnd
    PollerCatchesUp
