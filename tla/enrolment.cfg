SPECIFICATION FairSpec
CONSTANTS
    c1 = c1
    r1 = r1
    r2 = r2
    r3 = r3
    x1 = x1
    Codes = {c1}
    Requests = {r1, r2, r3}
    Cancels = {x1}
    AdminKey = AdminKey
    Nobody = Nobody
CHECK_DEADLOCK FALSE
INVARIANTS
    TypeOK
    CodeAndDeviceTogether
    AnswersAreTrue
    EventsAreTrue
PROPERTIES
    CodeIsSingleUse
    EveryRequestEnds
