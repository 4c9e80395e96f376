SPECIFICATION FairSpec
CONSTANTS
    d1 = d1
    d2 = d2
    Messages = {1, 2, 3, 4, 5}
    ReceivedAt <- MCReceivedAt
    Device <- MCDevice
    Matching = {1, 2, 3, 4}
    Chunk = 2
INVARIANTS
    TypeOK
    ExportIsComplete
    WalkMissesNothing
PROPERTIES
    EveryReadEnds
