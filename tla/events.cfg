SPECIFICATION Spec
CONSTANTS
    w1 = w1
    w2 = w2
    c1 = c1
    c2 = c2
    e1 = e1
    e2 = e2
    f1 = f1
    Workers = {w1, w2}
    Clients = {c1}
    Events = {e1, e2}
    Plain = {f1}
    Skipped = {e2}
    QueueSize = 2
    MaxLog = 2
    MaxRepeats = 1
    Stream = Stream
    Nowhere = Nowhere
CHECK_DEADLOCK FALSE
SYMMETRY Symmetry
INVARIANTS
    FramesAreOnRecord
PROPERTIES
    BestEffortBroadcast
