SPECIFICATION Spec
CONSTANTS
    c1 = c1
    c2 = c2
    a1 = a1
    a2 = a2
    CheckIns = {c1, c2}
    Admins = {a1, a2}
SYMMETRY Slots
INVARIANTS
    TypeOK
    AlarmTellsStatus
    NoticeTellsSwitch
PROPERTIES
    RevokedStaysOut
