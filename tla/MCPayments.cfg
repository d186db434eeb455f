SPECIFICATION Spec
CONSTANTS
    MaxPayment = 1
    Total = 2
    MaxMoves = 2
    SyncLimit = 1
    t1 = t1
    t2 = t2
    Task = {t1, t2}
    Via = {"checkout", "bank", "saved"}
    Calls = {"capture", "cancel", "sync"}
    NoPayment = NoPayment
SYMMETRY TaskSymmetry
INVARIANTS
    TypeOK
    NoPhantomOutcome
    NoFalseNotice
    RecordBeforeObject
PROPERTIES SessionLinkKept
CHECK_DEADLOCK FALSE
