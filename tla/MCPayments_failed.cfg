SPECIFICATION Spec
CONSTANTS
    MaxPayment = 1
    Total = 2
    MaxMoves = 2
    SyncLimit = 1
    t1 = t1
    t2 = t2
    Task = {t1, t2}
    Via = {"saved", "bank"}
    Calls = {"capture", "cancel", "sync"}
    NoPayment = NoPayment
INVARIANTS
    FailedIsNotCharged
CHECK_DEADLOCK FALSE
