SPECIFICATION FairSpec
CONSTANTS
    MaxPayment = 1
    Total = 1
    MaxMoves = 2
    SyncLimit = 1
    t1 = t1
    t2 = t2
    Task = {t1, t2}
    Via = {"checkout"}
    Calls = {"sync", "capture"}
    NoPayment = NoPayment
PROPERTIES
    EventuallyMirrors
CHECK_DEADLOCK FALSE
