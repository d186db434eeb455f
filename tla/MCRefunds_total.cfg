SPECIFICATION Spec
CONSTANTS
    t1 = t1
    t2 = t2
    Task = {t1, t2}
    MaxRefund = 1
    Received = 2
    Faults = FALSE
INVARIANTS
    RefundedTotalAgrees
CHECK_DEADLOCK FALSE
