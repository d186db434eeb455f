SPECIFICATION Spec
CONSTANTS
    t1 = t1
    t2 = t2
    t3 = t3
    p1 = p1
    p2 = p2
    Task = {t1, t2, t3}
    MaxInvoice = 1
    Payment = {p1, p2}
    NoPayment = NoPayment
    MaxFaults = 1
INVARIANTS
    TypeOK
    FileBeforeRow
    InTurnConsistent
    OrphansAreFaults
PROPERTIES
    RemovalCompletes
CHECK_DEADLOCK FALSE
