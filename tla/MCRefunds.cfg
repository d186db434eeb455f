SPECIFICATION Spec
CONSTANTS
    t1 = t1
    t2 = t2
    Task = {t1, t2}
    MaxRefund = 2
    Received = 2
    Faults = TRUE
SYMMETRY RequestSymmetry
INVARIANTS
    TypeOK
    TotalIsOfRefunds
    AgreesInTurn
PROPERTIES
    Implements
CHECK_DEADLOCK FALSE
