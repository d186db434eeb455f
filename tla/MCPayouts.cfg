SPECIFICATION Spec
CONSTANTS
    t1 = t1
    t2 = t2
    k1 = k1
    k2 = k2
    Task = {t1, t2}
    Key = {k1}
    NoKey = NoKey
    MaxPayout = 2
    MaxFaults = 1
INVARIANTS
    TypeOK
    OnePayoutPerKey
PROPERTIES
    Implements
    KeyedIsRecorded
CHECK_DEADLOCK FALSE
