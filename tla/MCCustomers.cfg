SPECIFICATION Spec
CONSTANTS
    t1 = t1
    t2 = t2
    n1 = n1
    n2 = n2
    k1 = k1
    e1 = e1
    bad = bad
    Task = {t1, t2}
    Tenant = {n1, n2}
    Feeding = {n1}
    Email = {e1, bad}
    Refused = {bad}
    Blank = Blank
    Key = {k1}
    NoKey = NoKey
    None = None
    MaxCustomer = 2
    MaxRows = 2
    MaxFaults = 1
INVARIANTS
    TypeOK
    RepeatsAreSafe
    ReportIsTrue
PROPERTIES
    EveryEmailArrives
CHECK_DEADLOCK FALSE
