SPECIFICATION ReportsSpec
CONSTANTS
    p1 = p1
    p2 = p2
    p3 = p3
    n1 = n1
    n2 = n2
    y1 = y1
    y2 = y2
    m1 = m1
    m2 = m2
    usd = usd
    cad = cad
    Payment = {p1, p2, p3}
    Tenant = {n1, n2}
    AnyTenant = AnyTenant
    Currency = {usd, cad}
    Usd = usd
    Year = {y1, y2}
    Month = {m1, m2}
    Unpaid = {"processing"}
    MaxAmount = 1
SYMMETRY TableSymmetry
INVARIANTS
    ReportsTypeOK
    MonthsAreOfOneCurrency
    MonthsAddUpToHeadline
CHECK_DEADLOCK FALSE
