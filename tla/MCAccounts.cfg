SPECIFICATION Spec
CONSTANTS
    t1 = t1
    t2 = t2
    insurance = insurance
    dg = dg
    other = other
    m1 = m1
    m2 = m2
    Task = {t1, t2}
    Slug = {insurance, dg, other}
    Seed = {insurance, dg}
    SeedAt <- ListOfSeeds
    MaxUser = 2
    Email = {m1, m2}
    None = None
    MaxIssued = 4
    MaxFaults = 1
INVARIANTS
    TypeOK
    CredentialsStay
    OneSetup
PROPERTIES
    BootCompletes
CHECK_DEADLOCK FALSE
