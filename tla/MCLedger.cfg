CONSTANTS
    t1 = t1
    Tenants = {t1, t2}
    Domains = {d1}
    Ids = {i1, i2}
    Emails = {e1, e2}
    DomainOf <- MCDomainOf
    Nil = Nil
    Keep = Keep
    Initial <- MCInitial
    MaxRev = 8
SYMMETRY IdSymmetry
SPECIFICATION LedgerSpec
INVARIANT RegistryConsistent
CHECK_DEADLOCK FALSE
