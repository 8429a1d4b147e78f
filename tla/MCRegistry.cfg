CONSTANTS
    t1 = t1
    Tenants = {t1}
    Domains = {d1}
    Ids = {i1}
    Emails = {e1}
    DomainOf <- MCDomainOf
    Nil = Nil
    Keep = Keep
    Free = Free
    Initial <- MCInitial
    MaxRev = 4
    Operators = {o1}
    SignIns = {s1, s2}
SPECIFICATION RegistrySpec
INVARIANT NoLostUpdate
PROPERTIES LedgerSpec AuditNamesChange TxEnds
