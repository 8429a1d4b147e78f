CONSTANTS
    Replicas = {r1, r2}
    Tabs = {t1, t2}
    Browsers = {b}
    Home <- MCHome
    Operators = {o1, o2}
    Versions = {v1, v2}
    Tokens = {k1, k2}
    Nil = Nil
SYMMETRY SessionSymmetry
SPECIFICATION SessionsSpec
INVARIANTS NoMixedIdentity CredentialInForce
PROPERTY EndedStaysEnded
