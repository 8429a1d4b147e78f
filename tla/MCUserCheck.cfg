CONSTANTS
    Procs = {p1, p2}
    Nobody = Nobody
    Keys = {k1}
    NumCaches = 3
    Interval = 1
    TTL = 2
    Capacity = 0
    MaxReads = 1
    MaxGen = 4
    MaxTime = 1
    MaxRev = 1
SYMMETRY ProcSymmetry
SPECIFICATION Spec
INVARIANTS FreshnessBound EnrollmentVisible PassedIsReconciled
PROPERTY FailureForcesPurge
CHECK_DEADLOCK FALSE
