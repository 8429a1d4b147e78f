CONSTANTS
    Procs = {p1, p2}
    Keys = {k1}
    NumCaches = 1
    TTL = 1
    Capacity = 1
    MaxGen = 2
    MaxTime = 2
    MaxRev = 1
SYMMETRY ProcSymmetry
SPECIFICATION TTLSpec
INVARIANTS NoStale AgeBound
