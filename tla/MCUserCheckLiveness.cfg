CONSTANTS
    Procs = {p1, p2}
    Nobody = Nobody
    Keys = {k1}
    NumCaches = 3
    Interval = 1
    TTL = 1
    Capacity = 0
    MaxReads = 1
    MaxGen = 4
    MaxTime = 0
    MaxRev = 1
SPECIFICATION Spec
PROPERTY RequestEnds
CHECK_DEADLOCK FALSE
