CONSTANTS
    Jobs = {j1, j2}
    Users = {u1, u2}
    Emails = {e1, e2, e3}
    Sessions = {s1, s2}
    None = None
SYMMETRY BrowserSymmetry
SPECIFICATION BrowserSpec
INVARIANT CompletionTrue
PROPERTY RevocationRecorded
CHECK_DEADLOCK FALSE
