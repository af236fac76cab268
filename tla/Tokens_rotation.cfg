SPECIFICATION Spec
CONSTANTS
    Conns = {c1, c2}
    Users = {u1, u2}
    NoUser = NoUser
    AccessLife = 1
    RefreshLife = 2
    MaxTime = 2
    MaxFamily = 3
    MaxIssued = 3
    MaxKey = 0
SYMMETRY Symmetry
INVARIANT RotatedTokenKnown
CHECK_DEADLOCK FALSE
