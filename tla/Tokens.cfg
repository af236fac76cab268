SPECIFICATION Spec
CONSTANTS
    Conns = {c1, c2}
    Users = {u1, u2}
    NoUser = NoUser
    AccessLife = 1
    RefreshLife = 2
    MaxTime = 2
    MaxFamily = 3
    MaxIssued = 3
    MaxKey = 1
SYMMETRY Symmetry
INVARIANTS
    TypeOK
    RefreshOnce
    NoFalseRevocation
    SessionBacked
PROPERTY FamiliesForward
CHECK_DEADLOCK FALSE
