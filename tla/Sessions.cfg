SPECIFICATION Spec
CONSTANTS
    Workers = {w1, w2}
    Sockets = {s1, s2}
    Users = {u1, u2}
    Slots = {x1, x2}
    NoSocket = NoSocket
    NoId = NoId
    NoSlot = NoSlot
SYMMETRY Symmetry
INVARIANTS
    TypeOK
    MapsAgree
    NoSlotLost
    ClosedIsForgotten
    AuthIsOwn
CHECK_DEADLOCK FALSE
