SPECIFICATION Spec
CONSTANTS
    Workers = {w1, w2}
    Sockets = {s1, s2}
    Users = {u1}
    Slots = {x1, x2}
    NoSocket = NoSocket
    NoId = NoId
    NoSlot = NoSlot
SYMMETRY Symmetry
INVARIANT LoggedInUnderOwnId
CHECK_DEADLOCK FALSE
