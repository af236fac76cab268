SPECIFICATION CalmSpec
CONSTANTS
    Workers = {w1, w2}
    Users = {u1}
    Sockets = {s1, s2}
    Packets = {p1, p2}
    NoUser = NoUser
    NoSocket = NoSocket
    NoPacket = NoPacket
    MaxMessages = 3
    MaxIo = 2
INVARIANTS   InFlightIsFront
SYMMETRY Symmetry
CHECK_DEADLOCK FALSE
