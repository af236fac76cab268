SPECIFICATION StableFairSpec
CONSTANTS
    Workers = {w1, w2}
    Users = {u1}
    Sockets = {s1}
    Packets = {p1, p2}
    NoUser = NoUser
    NoSocket = NoSocket
    NoPacket = NoPacket
    MaxMessages = 2
    MaxIo = 2
PROPERTY DrainPicksUp
CHECK_DEADLOCK FALSE
