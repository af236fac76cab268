SPECIFICATION CalmFairSpec
CONSTANTS
    Workers = {w1}
    Users = {u1}
    Sockets = {s1}
    Packets = {p1}
    NoUser = NoUser
    NoSocket = NoSocket
    NoPacket = NoPacket
    MaxMessages = 1
    MaxIo = 2
PROPERTY FailureClearsFlag
CHECK_DEADLOCK FALSE
