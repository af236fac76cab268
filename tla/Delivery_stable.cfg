SPECIFICATION StableFairSpec
CONSTANTS
    Workers = {w1, w2, w3}
    Users = {u1}
    Sockets = {s1}
    Packets = {p1, p2, p3}
    NoUser = NoUser
    NoSocket = NoSocket
    NoPacket = NoPacket
    MaxMessages = 3
    MaxIo = 2
 
PROPERTY SlotReleased
CHECK_DEADLOCK FALSE
