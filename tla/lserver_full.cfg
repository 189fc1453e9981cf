CONSTANTS
    Clients = {c1, c2}
    NoClient = NoClient
    NoPacket = NoPacket
    Backlog = 2
    Fds = {f1, f2}
    NoFd = NoFd
    Listen = Listen
    Udp = Udp
    MaxPlayers = 1
SPECIFICATION Spec
CHECK_DEADLOCK FALSE
PROPERTY LoginAnswered
