CONSTANTS
    Clients = {c1, c2, c3}
    Few = 2
    NoClient = NoClient
    NoPacket = NoPacket
    Backlog = 2
    Fds = {f1, f2, f3}
    NoFd = NoFd
    Listen = Listen
    Udp = Udp
    MaxPlayers = 2
SPECIFICATION AnySpec
SYMMETRY Symmetry
CHECK_DEADLOCK FALSE
INVARIANTS TypeOK SeatsMatchConnections IdAgreement EventsStayReady MovesKept ReceiveOutstanding PositionsKeptApart
PROPERTY RegistrySafety
