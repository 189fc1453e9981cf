CONSTANTS
    Clients = {c1, c2, c3}
    Few = {c1, c2}
    NoClient = NoClient
    NoPacket = NoPacket
    Backlog = 2
    Fds = {f1}
    NoFd = NoFd
    Listen = Listen
    Udp = Udp
    MaxPlayers = 1
    Seats = 2
SPECIFICATION AnySpec
CHECK_DEADLOCK FALSE
PROPERTIES LoginsAnswered SeatsComeBack
