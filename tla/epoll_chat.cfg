CONSTANTS
    Clients = {c1, c2, c3, c4}
    NoClient = NoClient
    Fds = {f1, f2, f3}
    NoFd = NoFd
    Listen = Listen
    MaxSockets = 4
    Room = 1
    MaxSaid = 2
SPECIFICATION SafeSpec
SYMMETRY Symmetry
CHECK_DEADLOCK FALSE
INVARIANTS TypeOK ArrayMatchesSockets
PROPERTY AtomicBroadcast
