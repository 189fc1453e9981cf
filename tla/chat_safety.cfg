CONSTANTS
    Clients = {c1, c2, c3}
    NoClient = NoClient
    Fds = {f1, f2, f3}
    NoFd = NoFd
    MaxClient = 2
    Room = 1
    MaxSay = 1
    Backlog = 2
SPECIFICATION SafeSpec
SYMMETRY Symmetry
CHECK_DEADLOCK FALSE
INVARIANTS TypeOK TableConsistent
PROPERTY AtomicBroadcast
