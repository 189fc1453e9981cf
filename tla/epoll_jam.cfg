CONSTANTS
    Clients = {c1, c2}
    NoClient = NoClient
    Fds = {f1, f2}
    NoFd = NoFd
    Listen = Listen
    MaxSockets = 2
    Room = 1
    MaxSaid = 4
SPECIFICATION Spec
CHECK_DEADLOCK FALSE
PROPERTY Delivered
