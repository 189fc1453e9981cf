CONSTANTS
    Clients = {c1, c2}
    NoClient = NoClient
    Fds = {f1, f2}
    NoFd = NoFd
    MaxClient = 2
    Room = 1
    MaxSay = 2
    Backlog = 1
SPECIFICATION Spec
CHECK_DEADLOCK FALSE
PROPERTY Delivered
