CONSTANTS
    Clients = {c1, c2, c3}
    NoClient = NoClient
    NoPacket = NoPacket
    Backlog = 1
    MaxPlayers = 2
    Languages = {"rs", "cs"}
SPECIFICATION OrderedSpec
CHECK_DEADLOCK FALSE
SYMMETRY Symmetry
INVARIANTS TypeOK AssignedId SeatsBelongToThreads
PROPERTY RegistrySafety
