CONSTANTS
    Clients = {c1, c2}
    NoClient = NoClient
    NoPacket = NoPacket
    Backlog = 2
    MaxPlayers = 2
    Languages = {"rs", "cs"}
SPECIFICATION Spec
CHECK_DEADLOCK FALSE
INVARIANT AssignedId
