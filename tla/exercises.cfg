CONSTANTS
    EchoLines <- MCEchoLines
    CommandLines <- MCCommandLines
    Garbage <- MCGarbage
    Cap = 3
    MaxLines = 3
    NumFields = 3
    Width = 2
    Peers = {p1, p2}
    Server = Server
    Long <- MCLong
    MaxQuestions = 2
    MaxFaults = 1
SPECIFICATION AnySpec
CHECK_DEADLOCK FALSE
INVARIANTS TypeOK EchoIntegrity InStep TerminatorInside FixedExact LinesKept AnswersQuestion ServerOutlives
PROPERTY NobodyWaits
