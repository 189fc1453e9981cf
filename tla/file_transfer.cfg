CONSTANTS
    Clients = {c1}
    NoClient = NoClient
    Names <- OneName
    Contents <- Surprising
    Open <- NoNewline
    Line <- AsSent
    NoFile = NoFile
    Room = 2
    MaxCommands = 3
SPECIFICATION Spec
CHECK_DEADLOCK FALSE
INVARIANTS TypeOK UploadStored Lockstep DownloadExact HangsKnown
PROPERTY Prompted
