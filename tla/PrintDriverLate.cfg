SPECIFICATION FairSpec
CONSTANTS
    Printers = {p1}
    Foreign = foreign
    NoPeer = noPeer
    Heights = {2}
    RowsPerRefill = 1
    GateEvery = 2
    ConnectTimeout = 1
    DiscoverTimeout = 1
    PauseMax = 1
    RescanInterval = 0
    LateEvents = TRUE
    MaxChunks = 1
    MaxPages = 1
    MaxPrints = 2
    MaxFull = 1
PROPERTY JobReported
