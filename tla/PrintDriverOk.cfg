SPECIFICATION Spec
CONSTANTS
    Printers = {p1}
    Foreign = foreign
    NoPeer = noPeer
    Heights = {3}
    RowsPerRefill = 2
    GateEvery = 2
    ConnectTimeout = 1
    DiscoverTimeout = 1
    PauseMax = 2
    RescanInterval = 1
    LateEvents = FALSE
    MaxChunks = 2
    MaxPages = 2
    MaxPrints = 2
    MaxFull = 1
INVARIANT OkMeansQueued
