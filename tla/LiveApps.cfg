SPECIFICATION Spec
CONSTANTS
    W = 4
    H = 2
    StartLength = 3
    MaxPending = 2
    Levels = {1, 2}
    Interval = 2
    Watchdog = 3
    FxTimeout = 2
    MaxScore = 2
    MaxRefresh = 2
    Colors = {1, 2}
    Base = 4
    Targets = {0, 3, 6, 9}
    MaxFrames = 3
    MaxUnsaved = 1
    Dwell = 3
    NameChars = 2
    Rest = 2
    LevelMax = 2
    FlashEvery = 2
    MaxEdits = 2
    MaxLate = 2
    MaxPrints = 3
    MaxLosses = 2
    Users = {"u1", "u2"}
    Chunk = 1
    MaxRetries = 1
    Worlds = {{"net", "full"}}
    MaxSessions = 1
    MaxMsgs = 2
    MaxChanges = 0
    MaxResets = 1
INVARIANTS RoundCounts StripAsSet NothingLeftOver JobAccounted
PROPERTIES FairCrash DisplayGoesOn PendingEnds QueueDrains
