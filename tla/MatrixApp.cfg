SPECIFICATION AppSpec
CONSTANTS
    Keys <- PeerKeys
    Backup <- BackupKeys
    Peer = "peer"
    MaxOlm = 2
    MaxSessions = 3
    MaxMsgs = 2
    RoomCount = 2
    Bounds <- ChangesAndViews
    Retain = 4
    Limit = 2
    Backfill = 3
    Lines = 2
    MaxLog = 5
INVARIANTS TypeOK AckedKeysStored PeerSessionOpen
    ListTrue ChatTrue
PROPERTY StaysReadable
