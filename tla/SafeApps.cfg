SPECIFICATION Spec
CONSTANTS
    Ids = {1, 2, 3}
    Dom <- Domains
    Hosts = {"a"}
    Filters = {"all", "cover"}
    Searches = {}
    Servers = {{1, 2, 3}, {2, 3}}
    MaxFavs = 2
    HomeRows = 3
    HomeDepth = 3
    Devices <- ClimateDevices
    Ports = {80, 81}
    Files <- FolderFiles
    Big <- LargeFiles
    NameLength = 3
    WriteTimeout = 4
    Budget = 8
    MaxPieces = 2
    PrintPorts = {80, 81}
    Digits = {0, 1}
    MaxEntry = 0
    MaxNumber = 2
    MaxTape = 1
    PinCount = 2
    Brokers = {"a", "b"}
    Passwords = {"old"}
    RetryAfter = 2
    PingAfter = 2
    Addrs = {1, 2, 3, 4}
    Rssi = {1, 2}
    MaxDevices = 3
    MaxResults = 2
    MaxMissed = 2
    FavLists <- Favourites
    Levels = {0, 1, 33, 50, 99, 100}
    Feeds <- FeedDocuments
    MaxHeadlines = 2
    MaxQueue = 2
    FeedDepth = 4
    Texts <- PrintTexts
    Cards <- PrintCards
    Width = 6
    MaxRows = 8
    Margin = 1
    SurfaceRows = 11
    Rasters <- PrintRasters
    Bits = 2
    RowBytes = 4
    MaxRun = 3
    Refill = 1
INVARIANTS HomeAsSeen ServesAsAsked ServerAsShown LeftToRight BrokerAsSet
    RowsMirrorTable FeedAsShown PaperIsPrint
PROPERTIES AppliedAsShown PagesProgress
