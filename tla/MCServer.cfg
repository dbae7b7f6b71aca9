SPECIFICATION PartsSpec
CONSTANTS
    c1 = c1  c2 = c2  c3 = c3
    Caller = {c1, c2, c3}
    FailureThreshold = 2
    SuccessThreshold = 2
    Manual = {"reset", "force_open"}
    Handlers = {"h1", "h2"}
    MaxSends = 6
    MaxMessages = 2
    Window = 2
    MaxNow = 3
    Outages = {"redis"}
    Clients = {"p", "q"}
    MaxConnections = 1
    Asked = {"conversations", "attachments", "gdpr"}
    Misfortunes = {"panic", "sickness"}
    Premade = 3
    Ahead = 3
    MaxDay = 8
    Setbacks = {"down", "sql"}
    Nodes = {"w1", "w2", "w3"}
    VirtualNodes = 2
    MaxHash = 5
    ShardCount = 4
    HashOfShard <- MCHashOfShard
    DirectReads = TRUE
    Coordinator = "coordinator"
    MaxCalls = 3
    Texts <- MCTexts
    Refused = {"bad"}
    Overlong = {"long"}
    Processors = {"p1"}
    MaxUrls = 3
    MaxPending = 2
    MaxEnqueues = 2
    MaxRefreshes = 1
    MaxMishaps = 1
CHECK_DEADLOCK FALSE
INVARIANTS
    TransitionsAreNotLost
    QuotaHolds
    ReadyIsEquipped
    RowsHaveAPlace
    FoundIsAnnounced
PROPERTIES
    RecoversAlongDiagram
    SignalEnds
    PreviewsSettle
