CONSTANTS
    s1 = s1  s2 = s2  s3 = s3  c1 = c1  c2 = c2  m1 = m1  m2 = m2
    Server = {s1, s2, s3}
    Conn = {c1, c2}
    Mail = {m1, m2}
    Faults = {"crash", "redis", "pubsub"}
    HomeOf <- MCHomeOf
    EntryOf <- MCEntryOf
    Msg = {1, 2, 3}
    Drainer = {1, 2}
    Max = 2
    Folk = {"a", "b", "c"}
    Routes <- MCRoutes
    Backoff = 2
    Wrap = 4096
    FirstTime = 1000
    LastTime = 1001
    MaxFlips = 2
    Notices = {"n1", "n2", "n3"}
    Servers = {"p1"}
    Edits = {"e1"}
    MaxRows = 2
    MaxBatch = 2
    MaxPerHour = 1
    MaxRetries = 2
    MaxHour = 1
    HoursPerDay = 3
    QuietFrom = 2
    QuietTo = 0
    Woes = {"sql", "backend", "crash"}
SPECIFICATION PartsSpec
CHECK_DEADLOCK FALSE
INVARIANT BackoffIsKept
