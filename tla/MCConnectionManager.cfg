CONSTANTS
    c1 = c1  c2 = c2  c3 = c3
    u1 = u1  u2 = u2
    Conn <- MCConn
    User <- MCUser
    UserOf <- MCUserOf
    MaxConnections = 1
    MaxPerUser = 1
    Sweeper = Sweeper
SPECIFICATION FairSpec
INVARIANTS
    LimitsAreKept
    NoLeakWhenDrained
PROPERTIES
    RefusalIsJustified
    StaleIsPurged
