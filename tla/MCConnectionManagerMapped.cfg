CONSTANTS
    c1 = c1  c2 = c2  c3 = c3
    u1 = u1  u2 = u2
    Conn <- MCConn
    User <- MCUser
    UserOf <- MCUserOf
    MaxConnections = 2
    MaxPerUser = 2
    Sweeper = Sweeper
SPECIFICATION Spec
INVARIANT OpenConnectionIsMapped
