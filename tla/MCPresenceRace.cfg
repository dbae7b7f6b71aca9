SPECIFICATION MCSpec
CONSTANTS
    c3 = c3  w2 = w2
    Conn = {c1, c2, c3}
    Watcher = {w2}
    Subscribing = {}
    Opens = 2
    Updates = 0
    Faults = {}
CHECK_DEADLOCK FALSE
INVARIANT OnlineWhileConnected
