CONSTANTS
    Msg = {m1, m2, m3}
    Drainer = {d1}
    Max = 3
SPECIFICATION Spec
CHECK_DEADLOCK FALSE
INVARIANT NothingLost
