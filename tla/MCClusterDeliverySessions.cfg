CONSTANTS
    s1 = s1  s2 = s2  s3 = s3  c1 = c1  c2 = c2  m1 = m1  m2 = m2
    Server = {s1, s2, s3}
    Conn = {c1, c2}
    HomeOf <- MCHomeOfSame
    Msg = {m1, m2}
    EntryOf <- MCEntryOf
    Faults = {"crash", "redis", "pubsub"}
SPECIFICATION MCSpec
CHECK_DEADLOCK FALSE
INVARIANT SessionsMatchWhenCalm
