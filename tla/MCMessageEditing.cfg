SPECIFICATION MCSpec
CONSTANTS
    sender = sender
    u = u  s1 = s1  a1 = a1
    Member = {sender, u}
    SenderConn = {s1, s2}
    AdminConn = {a1}
    Target = {t1}
    MentionSet <- Mentions
    Quota = 2
    Failing = {"store", "route"}
CHECK_DEADLOCK FALSE
INVARIANTS
    RecallReachesMembersOnce
    EventsAreRightOnOneConnection
PROPERTY RecallIsPermanent
