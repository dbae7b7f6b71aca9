CONSTANTS
    a1 = a1  a2 = a2  a3 = a3  r1 = r1  r2 = r2
    Attempt = {a1, a2, a3}
    Posted = {a3}
    Recipient = {r1, r2}
    Mentioned = {r1}
    Threaded = TRUE
    Days = 2
    Failing = {"find", "insert", "touch", "route", "count"}
    NoRow = NoRow
    Users = {"a", "b", "c"}
    Asked <- MCAsked
    Creates = {"c1", "c2", "c3"}
    Changed = {"c1"}
    Changes = {"k1", "k2"}
    Erased = {"b"}
    MaxParticipants = 2
    Listed = {1, 2, 3, 4}
    Owner = 1
    Limit = 2
    MicrosPerMilli = 2
    Lag = 1
    MaxTime = 4
    MaxChanges = 2
    Chats = {"k1", "k2"}
    Marks = {"m1", "m2"}
    Beside = {"m1"}
    Incoming = {1, 2}
    Trouble = {"sql", "redis", "expiry"}
    Members = {"u1", "u2"}
    Author = "u1"
    Emojis = {"e1"}
    Toggles = {"t1", "t2", "t3"}
    Fetches = {"f1"}
    Faults = {"toggle", "participants"}
    Sockets = {"s1"}
    Topics = {1, 2, 3}
    Joined = {1, 2}
    MaxSubs = 1
    MaxAsks = 3
SPECIFICATION PartsSpec
CHECK_DEADLOCK FALSE
INVARIANTS
    SentOnce
    SameMessageReturnedInADay
    ConfirmedIsCompleteWhenCalm
    ConversationsAgree
    ListsAreFaithful
    ReadingAddsUp
    ReactionsConverge
    ConfirmedIsDelivered
