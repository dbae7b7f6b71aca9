SPECIFICATION PartsSpec
CONSTANTS
    c3 = c3  w2 = w2
    Conn = {c1, c2, c3}
    Watcher = {w1, w2}
    Subscribing = {w2}
    Opens = 3
    Updates = 1
    Faults = {"online", "update", "offline", "push", "expiry", "crash", "detached"}
    People = {"a", "b", "c"}
    Blocks = {"b1", "b2"}
    Sends = {"m1", "m2"}
    Forwards = {"m2"}
    Clears = {"c1", "c2"}
    MaxUnblocks = 1
    Upsets = {"sql", "redis", "expiry"}
    Things <- MCThings
    Demands <- MCDemands
    FirstThings <- MCFirstThings
    Artists <- MCArtists
    MaxHitches = 1
    EmojiUploads = {"u1", "u2"}
    EmojiDeletes = {"d1"}
    Packs = {"k1", "k2"}
    PackEdits = {"x1"}
    Shortcodes = {"s1", "s2"}
    Pictures = {"p1"}
    PackNames = {"n1"}
    NoPack = "none"
    Accidents = {"disk", "sql"}
    Uploads = {"u1", "u2"}
    Deletes = {"d1", "d2"}
    Uploaders = {"a", "b"}
    Bytes = {"image", "empty", "vast"}
    Acceptable = {"image", "empty"}
    Images = {"image"}
    Storable = {"image"}
    Breakdowns = {"disk", "thumbnail", "sql", "death"}
CHECK_DEADLOCK FALSE
INVARIANTS
    NeverOvercounted
    GoneIsKnownUsually
    BlockHolds
    RequestsAreHonoured
    EmojisAreSound
    RowsAndFilesAgree
PROPERTY GoneBecomesOffline
