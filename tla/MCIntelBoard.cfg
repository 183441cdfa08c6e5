SPECIFICATION IntelSpec
CHECK_DEADLOCK FALSE
CONSTANTS
    Systems = {"J9A-BH", "J9X-1"}
    Primary = {"J9A-BH"}
    Border = {"J9A-BH"}
    Prefixed <- MCPrefixed
    Messages <- MCMessages
    Chars = {"ann", "bob"}
    ExpireOptions = {1, 2}
    DefaultExpire = 2
    Tick = 2
    MaxAge = 1
    MaxTime = 3
    MaxPastes = 3
INVARIANTS
    BoardIsNewest
    NoticeOnce
    RingsFresh
    AskedOnce
