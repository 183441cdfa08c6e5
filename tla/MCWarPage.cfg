SPECIFICATION WarSpec
CHECK_DEADLOCK FALSE
CONSTANTS
    p1 = p1
    p2 = p2
    None = None
    Procs = {p1, p2}
    Ranges = {7, 30}
    FirstRange = 7
    Filters = {"any", "a"}
    AnyKill = "any"
    Sides = {"a"}
    Passwords = {"right"}
    Memo = 2
    MaxRead = 1
    MaxEdits = 2
    MaxLoads = 1
    MaxFeeds = 2
    MaxClicks = 2
INVARIANTS
    ServedRecent
    OwnEditSeen
PROPERTIES
    FeedFollows
