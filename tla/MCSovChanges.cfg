CONSTANTS
    p1 = p1
    p2 = p2
    t1 = t1
    t2 = t2
    t3 = t3
    s1 = s1
    s2 = s2
    ours = ours
    theirs = theirs
    Unknown = Unknown
    Process = {p1, p2}
    Thread = {t1, t2, t3}
    ProcessOf <- MCProcessOf
    System = {s1, s2}
    Alliance = {ours, theirs}
    TTL = 2
    Delay = 1
    SovMax = 2
    MaxWorld = 2
SPECIFICATION SovSpec
SYMMETRY MCSymmetry
INVARIANTS
    SovTypeOK
    LogChained
PROPERTY LogRecent
