CONSTANTS
    p1 = p1
    t1 = t1
    t2 = t2
    sov = sov
    name = name
    zkill = zkill
    Process = {p1}
    Thread = {t1, t2}
    ProcessOf <- MCProcessOf
    Key = {sov, name, zkill}
    Zkill = {zkill}
    TTL <- MCTTL
    Timeout = 1
    MaxCache = 2
    Evict = 1
    Retries = 1
    Floor = 1
    Limit = 3
    Window = 2
SPECIFICATION EsiSpec
SYMMETRY MCSymmetry
INVARIANTS
    EsiTypeOK
    CacheBounded
    ServedFresh
PROPERTY PauseHonoured
