CONSTANTS
    Worker = {w1, w2}
    Nobody = Nobody
    Interval = 1
    BusyTimeout = 0
    PageSize = 1
    MaxPages = 2
    Overlap = 1
    MinWindow = 1
    MaxWindow = 3
    Late = 1
    Delayed = {2}
    NoCursor = NoCursor
    MaxTime = 5
    MaxKills = 3
SYMMETRY Sym
SPECIFICATION IngestSpec
INVARIANTS
    IngestTypeOK
    CursorBacked
    NoPromptKillLost
