CONSTANTS
    x = x
    y = y
    p1 = p1
    p2 = p2
    r1 = r1
    r2 = r2
    poll1 = poll1
    Alliance = {x, y}
    Corporation = {}
    NoEntity = NoEntity
    NoSide = NoSide
    NoKill = NoKill
    MaxStored = 3
    Process <- MCProcess
    Thread <- MCThread
    ProcessOf <- MCProcessOf
    Poller <- MCPoller
    Base <- MCBase
    Killmail <- AllianceKills
    OldKill <- OldKills
    MaxRows = 1
    MaxBusy = 2
    MaxEdits = 2
SPECIFICATION RosterSpec
INVARIANTS
    LedgerFollowsRoster
