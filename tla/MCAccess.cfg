INIT AccessInit
NEXT AccessNext
CHECK_DEADLOCK FALSE
CONSTANTS
    Hooks <- MCHooks
    Boards = {"timers"}
    Reader = "reader"
    Operator = "operator"
    MaxTurns = 2
    MaxAsks = 1
    Passwords = {"right", "half"}
    MaxTyping = 2
    MaxPending = 1
    MaxLoads = 3
    Words = {"right", "half"}
    MaxQueries = 2
    MaxKeys = 2
INVARIANTS
    NothingHalfTyped
    RememberedWorks
    StatusIsCurrent
