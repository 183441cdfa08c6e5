SPECIFICATION EntosisSpec
CHECK_DEADLOCK FALSE
CONSTANTS
    fc = fc
    pilot = pilot
    camp = camp
    Nobody = Nobody
    None = None
    Keep = Keep
    Unlinked = Unlinked
    Pages = {fc, pilot}
    Pilots = {fc, pilot}
    Managers = {fc}
    Configured = {fc}
    Campaigns = {camp}
    SystemsOf <- MCSystemsOf
    PrimarySystems = {"W6P-7U"}
    MaxWrites = 2
    MaxCalls = 1
    MaxReplies <- MCMaxReplies
    MaxNews = 1
INVARIANTS
    UnclaimedIsFree
    EveryNodeOnce
PROPERTIES
    BoardsConverge
