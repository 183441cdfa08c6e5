SPECIFICATION ScannerSpec
CHECK_DEADLOCK FALSE
CONSTANTS
    Keys <- MCKeys
    Lines <- MCLines
    Abouts <- MCAbouts
    Blank = Blank
    Fleet = Fleet
    Den = Den
    None = None
    MaxAsks = 2
    MaxScans = 2
    MaxShares = 2
INVARIANTS
    OneLiveRequest
    SharedSummaryMatches
    LabelTellsAudience
    BannerTellsWorst
PROPERTIES
    LatestSpec
