SPECIFICATION DashSpec
CHECK_DEADLOCK FALSE
CONSTANTS
    Constellations <- MCConstellations
    Primary = {"ours"}
    Bonus <- MCBonus
    Order <- MCOrder
    Placed <- MCPlaced
    PlanSize = 2
    Campaigns = {"c1", "c2", "c3"}
    CampaignAt <- MCCampaignAt
    Start <- MCStart
    World <- MCWorld
    MaxTime = 2
    Regions = {"perrigen", "vale"}
    HomeRegion = "perrigen"
    NoRegion = "none"
    Panels = {"kills"}
    PvpThreshold = 3
    MaxFetches = 2
    MaxAsked = 2
    MaxEdits = 1
INVARIANTS
    AlertsOnce
    OneStory
    NoBlankScreen
PROPERTIES
    PageHeals
