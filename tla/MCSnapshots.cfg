CONSTANTS
    w1 = w1
    w2 = w2
    adm1 = adm1
    adm2 = adm2
    NoMarker = NoMarker
    Worker = {w1, w2}
    Reading = {adm1, adm2}
    Interval = 2
    PollInterval = 1
    BusyTimeout = 1
    Horizon = 7
SPECIFICATION SnapSpec
SYMMETRY MCSymmetry
INVARIANTS
    SnapTypeOK
    SamplesApart
    NoGap
