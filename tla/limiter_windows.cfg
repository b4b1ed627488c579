\* One client, two requests at a time, overtaken by the clock at any await; calls may fail.
\* Time and requests are bounded: the model stops when both are used up.
CHECK_DEADLOCK FALSE
SPECIFICATION LimiterSpec
CONSTANTS
    NoIp = NoIp
    Ips = {i1}
    Slots = {r1, r2}
    Window = 3
    MaxRequests = 2
    MaxTime = 5
    MaxSeen = 4
    MayFail = TRUE
SYMMETRY LimiterSymmetry
INVARIANTS
    LimiterTypeOK
    LimitPerWindow
    NeverRefusesEarly
    NoOrphanCounter
