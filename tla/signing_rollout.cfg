\* Two processes, a whole rotation and the first deploy of a second; key files fail to load, processes restart.
SPECIFICATION SigningFairSpec
CONSTANTS
    NoProc = NoProc
    Procs = {p1, p2}
    Slots = {s1, s2}
    MaxDeploys = 4
    ReadsMayFail = TRUE
INVARIANTS
    SigningTypeOK
    NoSpuriousRefusal
    OldKeysStayPublished
PROPERTIES
    RequestsAnswered
