\* Two calls in two processes race over one tenant; commits fail, processes die.
SPECIFICATION KeysFairSpec
CONSTANTS
    NoProc = NoProc
    Procs = {p1, p2}
    Slots = {r1, r2}
    Tenants = {t1}
    MaxCached = 1
    MaxPrefix = 2
    MaxDeks = 3
    CommitsMayFail = TRUE
    MayCrash = TRUE
INVARIANTS
    KeysTypeOK
    OneActiveKey
    CacheCoherent
    RecoverableOnceCommitted
PROPERTIES
    CallsReturn
