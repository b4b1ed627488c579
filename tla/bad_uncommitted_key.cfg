\* A rotation's COMMIT is lost after its key was cached.
SPECIFICATION KeysSpec
CONSTANTS
    NoProc = NoProc
    Procs = {p1}
    Slots = {r1, r2}
    Tenants = {t1}
    MaxCached = 2
    MaxPrefix = 3
    MaxDeks = 3
    CommitsMayFail = TRUE
    MayCrash = FALSE
SYMMETRY KeysSymmetry
INVARIANTS
    Recoverable
