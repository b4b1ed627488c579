\* Three connections and two signals; clients and upstreams may take for ever.
\* A process that has exited takes no more steps.
CHECK_DEADLOCK FALSE
SPECIFICATION ShutdownFairSpec
CONSTANTS
    Conns = {c1, c2, c3}
    Signals = {g1, g2}
INVARIANTS
    ShutdownTypeOK
    NobodyCutOff
    CleanExit
PROPERTIES
    ShutdownEnds
