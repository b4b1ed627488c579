\* Two tokens used and revoked at any time.
\* Time is bounded: the model stops when every request has been answered.
CHECK_DEADLOCK FALSE
SPECIFICATION AccessSpec
CONSTANTS
    NoToken = NoToken
    Tokens = {t1, t2}
    Slots = {r1, r2}
    PerSecond = 2
    Lifetime = 2
    Tolerance = 1
    MaxTime = 10
SYMMETRY AccessSymmetry
INVARIANTS
    AccessTypeOK
    RevocationHoldsUntilExp
