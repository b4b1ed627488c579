\* A token is used after its logout.
\* Time is bounded: the model stops when every request has been answered.
CHECK_DEADLOCK FALSE
SPECIFICATION AccessSpec
CONSTANTS
    NoToken = NoToken
    Tokens = {t1}
    Slots = {r1, r2}
    PerSecond = 2
    Lifetime = 2
    Tolerance = 1
    MaxTime = 8
SYMMETRY AccessSymmetry
INVARIANTS
    LogoutIsFinal
