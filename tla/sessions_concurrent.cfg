\* Two overlapping requests without idempotency keys over one session; awaits
\* reject, processes die, the account is deleted and an access token expires.
\* When every row the bound allows was lost before it was delivered, no client
\* has anything left to send: the model stops there.
CHECK_DEADLOCK FALSE
SPECIFICATION Spec
CONSTANTS
    None = None
    Slots = {r1, r2}
    Keys = {}
    Users = {u1}
    MaxTokens = 3
    MaxSessions = 1
    Offered = {"login", "refresh", "logout"}
    WaitAttempts = 2
    MayFail = TRUE
    ClaimsMayLapse = FALSE
    Mortal <- NoTokens
    Deletable = {u1}
    Perishable <- FirstToken
SYMMETRY Symmetry
INVARIANTS
    ConsumedNeverActive
    MirrorSound
    ReplayNeverRotates
    ReplayRevokesExisting
    LogoutEffective
PROPERTIES
    ImplementsLineage
    DeadSessionStaysDead
