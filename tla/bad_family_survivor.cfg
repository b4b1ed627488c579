\* A replay revokes the family while a rotation of it is under way.
\* When every row the bound allows was lost before it was delivered, no client
\* has anything left to send: the model stops there.
CHECK_DEADLOCK FALSE
SPECIFICATION Spec
CONSTANTS
    None = None
    Slots = {r1, r2}
    Keys = {k1}
    Users = {u1}
    MaxTokens = 3
    MaxSessions = 1
    Offered = {"login", "refresh", "logout"}
    WaitAttempts = 2
    MayFail = FALSE
    ClaimsMayLapse = FALSE
    Mortal <- NoTokens
    Deletable = {}
    Perishable <- NoTokens
SYMMETRY Symmetry
INVARIANTS
    EntireFamilyRevoked
