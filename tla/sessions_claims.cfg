\* Overlapping refreshes with or without a key; owners fail and slots lapse, but
\* not under an owner that is still at work; the last row expires.
\* When every row the bound allows was lost before it was delivered, no client
\* has anything left to send: the model stops there.
CHECK_DEADLOCK FALSE
SPECIFICATION FairSpec
CONSTANTS
    None = None
    Slots = {r1, r2}
    Keys = {k1}
    Users = {u1}
    MaxTokens = 3
    MaxSessions = 1
    Offered = {"login", "refresh"}
    WaitAttempts = 2
    MayFail = TRUE
    ClaimsMayLapse = FALSE
    Mortal <- LastToken
    Deletable = {}
    Perishable <- NoTokens
INVARIANTS
    TypeOK
    AnswerDescendsFromToken
    ClaimOwnerUnique
    RetryGetsSamePair
PROPERTIES
    RequestsTerminate
