\* Two concurrent requests over five routes.
\* Every request is answered once: the model stops when all have been.
CHECK_DEADLOCK FALSE
SPECIFICATION ProxyFairSpec
CONSTANTS
    Requests = {r1, r2}
    Nobody = Nobody
    Forged = Forged
    admin = admin
    viewer = viewer
    Paths <- MCPaths
    Users <- MCUsers
    RolesOf <- MCRolesOf
    ScopesOf <- MCScopesOf
    RouteTable <- MCRouteTable
INVARIANTS
    ProxyTypeOK
    SentIsAuthorized
    IdentityIsVerified
    AuditIsTruthful
    ErrorsStayWithTheirRequest
    PendingIsUnsettled
PROPERTIES
    DispatchSettles
