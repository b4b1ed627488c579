---------------------------- MODULE ProxyRequests ----------------------------
(***************************************************************************)
(* ALL /api/**: proxy.router.ts and proxy.service.ts.  A request resolves  *)
(* its route, loses the identity headers its client supplied, is           *)
(* authenticated and authorized, and is handed to the upstream; then       *)
(* events decide how it ends: the response finishes, the client goes away, *)
(* the upstream fails.                                                     *)
(*                                                                         *)
(* Each action is a handler's code from one await or event to the next;    *)
(* code after a settled promise runs before the next event, so it belongs  *)
(* to the event.  Whether a bearer token is valid is AccessTokens' matter  *)
(* and whether a client is over its limit RateLimiter's: both are inputs.  *)
(***************************************************************************)
EXTENDS Naturals, Sequences

CONSTANTS
    Requests,    \* requests to the proxy, of any clients
    Paths,       \* request paths
    Users,       \* subjects of access tokens
    RolesOf,     \* the roles claim of each user's tokens
    ScopesOf,    \* the scopes in the scope claim of each user's tokens
    RouteTable,  \* routeConfig, in the order of the file
    Nobody,      \* no user, no token, no header, no required scope
    Forged       \* a token that does not verify; a client's identity header

\* allowed_roles null and [] mean the same to the code: no role is asked for.
ASSUME ProxyAssumption ==
    /\ RouteTable \in
          Seq([covers : SUBSET Paths, auth_required : BOOLEAN,
               allowed_roles : SUBSET UNION {RolesOf[u] : u \in Users},
               required_scope : {Nobody} \cup UNION {ScopesOf[u] : u \in Users},
               audit_allowed_requests : BOOLEAN])
    /\ Nobody \notin Users
    /\ Forged \notin Users
    /\ Nobody # Forged

VARIABLES
    http,      \* the local variables of each request
    res,       \* the response object
    upstream,  \* the upstream's side of the call
    pending,   \* pendingUpstreamErrors: responses with a callback
    audit      \* the request's entries in audit_log; 'lost' when INSERT failed

proxyVars == <<http, res, upstream, pending, audit>>

Denial == {"401", "403", "429"}
Failure == {"500", "502", "504"}
Answer == {"none", "404", "upstream", "cut"} \cup Denial \cup Failure

Http == [pc       : {"new", "auth", "limit", "denied", "await", "allowed", "ended"},
         route    : 0..Len(RouteTable),                \* resolved.route
         bearer   : Users \cup {Nobody, Forged},       \* Authorization
         claims   : Users \cup {Nobody},               \* req.auth
         identity : Users \cup {Nobody, Forged},       \* the X-User-* headers
         error    : {"none"} \cup Denial,              \* authError, denial
         answer   : Answer]                            \* what the client got

NewRequest == [pc |-> "new", route |-> 0, bearer |-> Nobody, claims |-> Nobody,
               identity |-> Nobody, error |-> "none", answer |-> "none"]

ProxyTypeOK ==
    /\ http \in [Requests -> Http]
    /\ res \in [Requests -> {"open", "started", "finished", "closed"}]
    /\ upstream \in [Requests -> {"unsent", "waiting", "answering", "ended", "failed"}]
    /\ pending \subseteq Requests
    /\ audit \in [Requests -> SUBSET {"denied", "allowed", "lost"}]

ProxyInit ==
    /\ http = [r \in Requests |-> NewRequest]
    /\ res = [r \in Requests |-> "open"]
    /\ upstream = [r \in Requests |-> "unsent"]
    /\ pending = {}
    /\ audit = [r \in Requests |-> {}]

At(r, pc) == http[r].pc = pc

Become(r, x) == http' = [http EXCEPT ![r] = x]

Route(r) == RouteTable[http[r].route]

-----------------------------------------------------------------------------
(* Up to the upstream.                                                     *)

\* resolveRoute: the first entry whose pattern matches.
Resolves(i, p) ==
    /\ p \in RouteTable[i].covers
    /\ \A j \in 1..(i - 1) : p \notin RouteTable[j].covers

\* A defect: the client's identity headers are left alone.
StripSpoofedHeaders_Nothing(h) == h

\* Whatever identity headers the client sent are gone.
StripSpoofedHeaders(h) == IF h = Forged THEN Nobody ELSE h

Receive(r, p, b, h) ==
    /\ At(r, "new")
    /\ \E i \in DOMAIN RouteTable :
          /\ Resolves(i, p)
          /\ Become(r, [NewRequest EXCEPT !.pc = "auth", !.route = i, !.bearer = b,
                                          !.identity = StripSpoofedHeaders(h)])
    /\ UNCHANGED <<res, upstream, pending, audit>>

\* The client gets an answer, if it is still there and nothing was sent yet.
Answered(r, a) == IF res[r] = "open" THEN a ELSE http[r].answer

Finished(r) == [res EXCEPT ![r] = IF @ = "open" THEN "finished" ELSE @]

NoRoute(r, p) ==
    /\ At(r, "new")
    /\ \A i \in DOMAIN RouteTable : ~Resolves(i, p)
    /\ Become(r, [NewRequest EXCEPT !.pc = "ended", !.answer = Answered(r, "404")])
    /\ res' = Finished(r)
    /\ UNCHANGED <<upstream, pending, audit>>

\* validateAccessToken: a missing token is an error only where one is
\* required, a bad one always.
Unauthenticated(r) ==
    \/ http[r].bearer = Forged
    \/ http[r].bearer = Nobody /\ Route(r).auth_required

\* A defect: a request without claims is not checked.
HasAllowedRole_Vacuous(r, c) ==
    Route(r).allowed_roles # {} /\ c # Nobody =>
        RolesOf[c] \cap Route(r).allowed_roles # {}

HasAllowedRole(r, c) ==
    \/ Route(r).allowed_roles = {}
    \/ c # Nobody /\ RolesOf[c] \cap Route(r).allowed_roles # {}

HasScope(r, c) ==
    \/ Route(r).required_scope = Nobody
    \/ c # Nobody /\ Route(r).required_scope \in ScopesOf[c]

\* A defect: req.auth is set before the result of the verification is known.
Authenticate_ClaimsFirst(r) ==
    /\ At(r, "auth")
    /\ Become(r, [http[r] EXCEPT !.pc = IF Unauthenticated(r) THEN "denied" ELSE "limit",
                                 !.error = IF Unauthenticated(r) THEN "401" ELSE "none",
                                 !.claims = http[r].bearer])
    /\ UNCHANGED <<res, upstream, pending, audit>>

\* The verified token's claims reach enforceAuthorization, whose role and
\* scope checks come before its first await.
Authenticate(r) ==
    /\ At(r, "auth")
    /\ LET c == http[r].bearer IN
         \/ /\ Unauthenticated(r)
            /\ Become(r, [http[r] EXCEPT !.pc = "denied", !.error = "401"])
         \/ /\ ~Unauthenticated(r)
            /\ ~HasAllowedRole(r, c) \/ ~HasScope(r, c)
            /\ Become(r, [http[r] EXCEPT !.pc = "denied", !.error = "403", !.claims = c])
         \/ /\ ~Unauthenticated(r)
            /\ HasAllowedRole(r, c) /\ HasScope(r, c)
            /\ Become(r, [http[r] EXCEPT !.pc = "limit", !.claims = c])
    /\ UNCHANGED <<res, upstream, pending, audit>>

RateLimited(r) ==
    /\ At(r, "limit")
    /\ Become(r, [http[r] EXCEPT !.pc = "denied", !.error = "429"])
    /\ UNCHANGED <<res, upstream, pending, audit>>

\* auditDenial, then next(error).  The INSERT may fail; that is only logged.
AuditDenial(r) ==
    /\ At(r, "denied")
    /\ \E entry \in {"denied", "lost"} : audit' = [audit EXCEPT ![r] = @ \cup {entry}]
    /\ Become(r, [http[r] EXCEPT !.pc = "ended",
                                 !.answer = Answered(r, http[r].error)])
    /\ res' = Finished(r)
    /\ UNCHANGED <<upstream, pending>>

\* Object.assign(req.headers, buildIdentityHeaders(...)), if authenticated.
Identity(r) == IF http[r].claims # Nobody THEN http[r].claims ELSE http[r].identity

\* The limiter lets the request pass, or fails open: dispatchToUpstream
\* registers its callbacks and sends the request.
Dispatch(r) ==
    /\ At(r, "limit")
    /\ Become(r, [http[r] EXCEPT !.pc = "await", !.identity = Identity(r)])
    /\ pending' = pending \cup {r}
    /\ upstream' = [upstream EXCEPT ![r] = "waiting"]
    /\ UNCHANGED <<res, audit>>

-----------------------------------------------------------------------------
(* How the promise of dispatchToUpstream settles.                          *)

\* resolve(): on to auditAllowedIfFlagged.
Resolve(r, a) == Become(r, [http[r] EXCEPT !.pc = "allowed", !.answer = a])

\* reject(e): next(error) and the error handler.  Once the headers are out it
\* can only throw, and Express cuts the connection.
Reject(r, e) ==
    /\ Become(r, [http[r] EXCEPT !.pc = "ended",
                                 !.answer = IF res[r] = "started" THEN "cut"
                                            ELSE Answered(r, e)])
    /\ res' = [res EXCEPT ![r] = IF @ = "open" THEN "finished" ELSE "closed"]
    /\ pending' = pending \ {r}

\* The upstream's status and headers are piped to the client.
UpstreamAnswers(r) ==
    /\ upstream[r] = "waiting"
    /\ upstream' = [upstream EXCEPT ![r] = "answering"]
    /\ res' = [res EXCEPT ![r] = IF @ = "open" THEN "started" ELSE @]
    /\ UNCHANGED <<http, pending, audit>>

\* A defect: the callback outlives the call.
UpstreamEnds_KeepsCallback(r) ==
    /\ upstream[r] = "answering"
    /\ upstream' = [upstream EXCEPT ![r] = "ended"]
    /\ IF res[r] = "started" /\ At(r, "await")
         THEN /\ Resolve(r, "upstream")
              /\ res' = [res EXCEPT ![r] = "finished"]
         ELSE UNCHANGED <<http, res>>
    /\ UNCHANGED <<pending, audit>>

\* The whole body is through: the response emits 'finish', unless its client
\* is gone; then nothing is emitted.
UpstreamEnds(r) ==
    /\ upstream[r] = "answering"
    /\ upstream' = [upstream EXCEPT ![r] = "ended"]
    /\ IF res[r] = "started" /\ At(r, "await")
         THEN /\ Resolve(r, "upstream")
              /\ res' = [res EXCEPT ![r] = "finished"]
              /\ pending' = pending \ {r}
         ELSE UNCHANGED <<http, res, pending>>
    /\ UNCHANGED audit

\* A defect: the route's error callback picks any request of the route.
Listener_OfRoute(r) == {q \in pending : http[q].route = http[r].route}

\* The callback on.error finds for a response.
Listener(r) == {r} \cap pending

\* The library reports a connection error or its own proxyTimeout.
UpstreamError(r) ==
    /\ upstream[r] \in {"waiting", "answering"}
    /\ upstream' = [upstream EXCEPT ![r] = "failed"]
    /\ \/ /\ Listener(r) = {}
          /\ UNCHANGED <<http, res, pending>>
       \/ \E q \in Listener(r), e \in {"502", "504"} : Reject(q, e)
    /\ UNCHANGED audit

\* An upstream that breaks off in the middle of a body, or whose client is
\* gone, may also do so without an error event.
UpstreamBreaksOff(r) ==
    /\ \/ upstream[r] = "answering"
       \/ upstream[r] = "waiting" /\ res[r] = "closed"
    /\ upstream' = [upstream EXCEPT ![r] = "failed"]
    /\ UNCHANGED <<http, res, pending, audit>>

\* The middleware gives up before it has sent anything: next(err).
NotSent(r) ==
    /\ upstream[r] = "waiting"
    /\ At(r, "await")
    /\ upstream' = [upstream EXCEPT ![r] = "failed"]
    /\ Reject(r, "500")
    /\ UNCHANGED audit

\* A defect: nobody listens for 'close'.
ClientCloses_Unheard(r) ==
    /\ ~At(r, "new")
    /\ res[r] \in {"open", "started"}
    /\ res' = [res EXCEPT ![r] = "closed"]
    /\ UNCHANGED <<http, upstream, pending, audit>>

\* The client disconnects.  'close' resolves the promise of a dispatched
\* request; nobody listens for it before.
ClientCloses(r) ==
    /\ ~At(r, "new")
    /\ res[r] \in {"open", "started"}
    /\ res' = [res EXCEPT ![r] = "closed"]
    /\ IF At(r, "await") THEN Resolve(r, "none") /\ pending' = pending \ {r}
                         ELSE UNCHANGED <<http, pending>>
    /\ UNCHANGED <<upstream, audit>>

\* A defect: the route's flag is not looked at.
AuditAllowed_Always(r) ==
    /\ At(r, "allowed")
    /\ \E entry \in {"allowed", "lost"} : audit' = [audit EXCEPT ![r] = @ \cup {entry}]
    /\ Become(r, [http[r] EXCEPT !.pc = "ended"])
    /\ UNCHANGED <<res, upstream, pending>>

\* auditAllowedIfFlagged.
AuditAllowed(r) ==
    /\ At(r, "allowed")
    /\ IF Route(r).audit_allowed_requests
         THEN \E entry \in {"allowed", "lost"} :
                 audit' = [audit EXCEPT ![r] = @ \cup {entry}]
         ELSE UNCHANGED audit
    /\ Become(r, [http[r] EXCEPT !.pc = "ended"])
    /\ UNCHANGED <<res, upstream, pending>>

-----------------------------------------------------------------------------

\* The verification of a token rejects (its keys do not load, Redis does not
\* answer): Express answers 500.  Every later await catches its own errors.
VerificationFails(r) ==
    /\ At(r, "auth")
    /\ http[r].bearer # Nobody
    /\ Become(r, [http[r] EXCEPT !.pc = "ended", !.answer = Answered(r, "500")])
    /\ res' = Finished(r)
    /\ UNCHANGED <<upstream, pending, audit>>

Gateway(r) ==
    \/ Authenticate(r) \/ RateLimited(r) \/ Dispatch(r)
    \/ AuditDenial(r) \/ AuditAllowed(r)

Upstream(r) ==
    \/ UpstreamAnswers(r) \/ UpstreamEnds(r) \/ UpstreamError(r)
    \/ UpstreamBreaksOff(r) \/ NotSent(r)

ProxyNext ==
    \E r \in Requests :
        \/ \E p \in Paths, b \in Users \cup {Nobody, Forged}, h \in {Nobody, Forged} :
              Receive(r, p, b, h)
        \/ \E p \in Paths : NoRoute(r, p)
        \/ Gateway(r) \/ Upstream(r) \/ VerificationFails(r) \/ ClientCloses(r)

ProxySpec == ProxyInit /\ [][ProxyNext]_proxyVars

\* The event loop runs every handler whose await is over.  proxyTimeout ends
\* an upstream that does not answer, or breaks off one that stalls.  Nothing
\* makes a client go away.
ProxyFairSpec ==
    ProxySpec /\ \A r \in Requests : WF_proxyVars(Gateway(r)) /\ WF_proxyVars(Upstream(r))

-----------------------------------------------------------------------------

Sent(r) == upstream[r] # "unsent"

\* What a route's entry demands of the bearer of a token.
Satisfies(b, route) ==
    /\ b # Forged
    /\ route.auth_required => b \in Users
    /\ route.allowed_roles # {} =>
          b \in Users /\ RolesOf[b] \cap route.allowed_roles # {}
    /\ route.required_scope # Nobody =>
          b \in Users /\ route.required_scope \in ScopesOf[b]

\* Only requests that satisfy every demand of their route reach its upstream:
\* also on routes where authentication is optional but a role or scope is not.
SentIsAuthorized ==
    \A r \in Requests : Sent(r) => Satisfies(http[r].bearer, Route(r))

\* The identity headers the upstream sees are those of the verified token, and
\* none if there is no token: never what the client sent, on any route.
IdentityIsVerified ==
    \A r \in Requests : Sent(r) => http[r].identity = http[r].bearer

\* The audit log tells what happened: a refused request has its denial on
\* record (or its INSERT failed) and never reached the upstream; an allowance
\* is recorded only on routes that ask for it.
AuditIsTruthful ==
    \A r \in Requests :
        /\ http[r].answer \in Denial => audit[r] \cap {"denied", "lost"} # {}
        /\ "denied" \in audit[r] => ~Sent(r)
        /\ "allowed" \in audit[r] => Sent(r) /\ Route(r).audit_allowed_requests

\* An upstream's failure is reported to the request it belongs to, though the
\* error callback is shared by all requests of a route.
ErrorsStayWithTheirRequest ==
    \A r \in Requests : http[r].answer \in {"502", "504", "cut"} => upstream[r] = "failed"

\* The WeakMap holds a callback exactly for the calls that have not settled.
PendingIsUnsettled == pending = {r \in Requests : At(r, "await")}

\* A call whose client is there when it is made settles, unless its upstream
\* breaks off in the middle of a body; then it settles when the client leaves.
DispatchSettles ==
    \A r \in Requests :
        (At(r, "await") /\ res[r] # "closed")
            ~> (At(r, "ended") \/ (upstream[r] = "failed" /\ res[r] = "started"))

=============================================================================
