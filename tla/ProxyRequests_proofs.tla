------------------------ MODULE ProxyRequests_proofs ------------------------
(***************************************************************************)
(* Proofs about ProxyRequests, for any route table, any users and any      *)
(* number of concurrent requests.                                          *)
(*                                                                         *)
(* RequestOK relates the locals h, the upstream call u and the audit       *)
(* entries a of one request.  It mentions no other request, so a step      *)
(* disturbs it only for the request that takes the step; ByOwnStep         *)
(* reduces the induction to that request.                                  *)
(***************************************************************************)
EXTENDS ProxyRequests, TLAPS

\* What holds of a request at each place of the handler.
RequestOK(h, u, a) ==
    /\ h.pc = "new" => h = NewRequest /\ a = {}
    /\ h.pc \in {"new", "auth", "limit", "denied"} => u = "unsent"
    /\ h.pc \in {"await", "allowed"} => u # "unsent"
    /\ h.pc \notin {"new", "ended"} => h.route \in DOMAIN RouteTable
    /\ h.pc \in {"auth", "limit"} => h.identity = Nobody
    /\ h.pc = "limit" =>
          h.claims = h.bearer /\ Satisfies(h.bearer, RouteTable[h.route])
    /\ h.pc = "denied" => h.error \in Denial
    /\ h.pc # "ended" => h.answer \in {"none", "upstream"}
    /\ u # "unsent" => /\ Satisfies(h.bearer, RouteTable[h.route])
                       /\ h.identity = h.bearer
    /\ h.answer \in {"502", "504", "cut"} => u = "failed"
    /\ h.answer \in Denial => a \cap {"denied", "lost"} # {}
    /\ "denied" \in a => u = "unsent" /\ h.pc = "ended"
    /\ "allowed" \in a => u # "unsent" /\ RouteTable[h.route].audit_allowed_requests

\* The inductive invariant.
ProxyInv ==
    /\ ProxyTypeOK
    /\ PendingIsUnsettled
    /\ \A r \in Requests : RequestOK(http[r], upstream[r], audit[r])

\* What a step of request r has to establish.
OwnStep(r) ==
    /\ ProxyTypeOK'
    /\ PendingIsUnsettled'
    /\ \A q \in Requests \ {r} :
          http'[q] = http[q] /\ upstream'[q] = upstream[q] /\ audit'[q] = audit[q]
    /\ RequestOK(http'[r], upstream'[r], audit'[r])

\* A step that is right for its own request is right for all.
LEMMA ByOwnStep ==
    ASSUME ProxyInv, NEW r \in Requests, OwnStep(r)
    PROVE  ProxyInv'
  <1>1. ASSUME NEW q \in Requests
        PROVE  RequestOK(http'[q], upstream'[q], audit'[q])
    <2>1. CASE q = r
      BY <2>1 DEF OwnStep
    <2>2. CASE q # r
      <3>1. RequestOK(http[q], upstream[q], audit[q])
        BY DEF ProxyInv
      <3>2. http'[q] = http[q] /\ upstream'[q] = upstream[q] /\ audit'[q] = audit[q]
        BY <2>2 DEF OwnStep
      <3> QED
        BY <3>1, <3>2
    <2> QED
      BY <2>1, <2>2
  <1> QED
    BY <1>1 DEF ProxyInv, OwnStep

\* A request nobody has made yet is well typed.
LEMMA NewRequestTyped == NewRequest \in Http
  BY ProxyAssumption DEF NewRequest, Http, Answer, Denial

\* The invariant holds initially.
LEMMA InitInv == ProxyInit => ProxyInv
  <1> SUFFICES ASSUME ProxyInit PROVE ProxyInv
    OBVIOUS
  <1> QED
    BY NewRequestTyped DEF ProxyInit, ProxyInv, ProxyTypeOK, PendingIsUnsettled, At, RequestOK,
                NewRequest, Denial

-----------------------------------------------------------------------------
(* One lemma per action.                                                   *)

\* A request whose path a route covers.
LEMMA ReceiveOwn ==
    ASSUME ProxyInv, NEW r \in Requests, NEW p \in Paths,
           NEW b \in Users \cup {Nobody, Forged}, NEW h \in {Nobody, Forged},
           Receive(r, p, b, h)
    PROVE  OwnStep(r)
  <1>1. PICK i \in DOMAIN RouteTable :
           Become(r, [NewRequest EXCEPT !.pc = "auth", !.route = i, !.bearer = b,
                                        !.identity = StripSpoofedHeaders(h)])
    BY DEF Receive
  <1>2. i \in 0..Len(RouteTable)
    BY <1>1, ProxyAssumption
  <1> DEFINE x == [NewRequest EXCEPT !.pc = "auth", !.route = i, !.bearer = b,
                                     !.identity = StripSpoofedHeaders(h)]
  <1>3. x \in Http /\ x.identity = Nobody
    BY <1>2, ProxyAssumption DEF NewRequest, Http, Answer, Denial, StripSpoofedHeaders
  <1>4. http' = [http EXCEPT ![r] = x]
    BY <1>1 DEF Become
  <1>5. ProxyTypeOK' /\ PendingIsUnsettled'
    BY <1>3, <1>4 DEF Receive, At, ProxyInv, ProxyTypeOK, PendingIsUnsettled, NewRequest
  <1>6. RequestOK(http[r], upstream[r], audit[r])
    BY DEF ProxyInv
  <1>7. RequestOK(x, upstream[r], audit[r])
    BY <1>1, <1>3, <1>6 DEF Receive, At, RequestOK, NewRequest, Denial
  <1> QED
    BY <1>4, <1>5, <1>7 DEF Receive, OwnStep, ProxyInv, ProxyTypeOK

\* A path no route covers.
LEMMA NoRouteOwn ==
    ASSUME ProxyInv, NEW r \in Requests, NEW p \in Paths, NoRoute(r, p)
    PROVE  OwnStep(r)
  <1> DEFINE x == [NewRequest EXCEPT !.pc = "ended", !.answer = Answered(r, "404")]
  <1>1. RequestOK(http[r], upstream[r], audit[r])
    BY DEF ProxyInv
  <1>2. Answered(r, "404") \in {"404", "none"}
    BY <1>1 DEF Answered, NoRoute, At, RequestOK, NewRequest
  <1>3. x \in Http
    BY <1>2, NewRequestTyped DEF Http, Answer
  <1>4. http' = [http EXCEPT ![r] = x]
    BY DEF NoRoute, Become
  <1>5. ProxyTypeOK' /\ PendingIsUnsettled'
    BY <1>3, <1>4 DEF NoRoute, At, Finished, ProxyInv, ProxyTypeOK, PendingIsUnsettled,
                      NewRequest
  <1>6. RequestOK(x, upstream[r], audit[r])
    BY <1>1, <1>2 DEF NoRoute, At, RequestOK, NewRequest, Denial
  <1> QED
    BY <1>4, <1>5, <1>6 DEF NoRoute, OwnStep, ProxyInv, ProxyTypeOK

\* The checks before the first await of enforceAuthorization.
LEMMA AuthenticateOwn ==
    ASSUME ProxyInv, NEW r \in Requests, Authenticate(r)
    PROVE  OwnStep(r)
  <1> DEFINE c == http[r].bearer
  <1>1. RequestOK(http[r], upstream[r], audit[r])
    BY DEF ProxyInv
  <1>2. PICK x \in Http :
           /\ Become(r, x)
           /\ x.pc \in {"denied", "limit"}
           /\ RequestOK(x, upstream[r], audit[r])
    <2>0. http[r] \in Http /\ c \in Users \cup {Nobody, Forged}
      BY DEF ProxyInv, ProxyTypeOK, Http
    <2>1. CASE Unauthenticated(r)
      <3> DEFINE x == [http[r] EXCEPT !.pc = "denied", !.error = "401"]
      <3>1. Become(r, x)
        BY <2>1 DEF Authenticate
      <3>2. x \in Http
        BY <2>0 DEF Http, Denial
      <3>3. RequestOK(x, upstream[r], audit[r])
        BY <1>1, <2>0 DEF Authenticate, At, RequestOK, Http, Denial
      <3> QED
        BY <3>1, <3>2, <3>3, <2>0 DEF Http
    <2>2. CASE ~Unauthenticated(r) /\ (~HasAllowedRole(r, c) \/ ~HasScope(r, c))
      <3> DEFINE x == [http[r] EXCEPT !.pc = "denied", !.error = "403", !.claims = c]
      <3>1. Become(r, x)
        BY <2>2 DEF Authenticate
      <3>2. x \in Http
        BY <2>0, <2>2 DEF Http, Denial, Unauthenticated
      <3>3. RequestOK(x, upstream[r], audit[r])
        BY <1>1, <2>0 DEF Authenticate, At, RequestOK, Http, Denial
      <3> QED
        BY <3>1, <3>2, <3>3, <2>0 DEF Http
    <2>3. CASE ~Unauthenticated(r) /\ HasAllowedRole(r, c) /\ HasScope(r, c)
      <3> DEFINE x == [http[r] EXCEPT !.pc = "limit", !.claims = c]
      <3>1. Become(r, x)
        BY <2>3 DEF Authenticate
      <3>2. x \in Http
        BY <2>0, <2>3 DEF Http, Unauthenticated
      <3>3. Satisfies(c, RouteTable[http[r].route])
        BY <2>0, <2>3 DEF Unauthenticated, HasAllowedRole, HasScope, Satisfies, Route
      <3>4. RequestOK(x, upstream[r], audit[r])
        BY <1>1, <2>0, <3>3 DEF Authenticate, At, RequestOK, Http, Denial
      <3> QED
        BY <3>1, <3>2, <3>4, <2>0 DEF Http
    <2> QED
      BY <2>1, <2>2, <2>3
  <1>3. http' = [http EXCEPT ![r] = x]
    BY <1>2 DEF Become
  <1>4. ProxyTypeOK' /\ PendingIsUnsettled'
    BY <1>2, <1>3 DEF Authenticate, At, ProxyInv, ProxyTypeOK, PendingIsUnsettled
  <1> QED
    BY <1>2, <1>3, <1>4 DEF Authenticate, OwnStep, ProxyInv, ProxyTypeOK

\* The limiter refuses.
LEMMA RateLimitedOwn ==
    ASSUME ProxyInv, NEW r \in Requests, RateLimited(r)
    PROVE  OwnStep(r)
  <1> DEFINE x == [http[r] EXCEPT !.pc = "denied", !.error = "429"]
  <1>1. RequestOK(http[r], upstream[r], audit[r]) /\ http[r] \in Http
    BY DEF ProxyInv, ProxyTypeOK
  <1>2. x \in Http
    BY <1>1 DEF Http, Denial
  <1>3. http' = [http EXCEPT ![r] = x]
    BY DEF RateLimited, Become
  <1>4. ProxyTypeOK' /\ PendingIsUnsettled'
    BY <1>1, <1>2, <1>3 DEF RateLimited, At, Http, ProxyInv, ProxyTypeOK, PendingIsUnsettled
  <1>5. RequestOK(x, upstream[r], audit[r])
    BY <1>1 DEF RateLimited, At, RequestOK, Http, Denial
  <1> QED
    BY <1>3, <1>4, <1>5 DEF RateLimited, OwnStep, ProxyInv, ProxyTypeOK

\* A denial is recorded and answered.
LEMMA AuditDenialOwn ==
    ASSUME ProxyInv, NEW r \in Requests, AuditDenial(r)
    PROVE  OwnStep(r)
  <1> DEFINE x == [http[r] EXCEPT !.pc = "ended", !.answer = Answered(r, http[r].error)]
  <1>1. RequestOK(http[r], upstream[r], audit[r]) /\ http[r] \in Http
    BY DEF ProxyInv, ProxyTypeOK
  <1>2. PICK entry \in {"denied", "lost"} :
           audit' = [audit EXCEPT ![r] = @ \cup {entry}]
    BY DEF AuditDenial
  <1>3. Answered(r, http[r].error) \in {"none", "upstream"} \cup Denial
    BY <1>1 DEF Answered, AuditDenial, At, RequestOK
  <1>4. x \in Http
    BY <1>1, <1>3 DEF Http, Answer
  <1>5. http' = [http EXCEPT ![r] = x]
    BY DEF AuditDenial, Become
  <1>6. ProxyTypeOK' /\ PendingIsUnsettled'
    BY <1>1, <1>2, <1>4, <1>5
    DEF AuditDenial, At, Finished, Http, ProxyInv, ProxyTypeOK, PendingIsUnsettled
  <1>7. RequestOK(x, upstream[r], audit[r] \cup {entry})
    BY <1>1, <1>2, <1>3 DEF AuditDenial, At, RequestOK, Http, Denial
  <1>8. audit'[r] = audit[r] \cup {entry}
    BY <1>2 DEF ProxyInv, ProxyTypeOK
  <1> QED
    BY <1>2, <1>5, <1>6, <1>7, <1>8 DEF AuditDenial, OwnStep, ProxyInv, ProxyTypeOK

\* The request leaves for the upstream.
LEMMA DispatchOwn ==
    ASSUME ProxyInv, NEW r \in Requests, Dispatch(r)
    PROVE  OwnStep(r)
  <1> DEFINE x == [http[r] EXCEPT !.pc = "await", !.identity = Identity(r)]
  <1>1. RequestOK(http[r], upstream[r], audit[r]) /\ http[r] \in Http
    BY DEF ProxyInv, ProxyTypeOK
  <1>2. Identity(r) = http[r].bearer
    BY <1>1 DEF Identity, Dispatch, At, RequestOK
  <1>3. x \in Http
    BY <1>1, <1>2 DEF Http
  <1>4. http' = [http EXCEPT ![r] = x]
    BY DEF Dispatch, Become
  <1>5. ProxyTypeOK' /\ PendingIsUnsettled'
    BY <1>1, <1>3, <1>4 DEF Dispatch, At, Http, ProxyInv, ProxyTypeOK, PendingIsUnsettled
  <1>6. RequestOK(x, "waiting", audit[r])
    BY <1>1, <1>2 DEF Dispatch, At, RequestOK, Http, Denial
  <1> QED
    BY <1>4, <1>5, <1>6 DEF Dispatch, OwnStep, ProxyInv, ProxyTypeOK

\* The upstream moves on and the handler does not notice.
LEMMA UpstreamMoves ==
    ASSUME ProxyInv, NEW r \in Requests, upstream[r] \in {"waiting", "answering"},
           NEW u \in {"answering", "ended", "failed"},
           upstream' = [upstream EXCEPT ![r] = u],
           res' \in [Requests -> {"open", "started", "finished", "closed"}],
           UNCHANGED <<http, pending, audit>>
    PROVE  OwnStep(r)
  <1>1. RequestOK(http[r], upstream[r], audit[r])
    BY DEF ProxyInv
  <1>2. ProxyTypeOK' /\ PendingIsUnsettled'
    BY DEF At, ProxyInv, ProxyTypeOK, PendingIsUnsettled
  <1>3. RequestOK(http[r], u, audit[r])
    BY <1>1 DEF RequestOK
  <1> QED
    BY <1>2, <1>3 DEF OwnStep, ProxyInv, ProxyTypeOK

\* The promise resolves: the handler goes on to the audit of allowed requests.
LEMMA ResolveOwn ==
    ASSUME ProxyInv, NEW r \in Requests, At(r, "await"),
           NEW a \in {"none", "upstream"}, Resolve(r, a),
           NEW u \in {"waiting", "answering", "ended", "failed"},
           upstream' = [upstream EXCEPT ![r] = u],
           res' \in [Requests -> {"open", "started", "finished", "closed"}],
           pending' = pending \ {r},
           UNCHANGED audit
    PROVE  OwnStep(r)
  <1> DEFINE x == [http[r] EXCEPT !.pc = "allowed", !.answer = a]
  <1>1. RequestOK(http[r], upstream[r], audit[r]) /\ http[r] \in Http
    BY DEF ProxyInv, ProxyTypeOK
  <1>2. x \in Http
    BY <1>1 DEF Http, Answer
  <1>3. http' = [http EXCEPT ![r] = x]
    BY DEF Resolve, Become
  <1>4. ProxyTypeOK' /\ PendingIsUnsettled'
    BY <1>1, <1>2, <1>3 DEF At, Http, ProxyInv, ProxyTypeOK, PendingIsUnsettled
  <1>5. RequestOK(x, u, audit[r])
    BY <1>1 DEF At, RequestOK, Http, Denial
  <1> QED
    BY <1>3, <1>4, <1>5 DEF OwnStep, ProxyInv, ProxyTypeOK

\* The promise rejects because the call failed.
LEMMA RejectOwn ==
    ASSUME ProxyInv, NEW r \in Requests, At(r, "await"),
           NEW e \in Failure, Reject(r, e),
           upstream' = [upstream EXCEPT ![r] = "failed"],
           UNCHANGED audit
    PROVE  OwnStep(r)
  <1> DEFINE a == IF res[r] = "started" THEN "cut" ELSE Answered(r, e)
             x == [http[r] EXCEPT !.pc = "ended", !.answer = a]
  <1>1. RequestOK(http[r], upstream[r], audit[r]) /\ http[r] \in Http
    BY DEF ProxyInv, ProxyTypeOK
  <1>2. a \in {"none", "upstream", "cut"} \cup Failure
    BY <1>1 DEF Answered, At, RequestOK
  <1>3. x \in Http
    <2>1. a \in Answer
      BY <1>2 DEF Answer
    <2> HIDE DEF a
    <2> QED
      BY <1>1, <2>1 DEF Http
  <1>4. http' = [http EXCEPT ![r] = x]
    BY DEF Reject, Become
  <1>5. ProxyTypeOK' /\ PendingIsUnsettled'
    BY <1>1, <1>3, <1>4 DEF Reject, At, Http, ProxyInv, ProxyTypeOK, PendingIsUnsettled
  <1>6. RequestOK(x, "failed", audit[r])
    BY <1>1, <1>2 DEF At, RequestOK, Http, Denial, Failure
  <1> QED
    BY <1>4, <1>5, <1>6 DEF OwnStep, ProxyInv, ProxyTypeOK

\* The upstream's own steps, with what they do to the promise.
LEMMA UpstreamOwn ==
    ASSUME ProxyInv, NEW r \in Requests, Upstream(r)
    PROVE  OwnStep(r)
  <1> DEFINE Responses == [Requests -> {"open", "started", "finished", "closed"}]
  <1>0. res \in Responses /\ upstream[r] \in {"unsent", "waiting", "answering", "ended", "failed"}
    BY DEF ProxyInv, ProxyTypeOK
  <1>1. CASE UpstreamAnswers(r)
    <2>1. res' \in Responses
      BY <1>0, <1>1 DEF UpstreamAnswers
    <2> QED
      BY <1>1, <2>1, UpstreamMoves DEF UpstreamAnswers
  <1>2. CASE UpstreamEnds(r)
    <2>1. CASE res[r] = "started" /\ At(r, "await")
      <3>1. res' \in Responses
        BY <1>0, <1>2, <2>1 DEF UpstreamEnds
      <3> QED
        BY <1>2, <2>1, <3>1, ResolveOwn DEF UpstreamEnds
    <2>2. CASE ~(res[r] = "started" /\ At(r, "await"))
      BY <1>0, <1>2, <2>2, UpstreamMoves DEF UpstreamEnds
    <2> QED
      BY <2>1, <2>2
  <1>3. CASE UpstreamError(r)
    <2>1. CASE UNCHANGED <<http, res, pending>>
      BY <1>0, <1>3, <2>1, UpstreamMoves DEF UpstreamError
    <2>2. CASE \E q \in Listener(r), e \in {"502", "504"} : Reject(q, e)
      <3>1. PICK e \in {"502", "504"} : Reject(r, e) /\ r \in pending
        BY <2>2 DEF Listener
      <3>2. At(r, "await")
        BY <3>1 DEF ProxyInv, PendingIsUnsettled
      <3> QED
        BY <1>3, <3>1, <3>2, RejectOwn DEF UpstreamError, Failure
    <2> QED
      BY <1>3, <2>1, <2>2 DEF UpstreamError
  <1>4. CASE UpstreamBreaksOff(r)
    BY <1>0, <1>4, UpstreamMoves DEF UpstreamBreaksOff
  <1>5. CASE NotSent(r)
    BY <1>5, RejectOwn DEF NotSent, Failure
  <1> QED
    BY <1>1, <1>2, <1>3, <1>4, <1>5 DEF Upstream

\* The client goes away.
LEMMA ClientClosesOwn ==
    ASSUME ProxyInv, NEW r \in Requests, ClientCloses(r)
    PROVE  OwnStep(r)
  <1>1. RequestOK(http[r], upstream[r], audit[r])
    BY DEF ProxyInv
  <1>2. res' \in [Requests -> {"open", "started", "finished", "closed"}]
    BY DEF ClientCloses, ProxyInv, ProxyTypeOK
  <1>3. CASE At(r, "await")
    <2>1. upstream[r] \in {"waiting", "answering", "ended", "failed"}
      BY <1>1, <1>3 DEF At, RequestOK, ProxyInv, ProxyTypeOK
    <2>2. upstream' = [upstream EXCEPT ![r] = upstream[r]]
      BY DEF ClientCloses, ProxyInv, ProxyTypeOK
    <2> QED
      BY <1>2, <1>3, <2>1, <2>2, ResolveOwn DEF ClientCloses
  <1>4. CASE ~At(r, "await")
    BY <1>1, <1>2, <1>4
    DEF ClientCloses, OwnStep, At, ProxyInv, ProxyTypeOK, PendingIsUnsettled
  <1> QED
    BY <1>3, <1>4

\* An allowance is recorded where the route asks for it.
LEMMA AuditAllowedOwn ==
    ASSUME ProxyInv, NEW r \in Requests, AuditAllowed(r)
    PROVE  OwnStep(r)
  <1> DEFINE x == [http[r] EXCEPT !.pc = "ended"]
  <1>1. RequestOK(http[r], upstream[r], audit[r]) /\ http[r] \in Http
    BY DEF ProxyInv, ProxyTypeOK
  <1>2. x \in Http
    BY <1>1 DEF Http
  <1>3. http' = [http EXCEPT ![r] = x]
    BY DEF AuditAllowed, Become
  <1>4. PICK entries \in SUBSET {"allowed", "lost"} :
           /\ audit' = [audit EXCEPT ![r] = @ \cup entries]
           /\ entries # {} => Route(r).audit_allowed_requests
    <2>1. CASE Route(r).audit_allowed_requests
      <3>1. PICK entry \in {"allowed", "lost"} :
               audit' = [audit EXCEPT ![r] = @ \cup {entry}]
        BY <2>1 DEF AuditAllowed
      <3> QED
        BY <2>1, <3>1
    <2>2. CASE ~Route(r).audit_allowed_requests
      <3>1. audit' = [audit EXCEPT ![r] = @ \cup {}]
        BY <2>2 DEF AuditAllowed, ProxyInv, ProxyTypeOK
      <3> QED
        BY <3>1
    <2> QED
      BY <2>1, <2>2
  <1>5. ProxyTypeOK' /\ PendingIsUnsettled'
    BY <1>1, <1>2, <1>3, <1>4
    DEF AuditAllowed, At, Http, ProxyInv, ProxyTypeOK, PendingIsUnsettled
  <1>6. RequestOK(x, upstream[r], audit[r] \cup entries)
    BY <1>1, <1>4 DEF AuditAllowed, At, RequestOK, Route, Http
  <1>7. audit'[r] = audit[r] \cup entries
    BY <1>4 DEF ProxyInv, ProxyTypeOK
  <1> QED
    BY <1>3, <1>4, <1>5, <1>6, <1>7 DEF AuditAllowed, OwnStep, ProxyInv, ProxyTypeOK

\* The verification of a token rejects.
LEMMA VerificationFailsOwn ==
    ASSUME ProxyInv, NEW r \in Requests, VerificationFails(r)
    PROVE  OwnStep(r)
  <1> DEFINE x == [http[r] EXCEPT !.pc = "ended", !.answer = Answered(r, "500")]
  <1>1. RequestOK(http[r], upstream[r], audit[r]) /\ http[r] \in Http
    BY DEF ProxyInv, ProxyTypeOK
  <1>2. Answered(r, "500") \in {"none", "upstream", "500"}
    BY <1>1 DEF Answered, VerificationFails, At, RequestOK
  <1>3. x \in Http
    BY <1>1, <1>2 DEF Http, Answer, Failure
  <1>4. http' = [http EXCEPT ![r] = x]
    BY DEF VerificationFails, Become
  <1>5. ProxyTypeOK' /\ PendingIsUnsettled'
    BY <1>1, <1>3, <1>4
    DEF VerificationFails, At, Finished, Http, ProxyInv, ProxyTypeOK, PendingIsUnsettled
  <1>6. RequestOK(x, upstream[r], audit[r])
    BY <1>1, <1>2 DEF VerificationFails, At, RequestOK, Http, Denial
  <1> QED
    BY <1>4, <1>5, <1>6 DEF VerificationFails, OwnStep, ProxyInv, ProxyTypeOK

-----------------------------------------------------------------------------

\* Every step of the proxy preserves the invariant.
LEMMA NextInv == ProxyInv /\ [ProxyNext]_proxyVars => ProxyInv'
  <1> SUFFICES ASSUME ProxyInv, [ProxyNext]_proxyVars PROVE ProxyInv'
    OBVIOUS
  <1>1. CASE UNCHANGED proxyVars
    BY <1>1 DEF proxyVars, ProxyInv, ProxyTypeOK, PendingIsUnsettled, At
  <1>2. CASE ProxyNext
    <2>1. PICK r \in Requests :
             \/ \E p \in Paths, b \in Users \cup {Nobody, Forged}, h \in {Nobody, Forged} :
                   Receive(r, p, b, h)
             \/ \E p \in Paths : NoRoute(r, p)
             \/ Gateway(r) \/ Upstream(r) \/ VerificationFails(r) \/ ClientCloses(r)
      BY <1>2 DEF ProxyNext
    <2>2. OwnStep(r)
      BY <2>1, ReceiveOwn, NoRouteOwn, AuthenticateOwn, RateLimitedOwn, DispatchOwn,
         AuditDenialOwn, AuditAllowedOwn, UpstreamOwn, VerificationFailsOwn,
         ClientClosesOwn
      DEF Gateway
    <2> QED
      BY <2>2, ByOwnStep
  <1> QED
    BY <1>1, <1>2

\* The invariant holds in every reachable state.
THEOREM ProxyInvariance == ProxySpec => []ProxyInv
  <1> QED
    BY InitInv, NextInv, PTL DEF ProxySpec

\* The variables of the proxy keep their types.
THEOREM ProxyTyping == ProxySpec => []ProxyTypeOK
  <1>1. ProxyInv => ProxyTypeOK
    BY DEF ProxyInv
  <1> QED
    BY <1>1, ProxyInvariance, PTL

\* Only requests that satisfy their route reach its upstream, whatever the
\* route table says and however requests overlap.
THEOREM OnlyAuthorizedRequestsAreSent == ProxySpec => []SentIsAuthorized
  <1>1. ProxyInv => SentIsAuthorized
    BY DEF ProxyInv, SentIsAuthorized, Sent, RequestOK, Route
  <1> QED
    BY <1>1, ProxyInvariance, PTL

\* The upstream sees the identity of the verified token or none.
THEOREM IdentitiesAreVerified == ProxySpec => []IdentityIsVerified
  <1>1. ProxyInv => IdentityIsVerified
    BY DEF ProxyInv, IdentityIsVerified, Sent, RequestOK
  <1> QED
    BY <1>1, ProxyInvariance, PTL

\* Denials are on record and were not sent; allowances were sent on routes
\* that ask for the record.
THEOREM TheAuditLogIsTruthful == ProxySpec => []AuditIsTruthful
  <1>1. ProxyInv => AuditIsTruthful
    BY DEF ProxyInv, AuditIsTruthful, Sent, RequestOK, Route
  <1> QED
    BY <1>1, ProxyInvariance, PTL

\* No request is answered with the failure of another one's upstream call.
THEOREM ErrorsDoNotCross == ProxySpec => []ErrorsStayWithTheirRequest
  <1>1. ProxyInv => ErrorsStayWithTheirRequest
    BY DEF ProxyInv, ErrorsStayWithTheirRequest, RequestOK
  <1> QED
    BY <1>1, ProxyInvariance, PTL

\* A callback is registered exactly for the calls that have not settled.
THEOREM CallbacksArePrecise == ProxySpec => []PendingIsUnsettled
  <1>1. ProxyInv => PendingIsUnsettled
    BY DEF ProxyInv
  <1> QED
    BY <1>1, ProxyInvariance, PTL
=============================================================================
