---------------------------- MODULE AccessTokens ----------------------------
(***************************************************************************)
(* The life of an access token: signAccessToken, validateAccessToken and   *)
(* the revocation key a logout sets (token.service.ts, authenticate.ts),   *)
(* against the clock.  A JWT counts whole seconds, Date.now() and Redis    *)
(* finer ones: time runs in ticks, PerSecond of them to a second.          *)
(*                                                                         *)
(* A validation checks exp first and asks Redis afterwards, in another     *)
(* step; time passes in between.                                           *)
(***************************************************************************)
EXTENDS Naturals

CONSTANTS
    Tokens,     \* access tokens, by jti
    Slots,      \* requests that can be in flight together
    PerSecond,  \* ticks to a second
    Lifetime,   \* ACCESS_TOKEN_TTL_SECONDS
    Tolerance,  \* clockTolerance, in seconds
    MaxTime,    \* bound: ticks in one behaviour
    NoToken     \* no token

ASSUME AccessAssumption ==
    /\ PerSecond \in Nat \ {0}
    /\ Lifetime \in Nat \ {0}
    /\ Tolerance \in Nat
    /\ MaxTime \in Nat
    /\ NoToken \notin Tokens

VARIABLES
    now,        \* the time, in ticks
    exp,        \* exp of each token in seconds; 0 before it is signed
    lapse,      \* when the key revoked:jti:<jti> runs out, in ticks; 0 for no key
    loggedOut,  \* history: tokens whose logout has been answered
    visit       \* the request in each slot

accessVars == <<now, exp, lapse, loggedOut, visit>>

VisitPC == {"idle", "verify", "check", "admitted", "revoke"}

Visit ==
    [pc      : VisitPC,
     token   : Tokens \cup {NoToken},
     op      : {"none", "use", "logout"},
     after   : BOOLEAN,     \* history: arrived after the token's logout
     revoked : BOOLEAN,     \* history: admitted although a revocation was set
     at      : 0..MaxTime]  \* history: when Redis was asked

NoVisit == [pc |-> "idle", token |-> NoToken, op |-> "none",
            after |-> FALSE, revoked |-> FALSE, at |-> 0]

AccessTypeOK ==
    /\ now \in 0..MaxTime
    /\ exp \in [Tokens -> 0..(MaxTime \div PerSecond + Lifetime)]
    /\ lapse \in [Tokens -> Nat]
    /\ loggedOut \subseteq Tokens
    /\ visit \in [Slots -> Visit]

AccessInit ==
    /\ now = 0
    /\ exp = [t \in Tokens |-> 0]
    /\ lapse = [t \in Tokens |-> 0]
    /\ loggedOut = {}
    /\ visit = [r \in Slots |-> NoVisit]

Leave(r) == visit' = [visit EXCEPT ![r] = NoVisit]

\* The clock as a JWT sees it.
Seconds == now \div PerSecond

\* A defect: the lifetime is added twice.
Sign_TwiceAsLong(t) ==
    /\ exp[t] = 0
    /\ exp' = [exp EXCEPT ![t] = Seconds + 2 * Lifetime]
    /\ UNCHANGED <<now, lapse, loggedOut, visit>>

\* signAccessToken: iat is rounded down, so exp is too.
Sign(t) ==
    /\ exp[t] = 0
    /\ exp' = [exp EXCEPT ![t] = Seconds + Lifetime]
    /\ UNCHANGED <<now, lapse, loggedOut, visit>>

Arrive(r, t, op) ==
    /\ visit[r].pc = "idle"
    /\ exp[t] # 0
    /\ visit' = [visit EXCEPT ![r] = [NoVisit EXCEPT !.pc = "verify", !.token = t,
                                                     !.op = op,
                                                     !.after = t \in loggedOut]]
    /\ UNCHANGED <<now, exp, lapse, loggedOut>>

\* jwtVerify: exp may lie up to clockTolerance seconds back.
Fresh(t) == exp[t] + Tolerance > Seconds

VerifyJwt(r) ==
    /\ visit[r].pc = "verify"
    /\ IF Fresh(visit[r].token) THEN visit' = [visit EXCEPT ![r].pc = "check"]
                                ELSE Leave(r)
    /\ UNCHANGED <<now, exp, lapse, loggedOut>>

\* isTokenRevoked: GET finds the key until its EX has run out.
IsTokenRevoked(t) == lapse[t] > now

CheckRevocation(r) ==
    /\ visit[r].pc = "check"
    /\ IF IsTokenRevoked(visit[r].token)
         THEN Leave(r)
         ELSE visit' = [visit EXCEPT ![r] =
                          [visit[r] EXCEPT !.pc = IF visit[r].op = "logout"
                                                    THEN "revoke" ELSE "admitted",
                                           !.revoked = lapse[visit[r].token] # 0,
                                           !.at = now]]
    /\ UNCHANGED <<now, exp, lapse, loggedOut>>

\* The handler behind the middleware answers.
Answer(r) ==
    /\ visit[r].pc = "admitted"
    /\ Leave(r)
    /\ UNCHANGED <<now, exp, lapse, loggedOut>>

\* A defect: rounding down.
TtlSecondsUntil_Floor(second) ==
    IF second * PerSecond <= now THEN 0
    ELSE (second * PerSecond - now) \div PerSecond

\* ttlSecondsUntil: rounded up, never negative.
TtlSecondsUntil(second) ==
    IF second * PerSecond <= now THEN 0
    ELSE (second * PerSecond - now + PerSecond - 1) \div PerSecond

\* revokeToken: SET with EX, or nothing for a token past its exp; the rest of
\* the logout is in AuthSessions.
RevokeToken(r) ==
    /\ visit[r].pc = "revoke"
    /\ LET t   == visit[r].token
           ttl == TtlSecondsUntil(exp[t])
       IN  /\ lapse' = IF ttl = 0 THEN lapse
                       ELSE [lapse EXCEPT ![t] = now + ttl * PerSecond]
           /\ loggedOut' = loggedOut \cup {t}
    /\ Leave(r)
    /\ UNCHANGED <<now, exp>>

Tick ==
    /\ now < MaxTime
    /\ now' = now + 1
    /\ UNCHANGED <<exp, lapse, loggedOut, visit>>

AccessNext ==
    \/ Tick
    \/ \E t \in Tokens : Sign(t)
    \/ \E r \in Slots :
          \/ \E t \in Tokens, op \in {"use", "logout"} : Arrive(r, t, op)
          \/ VerifyJwt(r) \/ CheckRevocation(r) \/ Answer(r) \/ RevokeToken(r)

AccessSpec == AccessInit /\ [][AccessNext]_accessVars

-----------------------------------------------------------------------------

\* A request is never admitted on a revoked token before the token's own exp:
\* rounding and the time between the two checks leave no gap.
RevocationHoldsUntilExp ==
    \A r \in Slots :
        visit[r].pc # "idle" /\ visit[r].revoked
            => visit[r].at >= exp[visit[r].token] * PerSecond

\* After a logout has been answered, its access token is refused.
LogoutIsFinal ==
    \A r \in Slots : visit[r].pc = "admitted" => ~visit[r].after

=============================================================================
