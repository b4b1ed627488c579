------------------------ MODULE AccessTokens_proofs ------------------------
(***************************************************************************)
(* Proofs about AccessTokens, for any tokens, requests, lifetime and       *)
(* tolerance, and any number of ticks to a second.                         *)
(*                                                                         *)
(* AccessInv adds to the property that a revocation key, once set, does    *)
(* not run out before its token's exp.  That rests on one fact of          *)
(* arithmetic: ttlSecondsUntil rounds up (RoundsUp).                       *)
(***************************************************************************)
EXTENDS AccessTokens, TLAPS

USE AccessAssumption

-----------------------------------------------------------------------------
(* Rounding.                                                               *)

\* What division by PerSecond is, and that it is monotonic.
LEMMA Division ==
    ASSUME NEW a \in Nat
    PROVE  /\ a \div PerSecond \in Nat
           /\ (a \div PerSecond) * PerSecond <= a
           /\ a < (a \div PerSecond) * PerSecond + PerSecond
OBVIOUS

LEMMA DivisionMonotonic ==
    ASSUME NEW a \in Nat, NEW b \in Nat, a <= b
    PROVE  a \div PerSecond <= b \div PerSecond
<1> DEFINE x == a \div PerSecond
           y == b \div PerSecond
<1>1. /\ x \in Nat /\ y \in Nat
      /\ x * PerSecond <= a
      /\ b < y * PerSecond + PerSecond
  BY Division
<1> HIDE DEF x, y
<1>2. x * PerSecond < (y + 1) * PerSecond
  BY <1>1
<1>3. x < y + 1
  BY <1>1, <1>2
<1> QED
  BY <1>1, <1>3 DEF x, y

\* A revocation key set now, with the TTL of ttlSecondsUntil, lasts until exp.
LEMMA RoundsUp ==
    ASSUME NEW second \in Nat, now \in Nat
    PROVE  /\ TtlSecondsUntil(second) \in Nat
           /\ TtlSecondsUntil(second) # 0
                => now + TtlSecondsUntil(second) * PerSecond >= second * PerSecond
           /\ TtlSecondsUntil(second) = 0 => now >= second * PerSecond
<1>1. CASE second * PerSecond <= now
  BY <1>1 DEF TtlSecondsUntil
<1>2. CASE ~(second * PerSecond <= now)
  <2> DEFINE m == second * PerSecond
             a == m - now + PerSecond - 1
             q == a \div PerSecond
  <2>1. m \in Nat
    OBVIOUS
  <2> HIDE DEF m
  <2>2. a \in Nat /\ m > now
    BY <2>1, <1>2 DEF m
  <2>3. q \in Nat /\ a < q * PerSecond + PerSecond
    BY <2>2, Division
  <2>4. TtlSecondsUntil(second) = q
    BY <1>2 DEF TtlSecondsUntil, m
  <2> HIDE DEF q
  <2>5. q * PerSecond \in Nat
    BY <2>3
  <2> DEFINE z == q * PerSecond
  <2>6. z \in Nat /\ m - now + PerSecond - 1 < z + PerSecond
    BY <2>3, <2>5
  <2>7. q # 0
    <3>1. q = 0 => z = 0
      OBVIOUS
    <3> HIDE DEF z
    <3> QED
      BY <2>1, <2>2, <2>6, <3>1
  <2> HIDE DEF z
  <2>8. now + z >= m
    BY <2>1, <2>6
  <2> QED
    BY <2>3, <2>4, <2>7, <2>8 DEF z, m
<1> QED
  BY <1>1, <1>2

-----------------------------------------------------------------------------
(* The inductive invariant.                                                *)

\* A revocation key outlasts its token.
LapseOK == \A t \in Tokens :
               lapse[t] # 0 => exp[t] # 0 /\ lapse[t] >= exp[t] * PerSecond

\* A request has a token that was signed.
VisitOK(r) ==
    visit[r].pc # "idle" => visit[r].token \in Tokens /\ exp[visit[r].token] # 0

AccessInv ==
    /\ AccessTypeOK
    /\ LapseOK
    /\ \A r \in Slots : VisitOK(r)
    /\ RevocationHoldsUntilExp

LEMMA NoVisitType == NoVisit \in Visit
BY DEF NoVisit, Visit, VisitPC

LEMMA AccessInitInv == AccessInit => AccessInv
<1> SUFFICES ASSUME AccessInit PROVE AccessInv
  OBVIOUS
<1>1. MaxTime \div PerSecond \in Nat
  BY Division
<1> DEFINE top == MaxTime \div PerSecond + Lifetime
<1>2. 0 \in 0..top
  BY <1>1
<1> HIDE DEF top
<1>3. exp \in [Tokens -> 0..top]
  BY <1>2 DEF AccessInit
<1>4. AccessTypeOK
  BY <1>3, NoVisitType DEF AccessInit, AccessTypeOK, top
<1> QED
  BY <1>4 DEF AccessInit, AccessInv, LapseOK, VisitOK, RevocationHoldsUntilExp, NoVisit

\* A request that is answered leaves nothing behind.
LEMMA LeaveInv ==
    ASSUME AccessInv, NEW r \in Slots, Leave(r), UNCHANGED <<now, exp, lapse, loggedOut>>
    PROVE  AccessInv'
<1>1. AccessTypeOK'
  BY NoVisitType DEF AccessInv, AccessTypeOK, Leave
<1>2. visit'[r] = NoVisit /\ \A q \in Slots \ {r} : visit'[q] = visit[q]
  BY DEF AccessInv, AccessTypeOK, Leave
<1>3. \A q \in Slots : VisitOK(q)'
  BY <1>2 DEF AccessInv, VisitOK, NoVisit
<1>4. RevocationHoldsUntilExp'
  BY <1>2 DEF AccessInv, RevocationHoldsUntilExp, NoVisit
<1> QED
  BY <1>1, <1>3, <1>4 DEF AccessInv, LapseOK

LEMMA SignInv ==
    ASSUME AccessInv, NEW t \in Tokens, Sign(t)
    PROVE  AccessInv'
<1>1. Seconds + Lifetime \in 0..(MaxTime \div PerSecond + Lifetime)
  <2>1. now \in Nat /\ now <= MaxTime
    BY DEF AccessInv, AccessTypeOK
  <2> DEFINE x == now \div PerSecond
             y == MaxTime \div PerSecond
  <2>2. x \in Nat /\ y \in Nat /\ x <= y
    BY <2>1, Division, DivisionMonotonic
  <2> HIDE DEF x, y
  <2>3. x + Lifetime \in 0..(y + Lifetime)
    BY <2>2
  <2> QED
    BY <2>3 DEF Seconds, x, y
<1> DEFINE e == Seconds + Lifetime
           top == MaxTime \div PerSecond + Lifetime
<1>2. /\ exp[t] = 0
      /\ exp' = [exp EXCEPT ![t] = e]
      /\ UNCHANGED <<now, lapse, loggedOut, visit>>
  BY DEF Sign
<1> HIDE DEF e, top
<1>3. exp \in [Tokens -> 0..top] /\ exp' \in [Tokens -> 0..top]
  BY <1>1, <1>2 DEF AccessInv, AccessTypeOK, e, top
<1>4. \A u \in Tokens \ {t} : exp'[u] = exp[u]
  BY <1>2, <1>3
<1>5. LapseOK'
  BY <1>2, <1>4 DEF AccessInv, LapseOK
<1>6. \A r \in Slots : visit[r].pc # "idle" => visit[r].token \in Tokens \ {t}
  BY <1>2 DEF AccessInv, VisitOK
<1>7. \A r \in Slots : VisitOK(r)'
  BY <1>2, <1>4, <1>6 DEF AccessInv, VisitOK
<1>8. RevocationHoldsUntilExp'
  BY <1>2, <1>4, <1>6 DEF AccessInv, RevocationHoldsUntilExp
<1>9. AccessTypeOK'
  BY <1>2, <1>3 DEF AccessInv, AccessTypeOK, top
<1> QED
  BY <1>5, <1>7, <1>8, <1>9 DEF AccessInv

\* Request r moves on with the same token.
LEMMA VisitLemma ==
    ASSUME AccessInv, NEW r \in Slots, NEW x \in Visit,
           visit' = [visit EXCEPT ![r] = x], UNCHANGED <<now, exp, lapse, loggedOut>>,
           x.token \in Tokens, exp[x.token] # 0,
           x.revoked => x.at >= exp[x.token] * PerSecond
    PROVE  AccessInv'
<1>1. visit'[r] = x /\ \A q \in Slots \ {r} : visit'[q] = visit[q]
  BY DEF AccessInv, AccessTypeOK
<1>2. AccessTypeOK'
  BY DEF AccessInv, AccessTypeOK
<1>3. \A q \in Slots : VisitOK(q)'
  BY <1>1 DEF AccessInv, VisitOK
<1>4. RevocationHoldsUntilExp'
  BY <1>1 DEF AccessInv, RevocationHoldsUntilExp
<1> QED
  BY <1>2, <1>3, <1>4 DEF AccessInv, LapseOK

LEMMA ArriveInv ==
    ASSUME AccessInv, NEW r \in Slots, NEW t \in Tokens, NEW op \in {"use", "logout"},
           Arrive(r, t, op)
    PROVE  AccessInv'
<1> DEFINE late == t \in loggedOut
           x == [NoVisit EXCEPT !.pc = "verify", !.token = t, !.op = op,
                                !.after = late]
<1>1. x \in Visit /\ x.token = t /\ ~x.revoked
  <2>1. late \in BOOLEAN
    OBVIOUS
  <2> HIDE DEF late
  <2>2. NoVisit \in Visit /\ ~NoVisit.revoked
    BY NoVisitType DEF NoVisit
  <2>3. \A y \in Visit :
            LET z == [y EXCEPT !.pc = "verify", !.token = t, !.op = op, !.after = late]
            IN  z \in Visit /\ z.token = t /\ z.revoked = y.revoked
    BY <2>1 DEF Visit, VisitPC
  <2> QED
    BY <2>2, <2>3
<1>2. /\ visit' = [visit EXCEPT ![r] = x]
      /\ exp[t] # 0
      /\ UNCHANGED <<now, exp, lapse, loggedOut>>
  BY DEF Arrive
<1> HIDE DEF x
<1> QED
  BY <1>1, <1>2, VisitLemma

LEMMA VerifyJwtInv ==
    ASSUME AccessInv, NEW r \in Slots, VerifyJwt(r)
    PROVE  AccessInv'
<1> DEFINE x == [visit[r] EXCEPT !.pc = "check"]
<1>1. \/ Leave(r)
      \/ visit' = [visit EXCEPT ![r] = x]
  BY DEF VerifyJwt
<1>2. visit[r].pc = "verify" /\ UNCHANGED <<now, exp, lapse, loggedOut>>
  BY DEF VerifyJwt
<1>3. /\ x \in Visit
      /\ x.token = visit[r].token /\ x.revoked = visit[r].revoked /\ x.at = visit[r].at
  BY DEF AccessInv, AccessTypeOK, Visit, VisitPC
<1> HIDE DEF x
<1>4. /\ x.token \in Tokens /\ exp[x.token] # 0
      /\ x.revoked => x.at >= exp[x.token] * PerSecond
  BY <1>2, <1>3 DEF AccessInv, VisitOK, RevocationHoldsUntilExp
<1> QED
  BY <1>1, <1>2, <1>3, <1>4, LeaveInv, VisitLemma

\* GET finds no key although one was set: it has run out, and exp is past.
LEMMA CheckRevocationInv ==
    ASSUME AccessInv, NEW r \in Slots, CheckRevocation(r)
    PROVE  AccessInv'
<1> DEFINE t == visit[r].token
           x == [visit[r] EXCEPT !.pc = IF visit[r].op = "logout"
                                          THEN "revoke" ELSE "admitted",
                                 !.revoked = lapse[visit[r].token] # 0,
                                 !.at = now]
<1>1. /\ IF IsTokenRevoked(t) THEN Leave(r) ELSE visit' = [visit EXCEPT ![r] = x]
      /\ UNCHANGED <<now, exp, lapse, loggedOut>>
  BY DEF CheckRevocation
<1>2. t \in Tokens /\ exp[t] # 0
  BY DEF AccessInv, VisitOK, CheckRevocation
<1>3. x \in Visit /\ x.token = t /\ x.revoked = (lapse[t] # 0) /\ x.at = now
  <2>1. visit[r] \in Visit /\ now \in 0..MaxTime
    BY DEF AccessInv, AccessTypeOK
  <2> QED
    BY <2>1 DEF Visit, VisitPC
<1> HIDE DEF x
<1>4. CASE IsTokenRevoked(t)
  BY <1>1, <1>4, LeaveInv
<1>5. CASE ~IsTokenRevoked(t)
  <2>1. /\ lapse[t] \in Nat /\ exp[t] \in Nat /\ now \in Nat
        /\ exp[t] * PerSecond \in Nat
    BY <1>2 DEF AccessInv, AccessTypeOK
  <2>2. lapse[t] <= now /\ (lapse[t] # 0 => lapse[t] >= exp[t] * PerSecond)
    BY <1>2, <1>5, <2>1 DEF AccessInv, LapseOK, IsTokenRevoked
  <2>3. lapse[t] # 0 => now >= exp[t] * PerSecond
    BY <2>1, <2>2
  <2> QED
    BY <1>1, <1>2, <1>3, <1>5, <2>3, VisitLemma
<1> QED
  BY <1>4, <1>5

LEMMA RevokeTokenInv ==
    ASSUME AccessInv, NEW r \in Slots, RevokeToken(r)
    PROVE  AccessInv'
<1> DEFINE t == visit[r].token
           ttl == TtlSecondsUntil(exp[t])
<1>1. /\ lapse' = IF ttl = 0 THEN lapse
                   ELSE [lapse EXCEPT ![t] = now + ttl * PerSecond]
      /\ loggedOut' = loggedOut \cup {t}
      /\ Leave(r)
      /\ UNCHANGED <<now, exp>>
  BY DEF RevokeToken
<1>2. t \in Tokens /\ exp[t] # 0
  BY DEF AccessInv, VisitOK, RevokeToken
<1>3. now \in Nat /\ exp[t] \in Nat /\ lapse \in [Tokens -> Nat]
  BY <1>2 DEF AccessInv, AccessTypeOK
<1>4. ttl \in Nat /\ (ttl # 0 => now + ttl * PerSecond >= exp[t] * PerSecond)
  BY <1>3, RoundsUp
<1> HIDE DEF ttl
<1> DEFINE until == now + ttl * PerSecond
<1>5. until \in Nat
  BY <1>3, <1>4
<1>6. lapse' \in [Tokens -> Nat]
  <2> HIDE DEF until
  <2> QED
    BY <1>1, <1>3, <1>5 DEF until
<1>7. LapseOK'
  <2>1. ttl # 0 => lapse'[t] = until /\ until >= exp[t] * PerSecond
    BY <1>1, <1>2, <1>3, <1>4
  <2>2. \A u \in Tokens : u # t \/ ttl = 0 => lapse'[u] = lapse[u]
    BY <1>1, <1>3
  <2> HIDE DEF until
  <2> QED
    BY <1>1, <1>2, <2>1, <2>2 DEF AccessInv, LapseOK
<1>8. AccessTypeOK'
  BY <1>1, <1>2, <1>6, NoVisitType DEF AccessInv, AccessTypeOK, Leave
<1>9. visit'[r] = NoVisit /\ \A q \in Slots \ {r} : visit'[q] = visit[q]
  BY <1>1 DEF AccessInv, AccessTypeOK, Leave
<1>10. (\A q \in Slots : VisitOK(q)') /\ RevocationHoldsUntilExp'
  BY <1>1, <1>9 DEF AccessInv, VisitOK, RevocationHoldsUntilExp, NoVisit
<1> QED
  BY <1>7, <1>8, <1>10 DEF AccessInv

\* The inductive invariant holds in every reachable state: a revocation key
\* outlives the token it revokes.
THEOREM AccessInvariance == AccessSpec => []AccessInv
<1>1. AccessInv /\ [AccessNext]_accessVars => AccessInv'
  <2> SUFFICES ASSUME AccessInv, [AccessNext]_accessVars PROVE AccessInv'
    OBVIOUS
  <2>1. CASE Tick \/ UNCHANGED accessVars
    <3>1. now' \in 0..MaxTime /\ UNCHANGED <<exp, lapse, loggedOut, visit>>
      BY <2>1 DEF AccessInv, AccessTypeOK, Tick, accessVars
    <3> QED
      BY <3>1 DEF AccessInv, AccessTypeOK, LapseOK, VisitOK, RevocationHoldsUntilExp
  <2>2. ASSUME NEW r \in Slots, Answer(r) PROVE AccessInv'
    BY <2>2, LeaveInv DEF Answer
  <2> QED
    BY <2>1, <2>2, SignInv, ArriveInv, VerifyJwtInv, CheckRevocationInv, RevokeTokenInv
       DEF AccessNext
<1> QED
  BY <1>1, AccessInitInv, PTL DEF AccessSpec

-----------------------------------------------------------------------------
(* The theorems.                                                           *)

\* The clock, the expiries and the requests keep their types.
THEOREM AccessTyping == AccessSpec => []AccessTypeOK
BY AccessInvariance, PTL DEF AccessInv

\* For any lifetime, tolerance and resolution of the clocks, no request is
\* admitted on a revoked token before the token's own exp.
THEOREM RevocationsHold == AccessSpec => []RevocationHoldsUntilExp
BY AccessInvariance, PTL DEF AccessInv

=============================================================================
