---------------------- MODULE SessionGuarantees_proofs ----------------------
(***************************************************************************)
(* Proofs about AuthSessions that build on its inductive invariant:        *)
(*                                                                         *)
(*   - the handlers implement SessionLineage, whatever interleaves;        *)
(*   - a refresh token has at most as many successors as requests can be   *)
(*     in flight together;                                                 *)
(*   - an idempotency key has one owner, and a retry gets the answer on    *)
(*     record, while no slot lapses under an owner at work                 *)
(*     (ClaimsMayLapse = FALSE).                                           *)
(***************************************************************************)
EXTENDS AuthSessions_proofs, FiniteSetTheorems

USE StoreAssumption, CacheAssumption, SessionsAssumption DEF jtiVars

-----------------------------------------------------------------------------
(* The refinement of SessionLineage.                                       *)

\* A request that leaves rotation has inserted its row or has ended.
LEMMA LeavesRotation ==
    ASSUME IInv, NEW r \in Slots, req[r].op = "refresh", req[r].pc \in Rotating,
           Start(r) \/ Step(r) \/ ClaimReplyLost(r)
    PROVE  \/ Insert(r) \/ InsertRefused(r)
           \/ req'[r].op = "refresh" /\ req'[r].pc \in Rotating
<1> USE DEF IInv, TypeOK
<1> req[r] \in Request
  OBVIOUS
<1>1. \/ RotateUpdate(r) \/ RotateMirror(r) \/ Insert(r) \/ InsertRefused(r)
  BY DEF Rotating, At, Start, StartLogin, StartRefresh, StartLogout, Step,
         RefreshStep, LogoutStep, ClaimWon, ClaimLost, ClaimReplyLost, PollHit,
         PollAgain, PollGiveUp, SelectReplay, SelectRefused, SelectUsable,
         FamilySelect, FamilyUpdate, FamilyMirror, MirrorOne, Reject, UserFound,
         UserMissing, Complete, LogoutJti, LogoutSelect, LogoutUpdate,
         LogoutMirror, Respond
<1>2. CASE RotateUpdate(r)
  <2>1. req'[r] = [req[r] EXCEPT !.pc = "rotMirror", !.todo = {req[r].row}]
    BY <1>2 DEF RotateUpdate, Become
  <2> QED
    BY <2>1 DEF Request, Rotating
<1>3. CASE RotateMirror(r)
  <2>1. MirrorOne(r, "rotMirror", "insert") /\ "rotMirror" \in PC /\ "insert" \in PC
    BY <1>3 DEF RotateMirror, PC, Rotating
  <2> QED
    BY <2>1, MirrorStep DEF Rotating
<1> QED
  BY <1>1, <1>2, <1>3

\* A request's grant comes and goes with these steps only.
LEMMA OwnGrant ==
    ASSUME IInv, NEW r \in Slots, Start(r) \/ Step(r) \/ ClaimReplyLost(r),
           ~SelectUsable(r), ~Insert(r), ~InsertRefused(r)
    PROVE  LineageGrant' = LineageGrant
<1> USE DEF IInv, TypeOK
<1>1. Next
  BY DEF Next, Environment
<1>2. ASSUME NEW q \in Slots \ {r} PROVE req'[q] = req[q]
  BY OthersWait
<1>3. req'[r].op = "refresh" /\ req'[r].pc \in Rotating
        => /\ req[r].op = "refresh" /\ req[r].pc \in Rotating
           /\ req'[r].token = req[r].token
  BY <1>1, EntersRotation
<1>4. req[r].op = "refresh" /\ req[r].pc \in Rotating
        => req'[r].op = "refresh" /\ req'[r].pc \in Rotating
  BY LeavesRotation
<1> QED
  BY <1>2, <1>3, <1>4 DEF LineageGrant

\* Steps that touch neither the rows nor a grant.
LEMMA LineageStutters ==
    ASSUME UNCHANGED <<issued, reason, parent, sessionFamily>>,
           LineageGrant' = LineageGrant
    PROVE  UNCHANGED Lineage!lineageVars
BY DEF Lineage!lineageVars, LineageStatus

LEMMA InsertOpensOrExchanges ==
    ASSUME IInv, NEW r \in Slots, Insert(r)
    PROVE  Lineage!LineageNext
<1> USE DEF IInv, TypeOK, StoreTypeOK
<1>1. PICK n \in Token : n = New
  BY InsertFacts
<1>2. /\ issued' = n /\ issued < n /\ issued = n - 1
      /\ reason' = [reason EXCEPT ![n] = "active"]
      /\ parent' = [parent EXCEPT ![n] = req[r].row]
      /\ issued \in Nat /\ n \in Nat
  BY <1>1, InsertFacts DEF New, Token
<1>3. /\ LineageStatus[n] = "unborn"
      /\ LineageStatus' = [LineageStatus EXCEPT ![n] = "usable"]
  <2>1. LineageStatus[n] = "unborn"
    BY <1>2 DEF LineageStatus
  <2>2. ASSUME NEW t \in Token
        PROVE  LineageStatus'[t] = IF t = n THEN "usable" ELSE LineageStatus[t]
    <3>1. LineageStatus[t] = IF t > issued THEN "unborn"
                             ELSE IF reason[t] = "active" THEN "usable" ELSE "spent"
      BY DEF LineageStatus
    <3>2. LineageStatus'[t] = IF t > issued' THEN "unborn"
                              ELSE IF reason'[t] = "active" THEN "usable" ELSE "spent"
      BY DEF LineageStatus
    <3>3. t \in Nat
      BY DEF Token
    <3>4. CASE t = n
      BY <1>2, <3>2, <3>4
    <3>5. CASE t # n
      <4>1. reason'[t] = reason[t] /\ (t > issued' <=> t > issued)
        BY <1>2, <3>3, <3>5
      <4> QED
        BY <3>1, <3>2, <3>5, <4>1
    <3> QED
      BY <3>4, <3>5
  <2>3. LineageStatus' = [t \in Token |-> LineageStatus'[t]]
    BY DEF LineageStatus
  <2>4. LineageStatus = [t \in Token |-> LineageStatus[t]]
    BY DEF LineageStatus
  <2> QED
    BY <2>1, <2>2, <2>3, <2>4
<1>4. ASSUME NEW q \in Slots \ {r} PROVE req'[q] = req[q]
  BY OthersWait DEF Step
<1>5. req'[r].pc \in {"respond", "findUser"}
  BY DEF Insert, Become, Request
<1>6. LineageGrant' = [LineageGrant EXCEPT ![r] = None]
  BY <1>4, <1>5 DEF LineageGrant, Rotating
<1>7. req[r].pc = "insert"
  BY DEF Insert, At
<1>8. CASE req[r].op = "login"
  <2>1. req[r].row = None
    BY <1>8, InsertFacts
  <2>2. sessionFamily' = [sessionFamily EXCEPT ![n] = n]
    BY <1>1, <1>8 DEF Insert, InsertRow
  <2>3. LineageGrant' = LineageGrant
    BY <1>6, <1>8 DEF LineageGrant
  <2>4. Lineage!Open(n)
    BY <1>2, <1>3, <2>1, <2>2, <2>3 DEF Lineage!Open, Lineage!Born
  <2> QED
    BY <2>4 DEF Lineage!LineageNext
<1>9. CASE req[r].op = "refresh"
  <2>1. req[r].row = req[r].token /\ req[r].token \in Token /\ Dead(req[r].token)
    BY <1>9, InsertFacts
  <2>2. LineageGrant[r] = req[r].token
    BY <1>7, <1>9 DEF LineageGrant, Rotating
  <2>3. LineageStatus[req[r].token] = "spent"
    BY <1>2, <2>1 DEF LineageStatus, Dead, Stored, Token
  <2>4. Family(r) # None
    BY <2>1 DEF StoreOK, Dead, Stored, Family
  <2>5. sessionFamily' = [sessionFamily EXCEPT ![n] = sessionFamily[req[r].token]]
    BY <1>1, <1>9, <2>4 DEF Insert, InsertRow, Family
  <2>6. Lineage!Born(n, sessionFamily[LineageGrant[r]], LineageGrant[r])
    <3>1. /\ sessionFamily' = [sessionFamily EXCEPT ![n] = sessionFamily[LineageGrant[r]]]
          /\ parent' = [parent EXCEPT ![n] = LineageGrant[r]]
      BY <1>2, <2>1, <2>2, <2>5
    <3> QED
      BY <1>3, <3>1 DEF Lineage!Born
  <2>7. LineageGrant[r] # None /\ LineageStatus[LineageGrant[r]] = "spent"
    BY <2>1, <2>2, <2>3
  <2>8. Lineage!Exchange(r, n)
    BY <1>6, <2>6, <2>7 DEF Lineage!Exchange
  <2> QED
    BY <2>8 DEF Lineage!LineageNext
<1> QED
  BY <1>8, <1>9, InsertFacts

LEMMA SelectGrants ==
    ASSUME IInv, NEW r \in Slots, SelectUsable(r)
    PROVE  Lineage!LineageNext
<1> USE DEF IInv, TypeOK, StoreTypeOK
<1>1. req[r] \in Request /\ req[r].pc = "select"
  BY DEF SelectUsable, At
<1>2. req[r].op = "refresh" /\ req[r].token \in Token /\ Stored(req[r].token)
  BY <1>1 DEF SlotOK, PcOK, TokensOK, LogoutPC, Request
<1>3. reason[req[r].token] = "active"
  BY <1>2 DEF SelectUsable, IsRevoked, Usable, Reason
<1>4. ASSUME NEW q \in Slots \ {r} PROVE req'[q] = req[q]
  BY OthersWait DEF Step, RefreshStep
<1>5. /\ req'[r].op = "refresh" /\ req'[r].pc \in Rotating
      /\ req'[r].token = req[r].token
  <2>1. req'[r] = [req[r] EXCEPT !.pc = "rotUpdate", !.row = req[r].token,
                                 !.user = userId[req[r].token]]
    BY DEF SelectUsable, Become
  <2> QED
    BY <1>1, <1>2, <2>1 DEF Request, Rotating
<1>6. LineageGrant[r] = None
  BY <1>1 DEF LineageGrant, Rotating
<1>7. LineageStatus[req[r].token] = "usable"
  BY <1>2, <1>3 DEF LineageStatus, Stored, Token
<1>8. LineageGrant' = [LineageGrant EXCEPT ![r] = req[r].token]
  BY <1>4, <1>5 DEF LineageGrant
<1>9. LineageStatus' = LineageStatus /\ UNCHANGED <<sessionFamily, parent>>
  BY DEF SelectUsable, storeVars, LineageStatus
<1>10. Lineage!Grant(r, req[r].token)
  BY <1>6, <1>7, <1>8, <1>9 DEF Lineage!Grant
<1> QED
  BY <1>2, <1>10 DEF Lineage!LineageNext

\* An UPDATE spends the rows of S that are in the table.
LEMMA MarkSpends ==
    ASSUME IInv, NEW S, NEW why \in Revoked, MarkRevoked(S, why),
           LineageGrant' = LineageGrant
    PROVE  Lineage!LineageNext
<1> USE DEF IInv, TypeOK, StoreTypeOK
<1> DEFINE M == {t \in Token : t \in S /\ reason[t] # "absent"}
<1>1. \A t \in M : LineageStatus[t] # "unborn"
  BY DEF LineageStatus, StoreOK
<1>2. ASSUME NEW t \in Token
      PROVE  LineageStatus'[t] = IF t \in M THEN "spent" ELSE LineageStatus[t]
  BY <1>1 DEF MarkRevoked, LineageStatus, Revoked
<1>3. LineageStatus' = [t \in Token |-> IF t \in M THEN "spent" ELSE LineageStatus[t]]
  BY <1>2 DEF LineageStatus
<1>4. UNCHANGED <<sessionFamily, parent>>
  BY DEF MarkRevoked
<1>5. M \in SUBSET Token
  OBVIOUS
<1> HIDE DEF M
<1>6. Lineage!Spend(M)
  BY <1>1, <1>3, <1>4 DEF Lineage!Spend
<1> QED
  BY <1>5, <1>6 DEF Lineage!LineageNext

LEMMA DeletionSpends ==
    ASSUME IInv, NEW u \in Users, DeleteUser(u)
    PROVE  Lineage!LineageNext
<1> USE DEF IInv, TypeOK, StoreTypeOK
<1> DEFINE M == {t \in Token : t <= issued /\ userId[t] = u}
<1>1. \A t \in M : LineageStatus[t] # "unborn"
  BY DEF LineageStatus, Token
<1>2. ASSUME NEW t \in Token
      PROVE  LineageStatus'[t] = IF t \in M THEN "spent" ELSE LineageStatus[t]
  BY <1>1 DEF DeleteUser, CascadeDelete, LineageStatus, Token
<1>3. LineageStatus' = [t \in Token |-> IF t \in M THEN "spent" ELSE LineageStatus[t]]
  BY <1>2 DEF LineageStatus
<1>4. UNCHANGED <<sessionFamily, parent>> /\ LineageGrant' = LineageGrant
  BY DEF DeleteUser, CascadeDelete, LineageGrant
<1>5. M \in SUBSET Token
  OBVIOUS
<1> HIDE DEF M
<1>6. Lineage!Spend(M)
  BY <1>1, <1>3, <1>4 DEF Lineage!Spend
<1> QED
  BY <1>5, <1>6 DEF Lineage!LineageNext

\* A request that ends gives up the grant it may have had.
LEMMA EndGivesUp ==
    ASSUME IInv, NEW r \in Slots, End(r), UNCHANGED storeVars
    PROVE  Lineage!LineageNext
<1>1. req' = [req EXCEPT ![r] = Idle]
  BY DEF End, Become
<1>2. req'[r].op = "none" /\ \A q \in Slots \ {r} : req'[q] = req[q]
  BY <1>1 DEF IInv, TypeOK, Idle
<1>3. LineageGrant' = [LineageGrant EXCEPT ![r] = None]
  BY <1>2 DEF LineageGrant
<1>4. LineageStatus' = LineageStatus /\ UNCHANGED <<sessionFamily, parent>>
  BY DEF storeVars, LineageStatus
<1>5. Lineage!GiveUp(r)
  BY <1>3, <1>4 DEF Lineage!GiveUp
<1> QED
  BY <1>5 DEF Lineage!LineageNext

LEMMA LineageStep ==
    ASSUME IInv, [Next]_vars
    PROVE  [Lineage!LineageNext]_Lineage!lineageVars
<1>1. CASE UNCHANGED vars
  <2>1. LineageGrant' = LineageGrant
    BY <1>1 DEF vars, LineageGrant
  <2> QED
    BY <1>1, <2>1, LineageStutters DEF vars, storeVars
<1>2. ASSUME NEW r \in Slots, Start(r) \/ Step(r) \/ ClaimReplyLost(r)
      PROVE  [Lineage!LineageNext]_Lineage!lineageVars
  <2>1. CASE Insert(r)
    BY <2>1, InsertOpensOrExchanges
  <2>2. CASE SelectUsable(r)
    BY <2>2, SelectGrants
  <2>3. CASE InsertRefused(r)
    BY <2>3, EndGivesUp DEF InsertRefused
  <2>4. CASE ~Insert(r) /\ ~SelectUsable(r) /\ ~InsertRefused(r)
    <3>1. LineageGrant' = LineageGrant
      BY <1>2, <2>4, OwnGrant
    <3>2. CASE RotateUpdate(r) \/ FamilyUpdate(r) \/ LogoutUpdate(r)
      <4>1. \E S : \E why \in Revoked : MarkRevoked(S, why)
        BY <3>2 DEF RotateUpdate, FamilyUpdate, LogoutUpdate, Revoked
      <4> QED
        BY <3>1, <4>1, MarkSpends
    <3>3. CASE ~RotateUpdate(r) /\ ~FamilyUpdate(r) /\ ~LogoutUpdate(r)
      <4>1. UNCHANGED <<issued, reason, parent, sessionFamily>>
        BY <1>2, <2>4, <3>3 DEF Start, StartLogin, StartRefresh, StartLogout,
           Step, RefreshStep, LogoutStep, ClaimWon, ClaimLost, ClaimReplyLost,
           PollHit, PollAgain, PollGiveUp, SelectReplay, SelectRefused,
           RotateMirror, FamilySelect, FamilyMirror, Reject, UserFound,
           UserMissing, Complete, LogoutJti, LogoutSelect, LogoutMirror,
           MirrorOne, CacheRevocation, Respond, storeVars
      <4> QED
        BY <3>1, <4>1, LineageStutters
    <3> QED
      BY <3>2, <3>3
  <2> QED
    BY <2>1, <2>2, <2>3, <2>4
<1>3. ASSUME NEW r \in Slots, Fail(r)
      PROVE  [Lineage!LineageNext]_Lineage!lineageVars
  BY <1>3, EndGivesUp DEF Fail
<1>4. ASSUME NEW u \in Users, DeleteUser(u)
      PROVE  [Lineage!LineageNext]_Lineage!lineageVars
  BY <1>4, DeletionSpends
<1>5. ASSUME NEW t \in Token, RowExpires(t) \/ MirrorKeyLapses(t)
      PROVE  [Lineage!LineageNext]_Lineage!lineageVars
  <2>1. LineageGrant' = LineageGrant
    BY <1>5 DEF RowExpires, MirrorKeyLapses, LineageGrant
  <2> QED
    BY <1>5, <2>1, LineageStutters
    DEF RowExpires, Expire, MirrorKeyLapses, MirrorLapse
<1>6. ASSUME NEW k \in Keys, ClaimLapses(k)
      PROVE  [Lineage!LineageNext]_Lineage!lineageVars
  <2>1. \A q \in Slots : /\ req'[q].pc = req[q].pc /\ req'[q].op = req[q].op
                         /\ req'[q].token = req[q].token
    BY <1>6 DEF ClaimLapses, IInv, TypeOK, Request
  <2>2. LineageGrant' = LineageGrant
    BY <2>1 DEF LineageGrant
  <2> QED
    BY <1>6, <2>2, LineageStutters DEF ClaimLapses, storeVars
<1>7. ASSUME NEW t \in Token, AccessAges(t) \/ JtiKeyLapses(t)
      PROVE  [Lineage!LineageNext]_Lineage!lineageVars
  <2>1. LineageGrant' = LineageGrant
    BY <1>7 DEF AccessAges, JtiKeyLapses, LineageGrant
  <2> QED
    BY <1>7, <2>1, LineageStutters DEF AccessAges, JtiKeyLapses, storeVars
<1> QED
  BY <1>1, <1>2, <1>3, <1>4, <1>5, <1>6, <1>7 DEF Next, Environment

LEMMA LineageStart == Init => Lineage!LineageInit
<1> SUFFICES ASSUME Init PROVE Lineage!LineageInit
  OBVIOUS
<1>1. LineageStatus = [t \in Token |-> "unborn"]
  BY DEF Init, StoreInit, LineageStatus, Token
<1>2. LineageGrant = [r \in Slots |-> None]
  BY DEF Init, LineageGrant, Idle
<1> QED
  BY <1>1, <1>2 DEF Init, StoreInit, Lineage!LineageInit

\* Any interleaving of the handlers' statements, with any failure between
\* them, is a history of sessions that SessionLineage allows: a session grows
\* only by an exchange granted while the presented token could be used.
THEOREM SessionsImplementLineage == Spec => ImplementsLineage
<1>1. IInv /\ [Next]_vars => [Lineage!LineageNext]_Lineage!lineageVars
  BY LineageStep
<1> QED
  BY Invariance, LineageStart, <1>1, PTL
  DEF Spec, ImplementsLineage, Lineage!LineageSpec

-----------------------------------------------------------------------------
(* How often a token can be exchanged.                                     *)

\* The tokens that were issued for t.
Successors(t) == {u \in Token : parent[u] = t}

\* The requests that are still to be issued one.
Granted(t) == {r \in Slots : LineageGrant[r] = t}

\* Once t has a successor no request is granted another exchange of it.
ExchangesInv ==
    \A t \in Token :
        Successors(t) # {}
            => Cardinality(Successors(t)) + Cardinality(Granted(t)) <= Cardinality(Slots)

LEMMA Finiteness ==
    ASSUME IsFiniteSet(Slots), NEW t
    PROVE  /\ IsFiniteSet(Successors(t)) /\ Cardinality(Successors(t)) \in Nat
           /\ IsFiniteSet(Granted(t)) /\ Cardinality(Granted(t)) \in Nat
           /\ Cardinality(Granted(t)) <= Cardinality(Slots)
           /\ Cardinality(Slots) \in Nat
<1>1. IsFiniteSet(Token)
  BY FS_Interval DEF Token
<1>2. Successors(t) \in SUBSET Token /\ Granted(t) \in SUBSET Slots
  BY DEF Successors, Granted
<1> QED
  BY <1>1, <1>2, FS_Subset, FS_CardinalityType

\* The requests with a grant for t can only become fewer, or t has no successor.
LEMMA FewerGranted ==
    ASSUME IsFiniteSet(Slots), ExchangesInv, NEW t \in Token,
           Successors(t)' = Successors(t),
           Successors(t) # {} => Granted(t)' \subseteq Granted(t),
           Successors(t)' # {}
    PROVE  Cardinality(Successors(t))' + Cardinality(Granted(t))' <= Cardinality(Slots)
<1>1. PICK S : S = Granted(t)'
  OBVIOUS
<1>2. S \in SUBSET Granted(t)
  BY <1>1
<1>3. Cardinality(S) <= Cardinality(Granted(t)) /\ Cardinality(S) \in Nat
  BY <1>2, Finiteness, FS_Subset, FS_CardinalityType
<1>4. Cardinality(Successors(t)) + Cardinality(Granted(t)) <= Cardinality(Slots)
  BY DEF ExchangesInv
<1>5. Cardinality(Successors(t)) + Cardinality(S) <= Cardinality(Slots)
  BY <1>3, <1>4, Finiteness
<1> QED
  BY <1>1, <1>5

LEMMA ExchangesStep ==
    ASSUME IsFiniteSet(Slots), IInv, ExchangesInv,
           [Lineage!LineageNext]_Lineage!lineageVars
    PROVE  ExchangesInv'
<1> USE DEF IInv, TypeOK, StoreTypeOK
<1> SUFFICES ASSUME NEW t \in Token, Successors(t)' # {}
             PROVE  Cardinality(Successors(t))' + Cardinality(Granted(t))'
                      <= Cardinality(Slots)
  BY DEF ExchangesInv
<1>1. \A n \in Token : LineageStatus[n] = "unborn" => parent[n] = None
  BY DEF LineageStatus, StoreOK
<1>2. CASE UNCHANGED Lineage!lineageVars \/ \E S \in SUBSET Token : Lineage!Spend(S)
  <2>1. UNCHANGED <<parent, LineageGrant>>
    BY <1>2 DEF Lineage!lineageVars, Lineage!Spend
  <2>2. Successors(t)' = Successors(t) /\ Granted(t)' = Granted(t)
    BY <2>1 DEF Successors, Granted
  <2> QED
    BY <2>2, FewerGranted
<1>3. ASSUME NEW n \in Token, Lineage!Open(n)
      PROVE  Cardinality(Successors(t))' + Cardinality(Granted(t))' <= Cardinality(Slots)
  <2>1. parent' = [parent EXCEPT ![n] = None] /\ LineageGrant' = LineageGrant
        /\ parent[n] = None
    BY <1>1, <1>3 DEF Lineage!Open, Lineage!Born
  <2>2. Successors(t)' = Successors(t) /\ Granted(t)' = Granted(t)
    BY <2>1 DEF Successors, Granted
  <2> QED
    BY <2>2, FewerGranted
<1>4. ASSUME NEW r \in Slots, Lineage!GiveUp(r)
      PROVE  Cardinality(Successors(t))' + Cardinality(Granted(t))' <= Cardinality(Slots)
  <2>1. LineageGrant' = [LineageGrant EXCEPT ![r] = None] /\ parent' = parent
    BY <1>4 DEF Lineage!GiveUp
  <2>2. LineageGrant = [q \in Slots |-> LineageGrant[q]]
    BY DEF LineageGrant
  <2>3. Granted(t)' \subseteq Granted(t)
    BY <2>1, <2>2 DEF Granted
  <2>4. Successors(t)' = Successors(t)
    BY <2>1 DEF Successors
  <2> QED
    BY <2>3, <2>4, FewerGranted
<1>5. ASSUME NEW r \in Slots, NEW x \in Token, Lineage!Grant(r, x)
      PROVE  Cardinality(Successors(t))' + Cardinality(Granted(t))' <= Cardinality(Slots)
  <2>1. /\ LineageGrant' = [LineageGrant EXCEPT ![r] = x] /\ parent' = parent
        /\ LineageStatus[x] = "usable"
    BY <1>5 DEF Lineage!Grant
  <2>2. Successors(x) = {}
    BY <2>1 DEF Successors, LineageStatus, StoreOK, Dead
  <2>3. LineageGrant = [q \in Slots |-> LineageGrant[q]]
    BY DEF LineageGrant
  <2>4. Successors(t) # {} => Granted(t)' \subseteq Granted(t)
    BY <2>1, <2>2, <2>3 DEF Granted
  <2>5. Successors(t)' = Successors(t)
    BY <2>1 DEF Successors
  <2> QED
    BY <2>4, <2>5, FewerGranted
<1>6. ASSUME NEW r \in Slots, NEW n \in Token, Lineage!Exchange(r, n)
      PROVE  Cardinality(Successors(t))' + Cardinality(Granted(t))' <= Cardinality(Slots)
  <2>1. PICK g \in Token : g = LineageGrant[r]
    BY <1>6 DEF Lineage!Exchange, LineageGrant, Request
  <2>2. /\ LineageGrant' = [LineageGrant EXCEPT ![r] = None]
        /\ parent' = [parent EXCEPT ![n] = g]
        /\ parent[n] = None
    BY <1>1, <1>6, <2>1 DEF Lineage!Exchange, Lineage!Born
  <2>3. LineageGrant = [q \in Slots |-> LineageGrant[q]]
    BY DEF LineageGrant
  <2>4. CASE t # g
    <3>1. Successors(t)' = Successors(t) /\ Granted(t)' \subseteq Granted(t)
      BY <2>1, <2>2, <2>3, <2>4 DEF Successors, Granted
    <3> QED
      BY <3>1, FewerGranted
  <2>5. CASE t = g
    <3>1. PICK S : S = Successors(t)'
      OBVIOUS
    <3>2. PICK G : G = Granted(t)'
      OBVIOUS
    <3>3. S = Successors(t) \cup {n} /\ n \notin Successors(t)
      BY <2>2, <2>5, <3>1 DEF Successors
    <3>4. G = Granted(t) \ {r} /\ r \in Granted(t)
      BY <2>1, <2>2, <2>3, <2>5, <3>2 DEF Granted
    <3>5. Cardinality(S) = Cardinality(Successors(t)) + 1
      BY <3>3, Finiteness, FS_AddElement
    <3>6. Cardinality(G) = Cardinality(Granted(t)) - 1
      BY <3>4, Finiteness, FS_RemoveElement
    <3>7. Cardinality(Successors(t)) + Cardinality(Granted(t)) <= Cardinality(Slots)
      <4>1. CASE Successors(t) = {}
        BY <4>1, Finiteness, FS_EmptySet
      <4>2. CASE Successors(t) # {}
        BY <4>2 DEF ExchangesInv
      <4> QED
        BY <4>1, <4>2
    <3>8. Cardinality(S) + Cardinality(G) <= Cardinality(Slots)
      BY <3>5, <3>6, <3>7, Finiteness
    <3> QED
      BY <3>1, <3>2, <3>8
  <2> QED
    BY <2>4, <2>5
<1> QED
  BY <1>2, <1>3, <1>4, <1>5, <1>6 DEF Lineage!LineageNext

\* A refresh token has at most as many successors as requests can be in
\* flight together: the UPDATE and INSERT of rotateRefreshToken do not look
\* again at what its SELECT read, so overlapping requests may each issue one,
\* but none that arrives after the first exchange.
THEOREM ExchangesAreBounded ==
    ASSUME IsFiniteSet(Slots)
    PROVE  Spec => [](\A t \in Token : Cardinality(Successors(t)) <= Cardinality(Slots))
<1>1. Init => ExchangesInv
  BY DEF Init, StoreInit, ExchangesInv, Successors
<1>2. IInv /\ ExchangesInv /\ [Next]_vars => ExchangesInv'
  BY LineageStep, ExchangesStep
<1>3. ExchangesInv => \A t \in Token : Cardinality(Successors(t)) <= Cardinality(Slots)
  <2> SUFFICES ASSUME ExchangesInv, NEW t \in Token
               PROVE  Cardinality(Successors(t)) <= Cardinality(Slots)
    OBVIOUS
  <2>1. CASE Successors(t) = {}
    BY <2>1, Finiteness, FS_EmptySet
  <2>2. CASE Successors(t) # {}
    BY <2>2, Finiteness DEF ExchangesInv
  <2> QED
    BY <2>1, <2>2
<1> QED
  BY Invariance, <1>1, <1>2, <1>3, PTL DEF Spec

-----------------------------------------------------------------------------
(* What a request keeps while it is served.                                *)

\* The fields that say what request r is about.
SameRequest(r) ==
    /\ req'[r].op = req[r].op
    /\ req'[r].token = req[r].token
    /\ req'[r].key = req[r].key
    /\ req'[r].expect = req[r].expect

\* A step of r that does not end it keeps what it is about; it takes the
\* claim, finds its answer, or measures its family in the named steps only,
\* and these are the ways to the awaits that the proofs below speak of.
LEMMA Moves ==
    ASSUME IInv, NEW r \in Slots, Step(r) \/ ClaimReplyLost(r), ~End(r)
    PROVE  /\ SameRequest(r)
           /\ req'[r].owns = req[r].owns \/ ClaimWon(r)
           /\ req'[r].child = req[r].child \/ PollHit(r) \/ Insert(r)
           /\ req'[r].mark = req[r].mark \/ FamilySelect(r) \/ FamilyUpdate(r)
           /\ req'[r].pc \in {"famMirror", "reuse"}
                => FamilySelect(r) \/ FamilyUpdate(r) \/ FamilyMirror(r)
           /\ req'[r].pc \in {"claim", "poll"}
                => ClaimLost(r) \/ ClaimReplyLost(r) \/ PollAgain(r)
           /\ req'[r].pc = "complete" => UserFound(r) /\ req[r].owns
           /\ req'[r].pc # "idle"
           /\ req[r].pc = "respond" => FALSE
<1> USE DEF IInv, TypeOK, SameRequest
<1> req[r] \in Request
  OBVIOUS
<1>1. CASE ClaimWon(r)
  BY <1>1 DEF ClaimWon, Become, At, Request
<1>2. CASE ClaimLost(r) \/ ClaimReplyLost(r)
  <2>1. req'[r] = [req[r] EXCEPT !.pc = "poll"] /\ req[r].pc = "claim"
    BY <1>2 DEF ClaimLost, ClaimReplyLost, Goto, Become, At
  <2> QED
    BY <1>2, <2>1 DEF Request
<1>3. CASE PollHit(r)
  BY <1>3 DEF PollHit, Become, At, Request
<1>4. CASE PollAgain(r)
  <2>1. req'[r] = [req[r] EXCEPT !.tries = @ + 1] /\ req[r].pc = "poll"
    BY <1>4 DEF PollAgain, Become, At
  <2> QED
    BY <1>4, <2>1 DEF Request
<1>5. CASE PollGiveUp(r)
  BY <1>5 DEF PollGiveUp, Become, At, Request
<1>6. CASE SelectReplay(r) \/ SelectRefused(r)
  <2>1. /\ req'[r] = [req[r] EXCEPT !.pc = "famSelect"]
             \/ req'[r] = [req[r] EXCEPT !.pc = "refuse"]
        /\ req[r].pc = "select"
    BY <1>6 DEF SelectReplay, SelectRefused, Goto, Become, At
  <2> QED
    BY <2>1 DEF Request
<1>7. CASE SelectUsable(r)
  BY <1>7 DEF SelectUsable, Become, At, Request
<1>8. CASE RotateUpdate(r)
  BY <1>8 DEF RotateUpdate, Become, At, Request
<1>9. CASE RotateMirror(r) \/ FamilyMirror(r) \/ LogoutMirror(r)
  <2>1. PICK here \in {"rotMirror", "famMirror", "outMirror"},
             next \in {"insert", "reuse", "respond"} :
          /\ MirrorOne(r, here, next)
          /\ here = "famMirror" => FamilyMirror(r)
          /\ next = "reuse" => FamilyMirror(r)
    BY <1>9 DEF RotateMirror, FamilyMirror, LogoutMirror
  <2>2. PICK t \in req[r].todo :
          req'[r] = [req[r] EXCEPT !.todo = @ \ {t},
                                   !.pc = IF req[r].todo = {t} THEN next ELSE here]
    BY <2>1 DEF MirrorOne, Become
  <2>3. req[r].pc = here
    BY <2>1 DEF MirrorOne, At
  <2>4. req'[r].pc \in {here, next}
    BY <2>2 DEF Request
  <2>5. /\ SameRequest(r)
        /\ req'[r].owns = req[r].owns
        /\ req'[r].child = req[r].child
        /\ req'[r].mark = req[r].mark
    BY <2>2 DEF Request
  <2> QED
    BY <2>1, <2>3, <2>4, <2>5
<1>10. CASE FamilySelect(r)
  <2>1. /\ req[r].pc = "famSelect"
        /\ \E pc \in {"reuse", "famUpdate"} :
              req'[r] = [req[r] EXCEPT !.pc = pc, !.todo = ActiveInFamily(Family(r)),
                                       !.mark = issued]
    BY <1>10 DEF FamilySelect, Become, At
  <2> QED
    BY <1>10, <2>1 DEF Request
<1>11. CASE FamilyUpdate(r)
  <2>1. /\ req[r].pc = "famUpdate"
        /\ req'[r] = [req[r] EXCEPT !.pc = "famMirror", !.mark = issued]
    BY <1>11 DEF FamilyUpdate, Become, At
  <2> QED
    BY <1>11, <2>1 DEF Request
<1>12. CASE UserFound(r)
  <2>1. /\ req[r].pc = "findUser"
        /\ req'[r] = [req[r] EXCEPT !.pc = IF req[r].owns THEN "complete" ELSE "respond"]
    BY <1>12 DEF UserFound, Goto, Become, At
  <2> QED
    BY <1>12, <2>1 DEF Request
<1>13. CASE Complete(r)
  BY <1>13 DEF Complete, Goto, Become, At, Request
<1>14. CASE LogoutJti(r)
  BY <1>14 DEF LogoutJti, Goto, Become, At, Request
<1>15. CASE LogoutSelect(r)
  <2>1. /\ req[r].pc = "outSelect"
        /\ \/ req'[r] = [req[r] EXCEPT !.pc = "respond"]
           \/ \E t \in LogoutTarget(r) :
                 req'[r] = [req[r] EXCEPT !.pc = "outUpdate", !.row = t]
    BY <1>15 DEF LogoutSelect, Goto, Become, At
  <2>2. CASE req'[r] = [req[r] EXCEPT !.pc = "respond"]
    BY <2>1, <2>2 DEF Request
  <2>3. ASSUME NEW t, req'[r] = [req[r] EXCEPT !.pc = "outUpdate", !.row = t]
        PROVE  /\ SameRequest(r)
               /\ req'[r].owns = req[r].owns
               /\ req'[r].child = req[r].child
               /\ req'[r].mark = req[r].mark
               /\ req'[r].pc = "outUpdate"
    BY <2>3 DEF Request
  <2> QED
    BY <2>1, <2>2, <2>3
<1>16. CASE LogoutUpdate(r)
  BY <1>16 DEF LogoutUpdate, Become, At, Request
<1>17. CASE Insert(r)
  <2>1. /\ req[r].pc = "insert"
        /\ req'[r] = [req[r] EXCEPT !.child = New,
                                    !.pc = IF req[r].op = "login"
                                             THEN "respond" ELSE "findUser"]
    BY <1>17 DEF Insert, Become, At
  <2> QED
    BY <1>17, <2>1 DEF Request
<1> QED
  BY <1>1, <1>2, <1>3, <1>4, <1>5, <1>6, <1>7, <1>8, <1>9, <1>10, <1>11, <1>12,
     <1>13, <1>14, <1>15, <1>16, <1>17
  DEF Step, RefreshStep, LogoutStep, Reject, UserMissing, InsertRefused, Respond

\* Unless a slot lapses, a request moves by its own step or not at all.
LEMMA WhoMoves ==
    ASSUME IInv, Next, NEW q \in Slots
    PROVE  \/ req'[q] = req[q]
           \/ Start(q) \/ Step(q) \/ ClaimReplyLost(q) \/ Fail(q)
           \/ \E k \in Keys : ClaimLapses(k)
<1>1. ASSUME NEW r \in Slots, r # q,
             Start(r) \/ Step(r) \/ ClaimReplyLost(r) \/ Fail(r)
      PROVE  req'[q] = req[q]
  BY <1>1, OthersWait DEF IInv, TypeOK
<1> QED
  BY <1>1 DEF Next, Environment, RowExpires, MirrorKeyLapses, AccessAges,
              JtiKeyLapses, DeleteUser

\* What a request is when it starts.
LEMMA Starts ==
    ASSUME IInv, NEW r \in Slots, Start(r)
    PROVE  /\ req'[r].pc \in {"insert", "select", "claim", "outJti"}
           /\ req'[r].owns = FALSE
           /\ req'[r].expect # None
                => /\ req'[r].pc = "claim"
                   /\ req'[r].key \in Keys
                   /\ Answers(req'[r].key, req'[r].token)
                   /\ idem[req'[r].key].child = req'[r].expect
<1> USE DEF IInv, TypeOK
<1>1. CASE \E u \in Users : StartLogin(r, u)
  <2>1. PICK u \in Users :
          req'[r] = [Idle EXCEPT !.pc = "insert", !.op = "login", !.user = u]
    BY <1>1 DEF StartLogin, Become
  <2> QED
    BY <2>1 DEF Idle
<1>2. CASE \E t \in delivered, k \in Keys \cup {None} : StartRefresh(r, t, k)
  <2>1. PICK t \in delivered, k \in Keys \cup {None} :
          req'[r] = [Idle EXCEPT !.pc = IF k = None THEN "select" ELSE "claim",
                                 !.op = "refresh", !.token = t, !.key = k,
                                 !.late = reason[t] # "active",
                                 !.expect = OnRecord(k, t)]
    BY <1>2 DEF StartRefresh, Become
  <2>2. /\ req'[r].pc = IF k = None THEN "select" ELSE "claim"
        /\ req'[r].owns = FALSE
        /\ req'[r].token = t
        /\ req'[r].key = k
        /\ req'[r].expect = OnRecord(k, t)
    BY <2>1 DEF Idle
  <2> QED
    BY <2>2 DEF OnRecord
<1>3. CASE \E a \in delivered, b \in delivered \cup {None} : StartLogout(r, a, b)
  <2>1. PICK a \in delivered, b \in delivered \cup {None} :
          req'[r] = [Idle EXCEPT !.pc = "outJti", !.op = "logout", !.jti = a,
                                 !.user = userId[a], !.token = b]
    BY <1>3 DEF StartLogout, Become
  <2> QED
    BY <2>1 DEF Idle
<1> QED
  BY <1>1, <1>2, <1>3 DEF Start

-----------------------------------------------------------------------------
(* While no slot lapses under an owner at work.                            *)

\* An owner is past its claim, and the slot is its own until it has filled it.
OwnerOK(r) ==
    /\ req[r].owns => /\ req[r].key \in Keys
                      /\ req[r].pc \notin {"idle", "claim", "poll"}
                      /\ req[r].pc # "respond" => idem[req[r].key] = Pending
    /\ req[r].pc = "complete" => req[r].owns

\* Two owners of a key are not both at work.
OwnersApart(r, q) ==
    req[r].owns /\ req[q].owns /\ req[r].key = req[q].key
        => req[r].pc = "respond" \/ req[q].pc = "respond"

\* The answer a retry met on arrival is still on record.
RetryOK(r) ==
    req[r].expect # None
        => /\ req[r].key \in Keys
           /\ Answers(req[r].key, req[r].token)
           /\ idem[req[r].key].child = req[r].expect
           /\ \/ req[r].pc \in {"claim", "poll"}
              \/ req[r].pc = "respond" /\ req[r].child = req[r].expect

ClaimsInv ==
    /\ \A r \in Slots : OwnerOK(r) /\ RetryOK(r)
    /\ \A r \in Slots : \A q \in Slots \ {r} : OwnersApart(r, q)

\* A slot lapses only when no owner is at work, and what a retry expected of it
\* is forgotten.
LEMMA LapseSpares ==
    ASSUME ClaimsMayLapse = FALSE, IInv, NEW k \in Keys, ClaimLapses(k)
    PROVE  /\ \A r \in Slots :
                 /\ UNCHANGED <<req[r].pc, req[r].owns, req[r].key, req[r].token,
                                req[r].child>>
                 /\ req'[r].expect = IF req[r].key = k THEN None ELSE req[r].expect
                 /\ req[r].owns /\ req[r].key = k => req[r].pc = "respond"
           /\ \A j \in Keys \ {k} : idem'[j] = idem[j]
<1> USE DEF IInv, TypeOK
<1>1. ASSUME NEW r \in Slots
      PROVE  /\ UNCHANGED <<req[r].pc, req[r].owns, req[r].key, req[r].token,
                            req[r].child>>
             /\ req'[r].expect = IF req[r].key = k THEN None ELSE req[r].expect
  BY DEF ClaimLapses, Request
<1>2. ASSUME NEW r \in Slots, req[r].owns, req[r].key = k
      PROVE  req[r].pc = "respond"
  BY <1>2 DEF ClaimLapses, OwnerAtWork
<1>3. \A j \in Keys \ {k} : idem'[j] = idem[j]
  BY DEF ClaimLapses, SlotLapses, CacheTypeOK
<1> QED
  BY <1>1, <1>2, <1>3

\* A slot changes when it is free and is claimed, when it lapses, or by its
\* owner's last step.
LEMMA SlotWrites ==
    ASSUME ClaimsMayLapse = FALSE, IInv, ClaimsInv, Next, NEW k \in Keys,
           idem'[k] # idem[k]
    PROVE  \/ idem[k].status = "free" \/ ClaimLapses(k)
           \/ \E q \in Slots :
                 /\ req[q].owns
                 /\ req[q].key = k
                 /\ req[q].pc \in {"reuse", "refuse", "complete"}
                 /\ End(q) \/ Complete(q)
<1> USE DEF IInv, TypeOK
<1>1. ASSUME NEW r \in Slots, ClaimWon(r) \/ ClaimReplyLost(r)
      PROVE  idem[k].status = "free"
  BY <1>1 DEF ClaimWon, ClaimReplyLost, CanClaim, TakeClaim, CacheTypeOK
<1>2. ASSUME NEW r \in Slots, Reject(r)
      PROVE  /\ req[r].owns /\ req[r].key = k
             /\ req[r].pc \in {"reuse", "refuse"} /\ End(r)
  BY <1>2 DEF Reject, ReleaseClaim, CacheTypeOK
<1>3. ASSUME NEW r \in Slots, Complete(r)
      PROVE  req[r].owns /\ req[r].key = k /\ req[r].pc = "complete"
  BY <1>3 DEF Complete, CompleteClaim, CacheTypeOK, At, ClaimsInv, OwnerOK
<1>4. CASE \E r \in Slots : Start(r)
  BY <1>4 DEF Start, StartLogin, StartRefresh, StartLogout
<1>5. CASE \E r \in Slots : Step(r) /\ ~ClaimWon(r) /\ ~Reject(r) /\ ~Complete(r)
  BY <1>5 DEF Step, RefreshStep, LogoutStep, ClaimLost, PollHit, PollAgain,
       PollGiveUp, SelectReplay, SelectRefused, SelectUsable, RotateUpdate,
       RotateMirror, FamilySelect, FamilyUpdate, FamilyMirror, MirrorOne,
       UserFound, UserMissing, LogoutJti, LogoutSelect, LogoutUpdate,
       LogoutMirror, Insert, InsertRefused, Respond
<1>6. ASSUME NEW j \in Keys, ClaimLapses(j)
      PROVE  j = k
  BY <1>6 DEF ClaimLapses, SlotLapses, CacheTypeOK
<1>7. CASE /\ Environment
           /\ \A r \in Slots : ~ClaimReplyLost(r)
           /\ \A j \in Keys : ~ClaimLapses(j)
  BY <1>7 DEF Environment, Fail, RowExpires, MirrorKeyLapses, AccessAges,
       JtiKeyLapses, DeleteUser
<1> QED
  BY <1>1, <1>2, <1>3, <1>4, <1>5, <1>6, <1>7 DEF Next, Environment

\* An answer on record stays there until the slot lapses.
LEMMA AnswersStay ==
    ASSUME ClaimsMayLapse = FALSE, IInv, ClaimsInv, Next, NEW k \in Keys,
           idem[k].status = "done", ~ClaimLapses(k)
    PROVE  idem'[k] = idem[k]
<1> SUFFICES ASSUME idem'[k] # idem[k] PROVE FALSE
  OBVIOUS
<1>1. PICK q \in Slots : /\ req[q].owns
                         /\ req[q].key = k
                         /\ req[q].pc \in {"reuse", "refuse", "complete"}
  BY SlotWrites
<1>2. idem[k] = Pending
  BY <1>1 DEF ClaimsInv, OwnerOK
<1> QED
  BY <1>2 DEF Pending

\* An owner's slot stays claimed until its own last step.
LEMMA ClaimsStay ==
    ASSUME ClaimsMayLapse = FALSE, IInv, ClaimsInv, Next, NEW r \in Slots,
           req[r].owns, req[r].pc # "respond", req'[r].pc \notin {"idle", "respond"}
    PROVE  idem'[req[r].key] = Pending
<1>1. req[r].key \in Keys /\ idem[req[r].key] = Pending
  BY DEF ClaimsInv, OwnerOK
<1> SUFFICES ASSUME idem'[req[r].key] # idem[req[r].key] PROVE FALSE
  BY <1>1
<1>2. PICK q \in Slots : /\ req[q].owns
                         /\ req[q].key = req[r].key
                         /\ req[q].pc \in {"reuse", "refuse", "complete"}
                         /\ End(q) \/ Complete(q)
  <2>1. idem[req[r].key].status # "free"
    BY <1>1 DEF Pending
  <2>2. PICK k \in Keys : k = req[r].key
    BY <1>1
  <2>3. idem'[k] # idem[k]
    BY <2>2
  <2>4. ~ClaimLapses(k)
    BY <2>2, LapseSpares
  <2> QED
    BY <2>1, <2>2, <2>3, <2>4, SlotWrites
<1>3. q = r
  BY <1>2 DEF ClaimsInv, OwnersApart
<1>4. req'[r].pc \in {"idle", "respond"}
  <2>1. CASE End(r)
    BY <2>1 DEF End, Become, Idle, IInv, TypeOK
  <2>2. CASE Complete(r)
    BY <2>2 DEF Complete, Goto, Become, IInv, TypeOK, Request
  <2> QED
    BY <1>2, <1>3, <2>1, <2>2
<1> QED
  BY <1>4

\* An owner at work has been one before, or has just claimed a free slot.
LEMMA Owners ==
    ASSUME ClaimsMayLapse = FALSE, IInv, ClaimsInv, Next, NEW r \in Slots,
           req'[r].owns
    PROVE  /\ req'[r].key = req[r].key
           /\ req'[r].pc \notin {"idle", "claim", "poll"}
           /\ \/ ClaimWon(r)
              \/ /\ req[r].owns
                 /\ req'[r].pc # "respond" => req[r].pc # "respond"
<1>1. CASE \E k \in Keys : ClaimLapses(k)
  BY <1>1, LapseSpares DEF ClaimsInv, OwnerOK
<1>2. CASE req'[r] = req[r]
  BY <1>2 DEF ClaimsInv, OwnerOK
<1>3. CASE Start(r)
  BY <1>3, Starts
<1>4. CASE End(r)
  BY <1>4 DEF End, Become, Idle, IInv, TypeOK
<1>5. CASE (Step(r) \/ ClaimReplyLost(r)) /\ ~End(r)
  <2>1. /\ req'[r].key = req[r].key
        /\ req'[r].owns = req[r].owns \/ ClaimWon(r)
        /\ req'[r].pc # "idle" /\ req[r].pc # "respond"
        /\ req'[r].pc \in {"claim", "poll"}
             => ClaimLost(r) \/ ClaimReplyLost(r) \/ PollAgain(r)
    BY <1>5, Moves DEF SameRequest
  <2>2. CASE ClaimWon(r)
    <3>1. req'[r].pc = "select"
      BY <2>2 DEF ClaimWon, Become, IInv, TypeOK, Request
    <3> QED
      BY <2>1, <2>2, <3>1
  <2>3. CASE req'[r].owns = req[r].owns
    <3>1. req[r].pc \notin {"claim", "poll"}
      BY <2>3 DEF ClaimsInv, OwnerOK
    <3>2. req'[r].pc \notin {"claim", "poll"}
      BY <2>1, <3>1 DEF ClaimLost, ClaimReplyLost, PollAgain, At
    <3> QED
      BY <2>1, <2>3, <3>2
  <2> QED
    BY <2>1, <2>2, <2>3
<1> QED
  BY <1>1, <1>2, <1>3, <1>4, <1>5, WhoMoves DEF Fail

LEMMA OwnerStep ==
    ASSUME ClaimsMayLapse = FALSE, IInv, ClaimsInv, Next, NEW r \in Slots
    PROVE  OwnerOK(r)'
<1> USE DEF IInv, TypeOK
<1>1. ASSUME req'[r].owns
      PROVE  /\ req'[r].key \in Keys
             /\ req'[r].pc \notin {"idle", "claim", "poll"}
             /\ req'[r].pc # "respond" => idem'[req'[r].key] = Pending
  <2>1. CASE ClaimWon(r)
    <3>1. req[r].pc = "claim" /\ req[r] \in Request
      BY <2>1 DEF ClaimWon, At
    <3>2. req[r].key \in Keys
      BY <3>1 DEF SlotOK, PcOK, Request
    <3>3. idem'[req[r].key] = Pending
      BY <2>1, <3>2 DEF ClaimWon, TakeClaim, CacheTypeOK
    <3> QED
      BY <1>1, <3>2, <3>3, Owners
  <2>2. CASE ~ClaimWon(r)
    <3>1. /\ req'[r].key = req[r].key
          /\ req'[r].pc \notin {"idle", "claim", "poll"}
          /\ req[r].owns
          /\ req'[r].pc # "respond" => req[r].pc # "respond"
      BY <1>1, <2>2, Owners
    <3>2. req[r].key \in Keys
      BY <3>1 DEF ClaimsInv, OwnerOK
    <3>3. req'[r].pc # "respond" => idem'[req[r].key] = Pending
      BY <3>1, ClaimsStay
    <3> QED
      BY <3>1, <3>2, <3>3
  <2> QED
    BY <2>1, <2>2
<1>2. ASSUME req'[r].pc = "complete" PROVE req'[r].owns
  <2>1. CASE \E k \in Keys : ClaimLapses(k)
    BY <1>2, <2>1, LapseSpares DEF ClaimsInv, OwnerOK
  <2>2. CASE req'[r] = req[r]
    BY <1>2, <2>2 DEF ClaimsInv, OwnerOK
  <2>3. CASE Start(r)
    BY <1>2, <2>3, Starts
  <2>4. CASE End(r)
    BY <1>2, <2>4 DEF End, Become, Idle
  <2>5. CASE (Step(r) \/ ClaimReplyLost(r)) /\ ~End(r)
    <3>1. UserFound(r) /\ req[r].owns
      BY <1>2, <2>5, Moves
    <3>2. req[r] \in Request
      OBVIOUS
    <3> QED
      BY <3>1, <3>2 DEF UserFound, Goto, Become, Request
  <2> QED
    BY <2>1, <2>2, <2>3, <2>4, <2>5, WhoMoves DEF Fail
<1> QED
  BY <1>1, <1>2 DEF OwnerOK

LEMMA OwnersStep ==
    ASSUME ClaimsMayLapse = FALSE, IInv, ClaimsInv, Next,
           NEW r \in Slots, NEW q \in Slots \ {r}
    PROVE  OwnersApart(r, q)'
<1> SUFFICES ASSUME req'[r].owns, req'[q].owns, req'[r].key = req'[q].key,
                    req'[r].pc # "respond", req'[q].pc # "respond"
             PROVE  FALSE
  BY DEF OwnersApart
\* An owner at work does not let another request claim its slot.
<1>1. ASSUME NEW x \in Slots, NEW y \in Slots, x # y, ClaimWon(x), req'[y].owns,
             req'[y].key = req[x].key, req'[y].pc # "respond"
      PROVE  FALSE
  <2>1. req'[y] = req[y]
    BY <1>1, OthersWait DEF Step, RefreshStep, IInv, TypeOK
  <2>2. idem[req[x].key] = Pending
    BY <1>1, <2>1 DEF ClaimsInv, OwnerOK
  <2> QED
    BY <1>1, <2>2 DEF ClaimWon, CanClaim, Pending
<1>2. CASE ClaimWon(r)
  BY <1>1, <1>2, Owners
<1>3. CASE ClaimWon(q)
  BY <1>1, <1>3, Owners
<1>4. CASE ~ClaimWon(r) /\ ~ClaimWon(q)
  <2>1. /\ req[r].owns /\ req[r].pc # "respond" /\ req'[r].key = req[r].key
        /\ req[q].owns /\ req[q].pc # "respond" /\ req'[q].key = req[q].key
    BY <1>4, Owners
  <2> QED
    BY <2>1 DEF ClaimsInv, OwnersApart
<1> QED
  BY <1>2, <1>3, <1>4

LEMMA RetryStep ==
    ASSUME ClaimsMayLapse = FALSE, IInv, ClaimsInv, Next, NEW r \in Slots
    PROVE  RetryOK(r)'
<1> USE DEF IInv, TypeOK
<1> SUFFICES ASSUME req'[r].expect # None PROVE RetryOK(r)'
  BY DEF RetryOK
<1>1. ASSUME NEW k \in Keys, ClaimLapses(k)
      PROVE  RetryOK(r)'
  <2>1. /\ req[r].key # k
        /\ UNCHANGED <<req[r].pc, req[r].key, req[r].token, req[r].child,
                       req[r].expect>>
    BY <1>1 DEF ClaimLapses, Request
  <2>2. RetryOK(r) /\ req[r].expect # None
    BY <2>1 DEF ClaimsInv
  <2>3. idem'[req[r].key] = idem[req[r].key]
    BY <1>1, <2>1, <2>2, LapseSpares DEF RetryOK
  <2> QED
    BY <2>1, <2>2, <2>3 DEF RetryOK, Answers
<1> SUFFICES ASSUME \A k \in Keys : ~ClaimLapses(k)
             PROVE  RetryOK(r)'
  BY <1>1
<1>2. CASE req'[r] = req[r]
  <2>1. RetryOK(r) /\ req[r].expect # None
    BY <1>2 DEF ClaimsInv
  <2>2. idem'[req[r].key] = idem[req[r].key]
    BY <2>1, AnswersStay DEF RetryOK, Answers
  <2> QED
    BY <1>2, <2>1, <2>2 DEF RetryOK, Answers
<1>3. CASE Start(r)
  <2>1. idem' = idem
    BY <1>3 DEF Start, StartLogin, StartRefresh, StartLogout
  <2> QED
    BY <1>3, <2>1, Starts DEF RetryOK, Answers
<1>4. CASE End(r)
  BY <1>4 DEF End, Become, Idle
<1>5. CASE (Step(r) \/ ClaimReplyLost(r)) /\ ~End(r)
  <2>1. /\ req'[r].token = req[r].token
        /\ req'[r].key = req[r].key
        /\ req'[r].expect = req[r].expect
        /\ req[r].pc # "respond"
    BY <1>5, Moves DEF SameRequest
  <2>2. /\ req[r].key \in Keys
        /\ Answers(req[r].key, req[r].token)
        /\ idem[req[r].key].child = req[r].expect
        /\ req[r].pc \in {"claim", "poll"}
    BY <2>1 DEF ClaimsInv, RetryOK
  <2>3. idem'[req[r].key] = idem[req[r].key]
    BY <2>2, AnswersStay DEF Answers
  <2>4. ClaimLost(r) \/ PollHit(r) \/ PollAgain(r)
    <3>1. \/ ClaimWon(r) \/ ClaimLost(r) \/ ClaimReplyLost(r)
          \/ PollHit(r) \/ PollAgain(r) \/ PollGiveUp(r)
      BY <1>5, <2>2 DEF Step, RefreshStep, LogoutStep, SelectReplay, SelectRefused,
         SelectUsable, RotateUpdate, RotateMirror, FamilySelect, FamilyUpdate,
         FamilyMirror, MirrorOne, Reject, UserFound, UserMissing, Complete,
         LogoutJti, LogoutSelect, LogoutUpdate, LogoutMirror, Insert,
         InsertRefused, Respond, At
    <3> QED
      BY <2>2, <3>1 DEF ClaimWon, ClaimReplyLost, CanClaim, PollGiveUp, Answers
  <2>5. \/ req'[r].pc \in {"claim", "poll"}
        \/ req'[r].pc = "respond" /\ req'[r].child = req'[r].expect
    <3>1. req[r] \in Request
      OBVIOUS
    <3>2. CASE ClaimLost(r)
      BY <3>1, <3>2 DEF ClaimLost, Goto, Become, Request
    <3>3. CASE PollAgain(r)
      BY <2>2, <3>1, <3>3 DEF PollAgain, Become, Request
    <3>4. CASE PollHit(r)
      <4>1. req'[r].pc = "respond" /\ req'[r].child = idem[req[r].key].child
        BY <3>1, <3>4 DEF PollHit, Become, Request
      <4> QED
        BY <2>1, <2>2, <4>1
    <3> QED
      BY <2>4, <3>2, <3>3, <3>4
  <2> QED
    BY <2>1, <2>2, <2>3, <2>5 DEF RetryOK, Answers
<1> QED
  BY <1>2, <1>3, <1>4, <1>5, WhoMoves DEF Fail

LEMMA ClaimsInvariance ==
    ASSUME ClaimsMayLapse = FALSE
    PROVE  Spec => []ClaimsInv
<1>1. Init => ClaimsInv
  BY DEF Init, Idle, ClaimsInv, OwnerOK, OwnersApart, RetryOK
<1>2. IInv /\ ClaimsInv /\ [Next]_vars => ClaimsInv'
  <2> SUFFICES ASSUME IInv, ClaimsInv, [Next]_vars PROVE ClaimsInv'
    OBVIOUS
  <2>1. CASE Next
    BY <2>1, OwnerStep, OwnersStep, RetryStep DEF ClaimsInv
  <2>2. CASE UNCHANGED vars
    BY <2>2 DEF vars, ClaimsInv, OwnerOK, OwnersApart, RetryOK, Answers
  <2> QED
    BY <2>1, <2>2
<1> QED
  BY Invariance, <1>1, <1>2, PTL DEF Spec

\* While no slot lapses under an owner at work, a key has one such owner,
\* whichever requests fail, and no other request frees or fills its slot.
THEOREM ClaimsHaveOneOwner ==
    ASSUME ClaimsMayLapse = FALSE
    PROVE  Spec => []ClaimOwnerUnique
<1>1. ClaimsInv => ClaimOwnerUnique
  BY DEF ClaimsInv, OwnerOK, OwnersApart, ClaimOwnerUnique
<1> QED
  BY ClaimsInvariance, <1>1, PTL

\* While no slot lapses under an owner at work, a retry whose answer is on
\* record when it arrives, and still is when it polls, is answered with that
\* very pair and never reaches rotation.
THEOREM RetriesGetTheirAnswer ==
    ASSUME ClaimsMayLapse = FALSE
    PROVE  Spec => []RetryGetsSamePair
<1>1. ClaimsInv => RetryGetsSamePair
  BY DEF ClaimsInv, RetryOK, RetryGetsSamePair
<1> QED
  BY ClaimsInvariance, <1>1, PTL

=============================================================================
