------------------------- MODULE AuthSessions_proofs -------------------------
(***************************************************************************)
(* Proofs about AuthSessions, for every number of slots, keys, users and   *)
(* tokens, with any failures, lapses, expiries and deletions.              *)
(*                                                                         *)
(* None of the safety properties is inductive: each leans on what a        *)
(* handler knows at its current await.  IInv spells that out: facts about  *)
(* the table and its two caches (StoreOK, CacheOK) and, for every slot,    *)
(* what its request relies on until the next await (SlotOK).  All of it is *)
(* stable under whatever another request does, because rows change in one  *)
(* direction only (RowsOnlyMature) and so do the keys about them           *)
(* (KeysOnlyMature).                                                       *)
(***************************************************************************)
EXTENDS AuthSessions, TLAPS

USE StoreAssumption, CacheAssumption, SessionsAssumption DEF jtiVars

-----------------------------------------------------------------------------
(* The inductive invariant.                                                *)

\* Row t has been inserted; it may have been deleted since.
Stored(t) == t \in Token /\ t <= issued

\* Row t cannot be used, now or later.
Dead(t) == Stored(t) /\ reason[t] # "active"

\* The access token of pair t is on the revocation list or past its exp.
JtiSpent(t) == t \in revokedJti \/ accessAge[t] # "valid"

\* The mirror has row t for as long as it could have been used.
Settled(t) == t \in mirror \cup expired

StoreOK ==
    /\ \A t \in Token : t > issued => reason[t] = "absent" /\ parent[t] = None
    /\ \A t \in Token : t <= issued => sessionFamily[t] # None
    /\ \A t \in Token : parent[t] # None => Dead(parent[t])
    /\ \A t \in mirror : Dead(t)
    /\ \A t \in delivered : Stored(t)

CacheOK ==
    \A k \in Keys :
        idem[k].status = "done"
            => /\ Stored(idem[k].child)
               /\ parent[idem[k].child] = idem[k].asked

RefreshPC == {"claim", "poll", "select", "famSelect", "famUpdate", "famMirror",
              "reuse", "refuse", "findUser", "complete", "respond"} \cup Rotating

LogoutPC == {"outJti", "outSelect", "outUpdate", "outMirror", "respond"}

\* Which handler can be at which await.
PcOK(r) ==
    /\ req[r].op = "none" => req[r].pc = "idle"
    /\ req[r].op = "login" => req[r].pc \in {"insert", "respond"}
    /\ req[r].op = "refresh" => req[r].pc \in RefreshPC
    /\ req[r].op = "logout" => req[r].pc \in LogoutPC
    /\ req[r].pc \in {"claim", "poll"} => req[r].key # None

\* The tokens a request works with exist, and an answer descends from the
\* token that was presented.
TokensOK(r) ==
    /\ req[r].token # None => Stored(req[r].token)
    /\ req[r].row # None => Stored(req[r].row)
    /\ \A t \in req[r].todo : Stored(t)
    /\ req[r].op = "refresh" => req[r].token # None
    /\ req[r].child # None
         => /\ Stored(req[r].child)
            /\ req[r].op = "refresh" => parent[req[r].child] = req[r].token

\* Rotation: the row read is the token presented, and it is dead by the time
\* its successor is inserted.  A late request never gets there.
RotationOK(r) ==
    /\ req[r].op = "login" => req[r].row = None
    /\ req[r].op = "refresh" /\ req[r].pc \in Rotating => req[r].row = req[r].token
    /\ req[r].op = "refresh" /\ req[r].pc \in {"rotMirror", "insert"}
         => Dead(req[r].token)
    /\ req[r].late => Dead(req[r].token) /\ req[r].pc \notin Rotating
    /\ req[r].pc \in {"findUser", "complete"} => req[r].child # None

\* Rows about to be mirrored are dead; those selected for a family
\* revocation are in the family that the UPDATE will revoke.
TodoOK(r) ==
    /\ req[r].pc \in {"rotMirror", "famMirror", "outMirror"}
         => \A t \in req[r].todo : Dead(t)
    /\ req[r].pc = "famUpdate"
         => \A t \in req[r].todo : sessionFamily[t] = Family(r)

\* After a family revocation only rows inserted later can be active.
FamilyOK(r) ==
    req[r].pc \in {"famMirror", "reuse"}
        => /\ req[r].op = "refresh"
           /\ req[r].mark <= issued
           /\ \A t \in Token :
                 reason[t] = "active" /\ sessionFamily[t] = Family(r)
                     => t > req[r].mark

LogoutOK(r) ==
    req[r].op = "logout"
        => /\ req[r].child = None
           /\ req[r].jti # None
           /\ req[r].pc # "outJti" => JtiSpent(req[r].jti)
           /\ req[r].pc \in {"outJti", "outSelect"} => req[r].row = None
           /\ req[r].pc \in {"outUpdate", "outMirror"}
                => /\ req[r].row # None
                   /\ req[r].token # None => req[r].row = req[r].token
           /\ req[r].pc = "outMirror"
                => Dead(req[r].row) /\ req[r].todo = {req[r].row}
           /\ req[r].pc = "respond"
                => /\ req[r].row # None => Dead(req[r].row) /\ Settled(req[r].row)
                   /\ req[r].token # None => Dead(req[r].token)

SlotOK(r) ==
    /\ PcOK(r)
    /\ TokensOK(r)
    /\ RotationOK(r)
    /\ TodoOK(r)
    /\ FamilyOK(r)
    /\ LogoutOK(r)

IInv ==
    /\ TypeOK
    /\ StoreOK
    /\ CacheOK
    /\ \A r \in Slots : SlotOK(r)

-----------------------------------------------------------------------------
(* Typing.                                                                 *)

LEMMA IdleType == Idle \in Request
BY DEF Idle, Request, PC, Rotating

\* The edits a step makes to the local variables of a request are well typed.
LEMMA EditPc ==
    ASSUME NEW x \in Request, NEW pc \in PC
    PROVE  [x EXCEPT !.pc = pc] \in Request
BY DEF Request

LEMMA EditClaim ==
    ASSUME NEW x \in Request, NEW pc \in PC
    PROVE  /\ [x EXCEPT !.pc = pc, !.owns = TRUE] \in Request
           /\ \A n \in 0..(WaitAttempts - 1) :
                 [x EXCEPT !.tries = n] \in Request
           /\ [x EXCEPT !.pc = pc, !.tries = 0] \in Request
           /\ \A c \in Token \cup {None} :
                 [x EXCEPT !.pc = pc, !.tries = 0, !.child = c] \in Request
           /\ \A c \in Token \cup {None} :
                 [x EXCEPT !.child = c, !.pc = pc] \in Request
           /\ \A c \in Token \cup {None} :
                 [x EXCEPT !.expect = c] \in Request
<1> 0 \in 0..(WaitAttempts - 1)
  OBVIOUS
<1>1. [x EXCEPT !.pc = pc, !.owns = TRUE] \in Request
  BY DEF Request
<1>2. \A n \in 0..(WaitAttempts - 1) :
          [x EXCEPT !.tries = n] \in Request
  BY DEF Request
<1>3. [x EXCEPT !.pc = pc, !.tries = 0] \in Request
  BY DEF Request
<1>4. \A c \in Token \cup {None} :
          [x EXCEPT !.pc = pc, !.tries = 0, !.child = c] \in Request
  BY DEF Request
<1>5. \A c \in Token \cup {None} :
          [x EXCEPT !.child = c, !.pc = pc] \in Request
  BY DEF Request
<1>6. \A c \in Token \cup {None} :
          [x EXCEPT !.expect = c] \in Request
  BY DEF Request
<1> QED
  BY <1>1, <1>2, <1>3, <1>4, <1>5, <1>6

LEMMA EditRows ==
    ASSUME NEW x \in Request, NEW pc \in PC
    PROVE  /\ \A t \in Token \cup {None}, u \in Users \cup {None} :
                 [x EXCEPT !.pc = pc, !.row = t, !.user = u] \in Request
           /\ \A t \in Token \cup {None} :
                 [x EXCEPT !.pc = pc, !.row = t] \in Request
           /\ \A S \in SUBSET Token :
                 [x EXCEPT !.pc = pc, !.todo = S] \in Request
           /\ \A S \in SUBSET Token :
                 [x EXCEPT !.todo = S, !.pc = pc] \in Request
           /\ \A S \in SUBSET Token, m \in 0..MaxTokens :
                 [x EXCEPT !.pc = pc, !.todo = S, !.mark = m] \in Request
           /\ \A m \in 0..MaxTokens :
                 [x EXCEPT !.pc = pc, !.mark = m] \in Request
<1>1. \A t \in Token \cup {None}, u \in Users \cup {None} :
          [x EXCEPT !.pc = pc, !.row = t, !.user = u] \in Request
  BY DEF Request
<1>2. \A t \in Token \cup {None} :
          [x EXCEPT !.pc = pc, !.row = t] \in Request
  BY DEF Request
<1>3. \A S \in SUBSET Token :
          [x EXCEPT !.pc = pc, !.todo = S] \in Request
  BY DEF Request
<1>4. \A S \in SUBSET Token :
          [x EXCEPT !.todo = S, !.pc = pc] \in Request
  BY DEF Request
<1>5. \A S \in SUBSET Token, m \in 0..MaxTokens :
          [x EXCEPT !.pc = pc, !.todo = S, !.mark = m] \in Request
  BY DEF Request
<1>6. \A m \in 0..MaxTokens :
          [x EXCEPT !.pc = pc, !.mark = m] \in Request
  BY DEF Request
<1> QED
  BY <1>1, <1>2, <1>3, <1>4, <1>5, <1>6

LEMMA EditStart ==
    ASSUME NEW x \in Request, NEW pc \in PC
    PROVE  /\ \A u \in Users :
                 [x EXCEPT !.pc = pc, !.op = "login", !.user = u] \in Request
           /\ \A t \in Token, k \in Keys \cup {None}, late \in BOOLEAN,
                 e \in Token \cup {None} :
                 [x EXCEPT !.pc = pc, !.op = "refresh", !.token = t, !.key = k,
                            !.late = late, !.expect = e] \in Request
           /\ \A a \in Token, u \in Users \cup {None}, b \in Token \cup {None} :
                 [x EXCEPT !.pc = pc, !.op = "logout", !.jti = a, !.user = u,
                            !.token = b] \in Request
<1>1. \A u \in Users :
          [x EXCEPT !.pc = pc, !.op = "login", !.user = u] \in Request
  BY DEF Request
<1>2. ASSUME NEW t \in Token, NEW k \in Keys \cup {None}, NEW late \in BOOLEAN,
             NEW e \in Token \cup {None}
      PROVE  [x EXCEPT !.pc = pc, !.op = "refresh", !.token = t, !.key = k,
                       !.late = late, !.expect = e] \in Request
  <2>1. [x EXCEPT !.pc = pc, !.op = "refresh", !.token = t] \in Request
    BY DEF Request
  <2>2. \A y \in Request : [y EXCEPT !.key = k] \in Request
    BY DEF Request
  <2>3. \A y \in Request : [y EXCEPT !.late = late] \in Request
    BY DEF Request
  <2>4. \A y \in Request : [y EXCEPT !.expect = e] \in Request
    BY DEF Request
  <2> QED
    BY <2>1, <2>2, <2>3, <2>4
<1>3. \A a \in Token, u \in Users \cup {None}, b \in Token \cup {None} :
          [x EXCEPT !.pc = pc, !.op = "logout", !.jti = a, !.user = u,
                     !.token = b] \in Request
  BY DEF Request
<1> QED
  BY <1>1, <1>2, <1>3

\* A step of request r leaves the local variables of every other request alone.
LEMMA BecomeLemma ==
    ASSUME req \in [Slots -> Request], NEW r \in Slots, NEW x \in Request,
           Become(r, x)
    PROVE  /\ req' \in [Slots -> Request]
           /\ req'[r] = x
           /\ \A q \in Slots \ {r} : req'[q] = req[q]
BY DEF Become

LEMMA GotoLemma ==
    ASSUME req \in [Slots -> Request], NEW r \in Slots, NEW pc \in PC, Goto(r, pc)
    PROVE  req' \in [Slots -> Request]
<1>1. [req[r] EXCEPT !.pc = pc] \in Request
  BY EditPc
<1> QED
  BY <1>1, BecomeLemma DEF Goto

LEMMA EndLemma ==
    ASSUME req \in [Slots -> Request], NEW r \in Slots, End(r)
    PROVE  req' \in [Slots -> Request]
BY IdleType, BecomeLemma DEF End

LEMMA InsertType ==
    ASSUME StoreTypeOK, NEW u \in Users \cup {None}, NEW f \in Token \cup {None},
           NEW p \in Token \cup {None}, InsertRow(u, f, p)
    PROVE  StoreTypeOK'
<1>1. New \in Token /\ New \in 0..MaxTokens
  BY DEF InsertRow, New, Token, StoreTypeOK
<1> QED
  BY <1>1 DEF InsertRow, StoreTypeOK, Reason

LEMMA MarkType ==
    ASSUME StoreTypeOK, NEW S, NEW why \in Revoked, MarkRevoked(S, why)
    PROVE  StoreTypeOK'
BY DEF MarkRevoked, StoreTypeOK, Reason

LEMMA StoreTypeStable ==
    ASSUME StoreTypeOK, UNCHANGED storeVars
    PROVE  StoreTypeOK'
BY DEF StoreTypeOK, storeVars

LEMMA TypingInit == Init => TypeOK
BY IdleType DEF Init, TypeOK, StoreInit, CacheInit, StoreTypeOK, CacheTypeOK,
                Reason, Free, Entry, Age

\* Every mirror step, whichever handler it belongs to.
LEMMA MirrorOneType ==
    ASSUME TypeOK, NEW r \in Slots, NEW here \in PC, NEW next \in PC,
           MirrorOne(r, here, next)
    PROVE  TypeOK'
<1>1. PICK t \in req[r].todo :
        /\ CacheRevocation(t)
        /\ Become(r, [req[r] EXCEPT !.todo = @ \ {t},
                                    !.pc = IF req[r].todo = {t} THEN next ELSE here])
  BY DEF MirrorOne
<1>2. t \in Token
  BY <1>1 DEF TypeOK, Request
<1>3. [req[r] EXCEPT !.todo = @ \ {t},
                     !.pc = IF req[r].todo = {t} THEN next ELSE here] \in Request
  <2>1. /\ req[r] \in Request
        /\ req[r].todo \ {t} \in SUBSET Token
        /\ (IF req[r].todo = {t} THEN next ELSE here) \in PC
    BY DEF TypeOK, Request
  <2> QED
    BY <2>1, EditRows
<1>4. req' \in [Slots -> Request]
  BY <1>1, <1>3, BecomeLemma DEF TypeOK
<1>5. StoreTypeOK'
  BY <1>1, <1>2 DEF CacheRevocation, TypeOK, StoreTypeOK
<1> QED
  BY <1>4, <1>5 DEF MirrorOne, TypeOK, CacheTypeOK

LEMMA StartTyping ==
    ASSUME TypeOK, NEW r \in Slots, Start(r)
    PROVE  TypeOK'
<1> USE DEF TypeOK
<1>1. ASSUME NEW u \in Users, StartLogin(r, u) PROVE TypeOK'
  <2>1. [Idle EXCEPT !.pc = "insert", !.op = "login", !.user = u] \in Request
    BY IdleType, EditStart DEF PC, Rotating
  <2> QED
    BY <1>1, <2>1, BecomeLemma, StoreTypeStable DEF StartLogin, CacheTypeOK
<1>2. ASSUME NEW t \in delivered, NEW k \in Keys \cup {None}, StartRefresh(r, t, k)
      PROVE  TypeOK'
  <2>1. OnRecord(k, t) \in Token \cup {None}
    BY DEF OnRecord, CacheTypeOK, Entry, Answers
  <2>2. [Idle EXCEPT !.pc = IF k = None THEN "select" ELSE "claim",
                     !.op = "refresh", !.token = t, !.key = k,
                     !.late = reason[t] # "active",
                     !.expect = OnRecord(k, t)] \in Request
    <3>1. (IF k = None THEN "select" ELSE "claim") \in PC
      BY DEF PC
    <3>2. t \in Token /\ (reason[t] # "active") \in BOOLEAN
      OBVIOUS
    <3> DEFINE start == IF k = None THEN "select" ELSE "claim"
               late == reason[t] # "active"
               e == OnRecord(k, t)
    <3>3. start \in PC /\ late \in BOOLEAN /\ e \in Token \cup {None} /\ t \in Token
      BY <2>1, <3>1, <3>2
    <3> HIDE DEF TypeOK, start, late, e
    <3>4. [Idle EXCEPT !.pc = start, !.op = "refresh", !.token = t, !.key = k,
                       !.late = late, !.expect = e] \in Request
      <4>1. \A y \in BOOLEAN, z \in Token \cup {None} :
               [Idle EXCEPT !.pc = start, !.op = "refresh", !.token = t, !.key = k,
                            !.late = y, !.expect = z] \in Request
        BY <3>3, IdleType, EditStart, Zenon
      <4> QED
        BY <3>3, <4>1, Zenon
    <3> QED
      BY <3>4 DEF start, late, e
  <2> QED
    BY <1>2, <2>2, BecomeLemma, StoreTypeStable DEF StartRefresh, CacheTypeOK
<1>3. ASSUME NEW a \in delivered, NEW b \in delivered \cup {None}, StartLogout(r, a, b)
      PROVE  TypeOK'
  <2>1. [Idle EXCEPT !.pc = "outJti", !.op = "logout", !.jti = a,
                     !.user = userId[a], !.token = b] \in Request
    <3>1. "outJti" \in PC
      BY DEF PC
    <3>2. a \in Token /\ b \in Token \cup {None} /\ userId[a] \in Users \cup {None}
      BY DEF StoreTypeOK
    <3> QED
      BY <3>1, <3>2, IdleType, EditStart
  <2> QED
    BY <1>3, <2>1, BecomeLemma, StoreTypeStable DEF StartLogout, CacheTypeOK
<1> QED
  BY <1>1, <1>2, <1>3 DEF Start

LEMMA StepTyping ==
    ASSUME TypeOK, NEW r \in Slots, SlotOK(r), Step(r)
    PROVE  TypeOK'
<1> USE DEF TypeOK
<1> req[r] \in Request
  OBVIOUS
<1>1. CASE ClaimWon(r)
  <2>1. [req[r] EXCEPT !.pc = "select", !.owns = TRUE] \in Request
    BY EditClaim DEF PC
  <2> QED
    BY <1>1, <2>1, BecomeLemma, StoreTypeStable
    DEF ClaimWon, TakeClaim, CacheTypeOK, Entry, Pending
<1>2. CASE ClaimLost(r)
  BY <1>2, GotoLemma, StoreTypeStable DEF ClaimLost, PC, CacheTypeOK
<1>3. CASE PollHit(r)
  <2>1. idem[req[r].key].child \in Token \cup {None}
    <3>1. req[r].key \in Keys
      BY <1>3 DEF PollHit, At, SlotOK, PcOK, Request
    <3> QED
      BY <3>1 DEF CacheTypeOK, Entry
  <2>2. [req[r] EXCEPT !.pc = "respond", !.tries = 0,
                       !.child = idem[req[r].key].child] \in Request
    BY <2>1, EditClaim DEF PC
  <2> QED
    BY <1>3, <2>2, BecomeLemma, StoreTypeStable DEF PollHit, CacheTypeOK
<1>4. CASE PollAgain(r)
  <2>1. req[r].tries + 1 \in 0..(WaitAttempts - 1)
    BY <1>4 DEF PollAgain, LastTry, Request
  <2>2. "poll" \in PC
    BY DEF PC
  <2>3. [req[r] EXCEPT !.tries = req[r].tries + 1] \in Request
    BY <2>1, <2>2, EditClaim
  <2> QED
    BY <1>4, <2>3, BecomeLemma, StoreTypeStable DEF PollAgain, CacheTypeOK
<1>5. CASE PollGiveUp(r)
  <2>1. [req[r] EXCEPT !.pc = "select", !.tries = 0] \in Request
    BY EditClaim DEF PC
  <2> QED
    BY <1>5, <2>1, BecomeLemma, StoreTypeStable DEF PollGiveUp, CacheTypeOK
<1>6. CASE SelectReplay(r)
  BY <1>6, GotoLemma, StoreTypeStable DEF SelectReplay, PC, CacheTypeOK
<1>7. CASE SelectRefused(r)
  BY <1>7, GotoLemma, StoreTypeStable DEF SelectRefused, PC, CacheTypeOK
<1>8. CASE SelectUsable(r)
  <2>1. req[r].token \in Token
    BY <1>8 DEF SelectUsable, At, SlotOK, PcOK, TokensOK, Request, LogoutPC
  <2>2. userId[req[r].token] \in Users \cup {None}
    BY <2>1 DEF StoreTypeOK
  <2>3. "rotUpdate" \in PC
    BY DEF PC, Rotating
  <2>4. [req[r] EXCEPT !.pc = "rotUpdate", !.row = req[r].token,
                       !.user = userId[req[r].token]] \in Request
    BY <2>1, <2>2, <2>3, EditRows
  <2> QED
    BY <1>8, <2>4, BecomeLemma, StoreTypeStable DEF SelectUsable, CacheTypeOK
<1>9. CASE RotateUpdate(r)
  <2>1. req[r].row \in Token
    BY <1>9 DEF RotateUpdate, At, SlotOK, PcOK, TokensOK, RotationOK, Request,
                LogoutPC, Rotating
  <2>2. "rotMirror" \in PC
    BY DEF PC, Rotating
  <2>3. [req[r] EXCEPT !.pc = "rotMirror", !.todo = {req[r].row}] \in Request
    BY <2>1, <2>2, EditRows
  <2>4. StoreTypeOK'
    BY <1>9, MarkType DEF RotateUpdate, Revoked
  <2> QED
    BY <1>9, <2>3, <2>4, BecomeLemma DEF RotateUpdate, CacheTypeOK
<1>10. CASE RotateMirror(r)
  BY <1>10, MirrorOneType DEF RotateMirror, PC, Rotating
<1>11. CASE FamilySelect(r)
  <2>1. /\ (IF ActiveInFamily(Family(r)) = {} THEN "reuse" ELSE "famUpdate") \in PC
        /\ ActiveInFamily(Family(r)) \in SUBSET Token
        /\ issued \in 0..MaxTokens
    BY DEF PC, ActiveInFamily, Active, StoreTypeOK
  <2>2. [req[r] EXCEPT !.pc = IF ActiveInFamily(Family(r)) = {}
                                THEN "reuse" ELSE "famUpdate",
                       !.todo = ActiveInFamily(Family(r)),
                       !.mark = issued] \in Request
    BY <2>1, EditRows
  <2> QED
    BY <1>11, <2>2, BecomeLemma, StoreTypeStable DEF FamilySelect, CacheTypeOK
<1>12. CASE FamilyUpdate(r)
  <2>1. "famMirror" \in PC /\ issued \in 0..MaxTokens
    BY DEF PC, StoreTypeOK
  <2>2. [req[r] EXCEPT !.pc = "famMirror", !.mark = issued] \in Request
    BY <2>1, EditRows
  <2>3. StoreTypeOK'
    BY <1>12, MarkType DEF FamilyUpdate, Revoked
  <2> QED
    BY <1>12, <2>2, <2>3, BecomeLemma DEF FamilyUpdate, CacheTypeOK
<1>13. CASE FamilyMirror(r)
  BY <1>13, MirrorOneType DEF FamilyMirror, PC
<1>14. CASE Reject(r)
  BY <1>14, EndLemma, StoreTypeStable
  DEF Reject, ReleaseClaim, Free, CacheTypeOK, Entry
<1>15. CASE UserFound(r)
  <2>1. (IF req[r].owns THEN "complete" ELSE "respond") \in PC
    BY DEF PC
  <2> QED
    BY <1>15, <2>1, GotoLemma, StoreTypeStable DEF UserFound, CacheTypeOK
<1>16. CASE UserMissing(r)
  BY <1>16, EndLemma, StoreTypeStable DEF UserMissing, CacheTypeOK
<1>17. CASE Complete(r)
  <2>1. Done(req[r].token, req[r].child) \in Entry
    BY DEF Done, Entry, Request
  <2> QED
    BY <1>17, <2>1, GotoLemma, StoreTypeStable
    DEF Complete, CompleteClaim, CacheTypeOK, PC
<1>18. CASE LogoutJti(r)
  <2>1. req[r].jti \in Token
    BY <1>18 DEF LogoutJti, At, SlotOK, LogoutOK, PcOK, Request, RefreshPC, Rotating
  <2> QED
    BY <1>18, <2>1, GotoLemma, StoreTypeStable DEF LogoutJti, CacheTypeOK, PC
<1>19. CASE LogoutSelect(r)
  <2>1. CASE Goto(r, "respond")
    BY <1>19, <2>1, GotoLemma, StoreTypeStable DEF LogoutSelect, CacheTypeOK, PC
  <2>2. ASSUME NEW t \in LogoutTarget(r),
               Become(r, [req[r] EXCEPT !.pc = "outUpdate", !.row = t])
        PROVE  TypeOK'
    <3>1. t \in Token /\ "outUpdate" \in PC
      BY DEF LogoutTarget, Active, MostRecent, ActiveOfUser, PC
    <3>2. [req[r] EXCEPT !.pc = "outUpdate", !.row = t] \in Request
      BY <3>1, EditRows
    <3> QED
      BY <1>19, <2>2, <3>2, BecomeLemma, StoreTypeStable DEF LogoutSelect, CacheTypeOK
  <2> QED
    BY <1>19, <2>1, <2>2 DEF LogoutSelect
<1>20. CASE LogoutUpdate(r)
  <2>1. req[r].row \in Token
    BY <1>20 DEF LogoutUpdate, At, SlotOK, PcOK, LogoutOK, Request, RefreshPC, Rotating
  <2>2. "outMirror" \in PC
    BY DEF PC
  <2>3. [req[r] EXCEPT !.pc = "outMirror", !.todo = {req[r].row}] \in Request
    BY <2>1, <2>2, EditRows
  <2>4. StoreTypeOK'
    BY <1>20, MarkType DEF LogoutUpdate, Revoked
  <2> QED
    BY <1>20, <2>3, <2>4, BecomeLemma DEF LogoutUpdate, CacheTypeOK
<1>21. CASE LogoutMirror(r)
  BY <1>21, MirrorOneType DEF LogoutMirror, PC
<1>22. CASE Insert(r)
  <2>1. New \in Token
    BY <1>22 DEF Insert, InsertRow
  <2>2. (IF req[r].op = "login" THEN "respond" ELSE "findUser") \in PC
    BY DEF PC
  <2>3. [req[r] EXCEPT !.child = New,
                       !.pc = IF req[r].op = "login"
                                THEN "respond" ELSE "findUser"] \in Request
    BY <2>1, <2>2, EditClaim
  <2>4. (IF req[r].op = "login" THEN None ELSE Family(r)) \in Token \cup {None}
    BY <1>22 DEF Insert, At, SlotOK, PcOK, TokensOK, LogoutPC, Request, Family,
                 StoreTypeOK
  <2>5. req[r].user \in Users \cup {None} /\ req[r].row \in Token \cup {None}
    BY DEF Request
  <2>6. StoreTypeOK'
    BY <1>22, <2>4, <2>5, InsertType DEF Insert
  <2> QED
    BY <1>22, <2>3, <2>6, BecomeLemma DEF Insert, CacheTypeOK
<1>23. CASE InsertRefused(r)
  BY <1>23, EndLemma, StoreTypeStable DEF InsertRefused, CacheTypeOK
<1>24. CASE Respond(r)
  <2>1. req[r].child \in Token \cup {None}
    BY DEF Request
  <2> QED
    BY <1>24, <2>1, EndLemma, StoreTypeStable DEF Respond, CacheTypeOK
<1> QED
  BY <1>1, <1>2, <1>3, <1>4, <1>5, <1>6, <1>7, <1>8, <1>9, <1>10, <1>11, <1>12,
     <1>13, <1>14, <1>15, <1>16, <1>17, <1>18, <1>19, <1>20, <1>21, <1>22, <1>23,
     <1>24 DEF Step, RefreshStep, LogoutStep

LEMMA EnvironmentTyping ==
    ASSUME TypeOK, Environment
    PROVE  TypeOK'
<1> USE DEF TypeOK
<1>1. ASSUME NEW r \in Slots, ClaimReplyLost(r) PROVE TypeOK'
  BY <1>1, GotoLemma, StoreTypeStable
  DEF ClaimReplyLost, TakeClaim, CacheTypeOK, Entry, Pending, PC
<1>2. ASSUME NEW r \in Slots, Fail(r) PROVE TypeOK'
  BY <1>2, EndLemma, StoreTypeStable DEF Fail, CacheTypeOK
<1>3. ASSUME NEW t \in Token, RowExpires(t) \/ MirrorKeyLapses(t) PROVE TypeOK'
  BY <1>3 DEF RowExpires, Expire, MirrorKeyLapses, MirrorLapse, StoreTypeOK, CacheTypeOK
<1>4. ASSUME NEW k \in Keys, ClaimLapses(k) PROVE TypeOK'
  <2>1. \A r \in Slots : [req[r] EXCEPT !.expect = None] \in Request
    BY EditClaim DEF PC
  <2> QED
    BY <1>4, <2>1, StoreTypeStable
    DEF ClaimLapses, SlotLapses, CacheTypeOK, Entry, Free
<1>5. ASSUME NEW u \in Users, DeleteUser(u) PROVE TypeOK'
  BY <1>5 DEF DeleteUser, CascadeDelete, StoreTypeOK, CacheTypeOK, Reason
<1>6. ASSUME NEW t \in Token, AccessAges(t) \/ JtiKeyLapses(t) PROVE TypeOK'
  BY <1>6, StoreTypeStable DEF AccessAges, JtiKeyLapses, CacheTypeOK, Age
<1> QED
  BY <1>1, <1>2, <1>3, <1>4, <1>5, <1>6 DEF Environment

-----------------------------------------------------------------------------
(* Rows change in one direction only.                                      *)

\* What any step does to a row that exists: its lineage stays as it is and it
\* never becomes active.  This is all a waiting request has to know about
\* the others.
RowsOnlyMature ==
    /\ issued <= issued'
    /\ \A t \in Token :
          t <= issued => /\ parent'[t] = parent[t]
                         /\ sessionFamily'[t] = sessionFamily[t]
                         /\ reason'[t] = "active" => reason[t] = "active"

LEMMA UnchangedMatures ==
    ASSUME TypeOK, UNCHANGED <<issued, reason, parent, sessionFamily>>
    PROVE  RowsOnlyMature
BY DEF RowsOnlyMature, TypeOK, StoreTypeOK

LEMMA InsertMatures ==
    ASSUME TypeOK, NEW u, NEW f, NEW p, InsertRow(u, f, p)
    PROVE  RowsOnlyMature
BY DEF InsertRow, New, RowsOnlyMature, TypeOK, StoreTypeOK, Token

LEMMA MarkMatures ==
    ASSUME TypeOK, NEW S, NEW why \in Revoked, MarkRevoked(S, why)
    PROVE  RowsOnlyMature
BY DEF MarkRevoked, RowsOnlyMature, TypeOK, StoreTypeOK, Token, Revoked

LEMMA MirrorMatures ==
    ASSUME TypeOK, NEW r, NEW here, NEW next, MirrorOne(r, here, next)
    PROVE  RowsOnlyMature
BY UnchangedMatures DEF MirrorOne, CacheRevocation

LEMMA StartMatures ==
    ASSUME TypeOK, NEW r \in Slots, Start(r)
    PROVE  RowsOnlyMature
BY UnchangedMatures DEF Start, StartLogin, StartRefresh, StartLogout, storeVars

LEMMA StepMatures ==
    ASSUME TypeOK, NEW r \in Slots, Step(r)
    PROVE  RowsOnlyMature
<1>1. CASE RotateUpdate(r) \/ FamilyUpdate(r) \/ LogoutUpdate(r)
  BY <1>1, MarkMatures DEF RotateUpdate, FamilyUpdate, LogoutUpdate, Revoked
<1>2. CASE RotateMirror(r) \/ FamilyMirror(r) \/ LogoutMirror(r)
  BY <1>2, MirrorMatures DEF RotateMirror, FamilyMirror, LogoutMirror
<1>3. CASE Insert(r)
  BY <1>3, InsertMatures DEF Insert
<1>4. CASE ClaimWon(r) \/ ClaimLost(r) \/ PollHit(r) \/ PollAgain(r) \/ PollGiveUp(r)
  BY <1>4, UnchangedMatures
  DEF ClaimWon, ClaimLost, PollHit, PollAgain, PollGiveUp, storeVars
<1>5. CASE SelectReplay(r) \/ SelectRefused(r) \/ SelectUsable(r) \/ FamilySelect(r)
  BY <1>5, UnchangedMatures
  DEF SelectReplay, SelectRefused, SelectUsable, FamilySelect, storeVars
<1>6. CASE Reject(r) \/ UserFound(r) \/ UserMissing(r) \/ Complete(r)
  BY <1>6, UnchangedMatures DEF Reject, UserFound, UserMissing, Complete, storeVars
<1>7. CASE LogoutJti(r) \/ LogoutSelect(r) \/ InsertRefused(r) \/ Respond(r)
  BY <1>7, UnchangedMatures
  DEF LogoutJti, LogoutSelect, InsertRefused, Respond, storeVars
<1> QED
  BY <1>1, <1>2, <1>3, <1>4, <1>5, <1>6, <1>7 DEF Step, RefreshStep, LogoutStep

LEMMA EnvironmentMatures ==
    ASSUME TypeOK, Environment
    PROVE  RowsOnlyMature
<1>1. ASSUME NEW u \in Users, DeleteUser(u) PROVE RowsOnlyMature
  BY <1>1 DEF DeleteUser, CascadeDelete, RowsOnlyMature, TypeOK, StoreTypeOK
<1> QED
  BY <1>1, UnchangedMatures
  DEF Environment, ClaimReplyLost, Fail, RowExpires, Expire, MirrorKeyLapses,
      MirrorLapse, AccessAges, JtiKeyLapses, ClaimLapses, storeVars

\* A revocation key goes only when what it stood for is past its expiry, and
\* nothing gets younger.
KeysOnlyMature ==
    \A t \in Token : /\ JtiSpent(t) => JtiSpent(t)'
                     /\ Settled(t) => Settled(t)'

LEMMA KeysUnchanged ==
    ASSUME UNCHANGED <<mirror, expired, revokedJti, accessAge>>
    PROVE  KeysOnlyMature
BY DEF KeysOnlyMature, JtiSpent, Settled

LEMMA RequestKeysMature ==
    ASSUME TypeOK, NEW r \in Slots, Start(r) \/ Step(r)
    PROVE  KeysOnlyMature
<1>1. CASE RotateMirror(r) \/ FamilyMirror(r) \/ LogoutMirror(r)
  BY <1>1 DEF RotateMirror, FamilyMirror, LogoutMirror, MirrorOne, CacheRevocation,
              KeysOnlyMature, JtiSpent, Settled
<1>2. CASE LogoutJti(r)
  BY <1>2 DEF LogoutJti, storeVars, KeysOnlyMature, JtiSpent, Settled
<1>3. CASE UNCHANGED <<mirror, expired, revokedJti, accessAge>>
  BY <1>3, KeysUnchanged
<1>4. CASE Start(r)
  BY <1>3, <1>4 DEF Start, StartLogin, StartRefresh, StartLogout, storeVars
<1>5. CASE RotateUpdate(r) \/ FamilyUpdate(r) \/ LogoutUpdate(r) \/ Insert(r)
  BY <1>3, <1>5
  DEF RotateUpdate, FamilyUpdate, LogoutUpdate, Insert, MarkRevoked, InsertRow
<1>6. CASE ClaimWon(r) \/ ClaimLost(r) \/ PollHit(r) \/ PollAgain(r) \/ PollGiveUp(r)
             \/ SelectReplay(r) \/ SelectRefused(r) \/ SelectUsable(r)
             \/ FamilySelect(r)
  BY <1>3, <1>6
  DEF ClaimWon, ClaimLost, PollHit, PollAgain, PollGiveUp, SelectReplay,
      SelectRefused, SelectUsable, FamilySelect, storeVars
<1>7. CASE Reject(r) \/ UserFound(r) \/ UserMissing(r) \/ Complete(r)
             \/ LogoutSelect(r) \/ InsertRefused(r) \/ Respond(r)
  BY <1>3, <1>7
  DEF Reject, UserFound, UserMissing, Complete, LogoutSelect, InsertRefused,
      Respond, storeVars
<1> QED
  BY <1>1, <1>2, <1>4, <1>5, <1>6, <1>7 DEF Step, RefreshStep, LogoutStep

LEMMA EnvironmentKeysMature ==
    ASSUME TypeOK, Environment
    PROVE  KeysOnlyMature
<1>1. ASSUME NEW t \in Token, RowExpires(t) \/ MirrorKeyLapses(t) PROVE KeysOnlyMature
  BY <1>1 DEF RowExpires, Expire, MirrorKeyLapses, MirrorLapse, KeysOnlyMature,
              JtiSpent, Settled
<1>2. ASSUME NEW t \in Token, AccessAges(t) PROVE KeysOnlyMature
  BY <1>2 DEF AccessAges, storeVars, TypeOK, KeysOnlyMature, JtiSpent, Settled
<1>3. ASSUME NEW t \in Token, JtiKeyLapses(t) PROVE KeysOnlyMature
  BY <1>3 DEF JtiKeyLapses, storeVars, KeysOnlyMature, JtiSpent, Settled
<1> QED
  BY <1>1, <1>2, <1>3, KeysUnchanged
  DEF Environment, ClaimReplyLost, Fail, ClaimLapses, DeleteUser, CascadeDelete,
      storeVars

\* A step of request r leaves every other request where it is.
LEMMA OthersWait ==
    ASSUME NEW r \in Slots, NEW q \in Slots, q # r,
           req \in [Slots -> Request],
           Start(r) \/ Step(r) \/ ClaimReplyLost(r) \/ Fail(r)
    PROVE  req'[q] = req[q]
BY DEF Start, StartLogin, StartRefresh, StartLogout, Step, RefreshStep,
       LogoutStep, ClaimWon, ClaimLost, PollHit, PollAgain, PollGiveUp,
       SelectReplay, SelectRefused, SelectUsable, RotateUpdate, RotateMirror,
       FamilySelect, FamilyUpdate, FamilyMirror, Reject, UserFound, UserMissing,
       Complete, LogoutJti, LogoutSelect, LogoutUpdate, LogoutMirror, MirrorOne,
       Insert, InsertRefused, Respond, ClaimReplyLost, Fail, Goto, End, Become

\* A request that is not stepping keeps what it relies on.
LEMMA SlotStable ==
    ASSUME TypeOK, TypeOK', RowsOnlyMature, KeysOnlyMature, NEW q \in Slots,
           SlotOK(q), req'[q] = req[q]
    PROVE  SlotOK(q)'
<1> USE DEF TypeOK, StoreTypeOK
<1>1. \A t : Stored(t) => Stored(t)'
  BY DEF Stored, RowsOnlyMature, Token
<1>2. \A t : Dead(t) => Dead(t)'
  BY <1>1 DEF Dead, Stored, RowsOnlyMature
<1>3. PcOK(q)'
  BY DEF SlotOK, PcOK
<1>4. TokensOK(q)'
  BY <1>1 DEF SlotOK, TokensOK, Stored, RowsOnlyMature
<1>5. RotationOK(q)'
  BY <1>2 DEF SlotOK, RotationOK
<1>6. TodoOK(q)'
  <2>1. req[q].pc = "famUpdate" => req[q].op = "refresh"
    BY DEF SlotOK, PcOK, Request, LogoutPC
  <2>2. req[q].op = "refresh" => Family(q)' = Family(q)
    BY DEF SlotOK, TokensOK, Stored, RowsOnlyMature, Family
  <2> QED
    BY <1>2, <2>1, <2>2 DEF SlotOK, TokensOK, TodoOK, Stored, RowsOnlyMature
<1>7. FamilyOK(q)'
  <2> SUFFICES ASSUME req[q].pc \in {"famMirror", "reuse"}
               PROVE  FamilyOK(q)'
    BY DEF FamilyOK
  <2>1. req[q].op = "refresh" /\ req[q].mark <= issued
    BY DEF SlotOK, FamilyOK
  <2>2. Family(q)' = Family(q)
    BY <2>1 DEF SlotOK, TokensOK, Stored, RowsOnlyMature, Family
  <2>3. req[q].mark \in Nat /\ issued \in Nat /\ issued' \in Nat
    BY DEF Request
  <2>4. ASSUME NEW t \in Token, reason'[t] = "active", sessionFamily'[t] = Family(q)'
        PROVE  t > req[q].mark
    <3>1. CASE t <= issued
      BY <2>2, <2>4, <3>1 DEF SlotOK, FamilyOK, RowsOnlyMature
    <3>2. CASE t > issued
      BY <2>1, <2>3, <3>2 DEF Token
    <3> QED
      BY <2>3, <3>1, <3>2 DEF Token
  <2> QED
    BY <2>1, <2>3, <2>4 DEF FamilyOK, RowsOnlyMature
<1>8. LogoutOK(q)'
  <2>1. req[q] \in Request
    OBVIOUS
  <2>2. req[q].jti # None => (JtiSpent(req[q].jti) => JtiSpent(req[q].jti)')
    BY <2>1 DEF KeysOnlyMature, Request
  <2>3. req[q].row # None => (Settled(req[q].row) => Settled(req[q].row)')
    BY <2>1 DEF KeysOnlyMature, Request
  <2>4. UNCHANGED <<req[q].jti, req[q].row>>
    OBVIOUS
  <2> QED
    BY <1>2, <2>2, <2>3, <2>4 DEF SlotOK, LogoutOK, JtiSpent, Settled
<1> QED
  BY <1>3, <1>4, <1>5, <1>6, <1>7, <1>8 DEF SlotOK

-----------------------------------------------------------------------------
(* The step of a request establishes what the request relies on next.      *)

LEMMA IdleOK ==
    ASSUME TypeOK, NEW r \in Slots, End(r)
    PROVE  SlotOK(r)'
<1>1. req'[r] = Idle
  BY BecomeLemma, IdleType DEF End, TypeOK
<1> QED
  BY <1>1 DEF SlotOK, PcOK, TokensOK, RotationOK, TodoOK, FamilyOK, LogoutOK,
              Idle, Rotating, StoreAssumption

LEMMA StartOK ==
    ASSUME IInv, TypeOK', NEW r \in Slots, Start(r)
    PROVE  SlotOK(r)'
<1> USE DEF IInv, TypeOK
<1> UNCHANGED storeVars
  BY DEF Start, StartLogin, StartRefresh, StartLogout
<1>1. ASSUME NEW u \in Users, StartLogin(r, u) PROVE SlotOK(r)'
  <2>1. req'[r] = [Idle EXCEPT !.pc = "insert", !.op = "login", !.user = u]
    BY <1>1 DEF StartLogin, Become
  <2> QED
    BY <2>1 DEF SlotOK, PcOK, TokensOK, RotationOK, TodoOK, FamilyOK, LogoutOK,
                Idle, Rotating
<1>2. ASSUME NEW t \in delivered, NEW k \in Keys \cup {None}, StartRefresh(r, t, k)
      PROVE  SlotOK(r)'
  <2>1. req'[r] = [Idle EXCEPT !.pc = IF k = None THEN "select" ELSE "claim",
                               !.op = "refresh", !.token = t, !.key = k,
                               !.late = reason[t] # "active",
                               !.expect = OnRecord(k, t)]
    BY <1>2 DEF StartRefresh, Become
  <2>2. t \in Token /\ Stored(t) /\ t # None
    BY DEF StoreOK
  <2>3. /\ req'[r].pc = IF k = None THEN "select" ELSE "claim"
        /\ req'[r].op = "refresh"
        /\ req'[r].token = t
        /\ req'[r].key = k
        /\ req'[r].row = None
        /\ req'[r].todo = {}
        /\ req'[r].child = None
        /\ req'[r].late = (reason[t] # "active")
    BY <2>1 DEF Idle
  <2> QED
    BY <2>2, <2>3
    DEF SlotOK, PcOK, TokensOK, RotationOK, TodoOK, FamilyOK, LogoutOK, Idle,
        Rotating, RefreshPC, Stored, Dead, storeVars
<1>3. ASSUME NEW a \in delivered, NEW b \in delivered \cup {None}, StartLogout(r, a, b)
      PROVE  SlotOK(r)'
  <2>1. req'[r] = [Idle EXCEPT !.pc = "outJti", !.op = "logout", !.jti = a,
                               !.user = userId[a], !.token = b]
    BY <1>3 DEF StartLogout, Become
  <2>2. a # None /\ (b # None => Stored(b))
    BY DEF StoreOK
  <2> QED
    BY <2>1, <2>2
    DEF SlotOK, PcOK, TokensOK, RotationOK, TodoOK, FamilyOK, LogoutOK, Idle,
        Rotating, LogoutPC, Stored, storeVars
<1> QED
  BY <1>1, <1>2, <1>3 DEF Start

\* The idempotency slot: nothing here touches a row.
LEMMA ClaimOK ==
    ASSUME IInv, TypeOK', NEW r \in Slots,
           ClaimWon(r) \/ ClaimLost(r) \/ ClaimReplyLost(r) \/ PollAgain(r)
             \/ PollGiveUp(r)
    PROVE  SlotOK(r)'
<1> USE DEF IInv, TypeOK
<1>1. UNCHANGED <<storeVars, jtiVars>>
  BY DEF ClaimWon, ClaimLost, ClaimReplyLost, PollAgain, PollGiveUp
<1>2. req[r] \in Request /\ req'[r] \in Request /\ req[r].pc \in {"claim", "poll"}
  BY DEF ClaimWon, ClaimLost, ClaimReplyLost, PollAgain, PollGiveUp, At
<1>3. req[r].op = "refresh" /\ req[r].key # None
  BY <1>2 DEF SlotOK, PcOK, Request, LogoutPC
<1> DEFINE Same == /\ req'[r].pc \in {"poll", "select"}
                   /\ req'[r].op = req[r].op
                   /\ req'[r].token = req[r].token
                   /\ req'[r].key = req[r].key
                   /\ req'[r].row = req[r].row
                   /\ req'[r].todo = req[r].todo
                   /\ req'[r].child = req[r].child
                   /\ req'[r].late = req[r].late
<1>4. Same
  <2>1. CASE ClaimWon(r)
    <3>1. req'[r] = [req[r] EXCEPT !.pc = "select", !.owns = TRUE]
      BY <2>1 DEF ClaimWon, Become
    <3> QED
      BY <1>2, <3>1 DEF Request
  <2>2. CASE ClaimLost(r) \/ ClaimReplyLost(r)
    <3>1. req'[r] = [req[r] EXCEPT !.pc = "poll"]
      BY <2>2 DEF ClaimLost, ClaimReplyLost, Goto, Become
    <3> QED
      BY <1>2, <3>1 DEF Request
  <2>3. CASE PollAgain(r)
    <3>1. req'[r] = [req[r] EXCEPT !.tries = req[r].tries + 1] /\ req[r].pc = "poll"
      BY <2>3 DEF PollAgain, Become, At
    <3> QED
      BY <1>2, <3>1 DEF Request
  <2>4. CASE PollGiveUp(r)
    <3>1. req'[r] = [req[r] EXCEPT !.pc = "select", !.tries = 0]
      BY <2>4 DEF PollGiveUp, Become
    <3> QED
      BY <1>2, <3>1 DEF Request
  <2> QED
    BY <2>1, <2>2, <2>3, <2>4
<1> QED
  BY <1>1, <1>2, <1>3, <1>4
  DEF SlotOK, PcOK, TokensOK, RotationOK, TodoOK, FamilyOK, LogoutOK, Rotating,
      RefreshPC, Stored, Dead, storeVars

LEMMA PollHitOK ==
    ASSUME IInv, TypeOK', NEW r \in Slots, PollHit(r)
    PROVE  SlotOK(r)'
<1> USE DEF IInv, TypeOK
<1>1. UNCHANGED <<storeVars, jtiVars>>
  BY DEF PollHit
<1>2. req[r] \in Request /\ req[r].pc = "poll"
  BY DEF PollHit, At
<1>3. req[r].op = "refresh" /\ req[r].key \in Keys
  BY <1>2 DEF SlotOK, PcOK, Request, LogoutPC
<1>4. req'[r] = [req[r] EXCEPT !.pc = "respond", !.tries = 0,
                               !.child = idem[req[r].key].child]
  BY DEF PollHit, Become
<1>5. /\ req'[r].pc = "respond"
      /\ req'[r].op = "refresh"
      /\ req'[r].token = req[r].token
      /\ req'[r].row = req[r].row
      /\ req'[r].todo = req[r].todo
      /\ req'[r].child = idem[req[r].key].child
      /\ req'[r].late = req[r].late
  BY <1>2, <1>3, <1>4 DEF Request
<1>6. Stored(req'[r].child) /\ parent[req'[r].child] = req[r].token
  BY <1>3, <1>5 DEF PollHit, Answers, CacheOK
<1> QED
  BY <1>1, <1>3, <1>5, <1>6
  DEF SlotOK, PcOK, TokensOK, RotationOK, TodoOK, FamilyOK, LogoutOK, Rotating,
      RefreshPC, Stored, Dead, storeVars

\* The SELECT of rotateRefreshToken: a late request never gets to rotation.
LEMMA SelectOK ==
    ASSUME IInv, TypeOK', NEW r \in Slots,
           SelectReplay(r) \/ SelectRefused(r) \/ SelectUsable(r)
    PROVE  SlotOK(r)'
<1> USE DEF IInv, TypeOK
<1>1. UNCHANGED <<storeVars, jtiVars>>
  BY DEF SelectReplay, SelectRefused, SelectUsable
<1>2. req[r] \in Request /\ req[r].pc = "select"
  BY DEF SelectReplay, SelectRefused, SelectUsable, At
<1>3. req[r].op = "refresh" /\ req[r].token \in Token /\ Stored(req[r].token)
  BY <1>2 DEF SlotOK, PcOK, TokensOK, Request, LogoutPC
<1>4. CASE SelectReplay(r) \/ SelectRefused(r)
  <2>1. \/ req'[r] = [req[r] EXCEPT !.pc = "famSelect"]
        \/ req'[r] = [req[r] EXCEPT !.pc = "refuse"]
    BY <1>4 DEF SelectReplay, SelectRefused, Goto, Become
  <2>2. /\ req'[r].pc \in {"famSelect", "refuse"}
        /\ req'[r].op = "refresh"
        /\ req'[r].token = req[r].token
        /\ req'[r].row = req[r].row
        /\ req'[r].todo = req[r].todo
        /\ req'[r].child = req[r].child
        /\ req'[r].late = req[r].late
    BY <1>2, <1>3, <2>1 DEF Request
  <2> QED
    BY <1>1, <1>3, <2>2
    DEF SlotOK, PcOK, TokensOK, RotationOK, TodoOK, FamilyOK, LogoutOK, Rotating,
        RefreshPC, Stored, Dead, storeVars
<1>5. CASE SelectUsable(r)
  <2>1. req'[r] = [req[r] EXCEPT !.pc = "rotUpdate", !.row = req[r].token,
                                 !.user = userId[req[r].token]]
    BY <1>5 DEF SelectUsable, Become
  <2>2. /\ req'[r].pc = "rotUpdate"
        /\ req'[r].op = "refresh"
        /\ req'[r].token = req[r].token
        /\ req'[r].row = req[r].token
        /\ req'[r].todo = req[r].todo
        /\ req'[r].child = req[r].child
        /\ req'[r].late = req[r].late
    BY <1>2, <1>3, <2>1 DEF Request
  <2>3. reason[req[r].token] = "active"
    BY <1>3, <1>5 DEF SelectUsable, IsRevoked, Usable, StoreTypeOK, Reason
  <2>4. ~req[r].late
    BY <2>3 DEF SlotOK, RotationOK, Dead
  <2> QED
    BY <1>1, <1>3, <2>2, <2>4
    DEF SlotOK, PcOK, TokensOK, RotationOK, TodoOK, FamilyOK, LogoutOK, Rotating,
        RefreshPC, Stored, Dead, storeVars
<1> QED
  BY <1>4, <1>5

\* The UPDATE of rotateRefreshToken: from here on the consumed row is dead.
LEMMA RotateUpdateOK ==
    ASSUME IInv, TypeOK', NEW r \in Slots, RotateUpdate(r)
    PROVE  SlotOK(r)'
<1> USE DEF IInv, TypeOK
<1>1. req[r] \in Request /\ req[r].pc = "rotUpdate"
  BY DEF RotateUpdate, At
<1>2. req[r].op = "refresh" /\ req[r].token \in Token /\ Stored(req[r].token)
  BY <1>1 DEF SlotOK, PcOK, TokensOK, Request, LogoutPC
<1>3. req[r].row = req[r].token /\ ~req[r].late
  BY <1>1, <1>2 DEF SlotOK, RotationOK, Rotating
<1>4. req'[r] = [req[r] EXCEPT !.pc = "rotMirror", !.todo = {req[r].row}]
  BY DEF RotateUpdate, Become
<1>5. /\ req'[r].pc = "rotMirror"
      /\ req'[r].op = "refresh"
      /\ req'[r].token = req[r].token
      /\ req'[r].row = req[r].token
      /\ req'[r].todo = {req[r].token}
      /\ req'[r].child = req[r].child
      /\ ~req'[r].late
  BY <1>1, <1>2, <1>3, <1>4 DEF Request
<1>6. issued' = issued /\ parent' = parent /\ reason'[req[r].token] # "active"
  BY <1>2, <1>3 DEF RotateUpdate, MarkRevoked
<1> QED
  BY <1>2, <1>5, <1>6
  DEF SlotOK, PcOK, TokensOK, RotationOK, TodoOK, FamilyOK, LogoutOK, Rotating,
      RefreshPC, Stored, Dead

\* What MirrorOne leaves behind, for each of its three callers.
LEMMA MirrorStep ==
    ASSUME IInv, NEW r \in Slots, NEW here \in PC, NEW next \in PC,
           MirrorOne(r, here, next)
    PROVE  /\ UNCHANGED <<issued, reason, parent, sessionFamily, jtiVars>>
           /\ req[r] \in Request
           /\ req[r].pc = here
           /\ req'[r].pc \in {here, next}
           /\ req'[r].todo \subseteq req[r].todo
           /\ req'[r].op = req[r].op
           /\ req'[r].token = req[r].token
           /\ req'[r].jti = req[r].jti
           /\ req'[r].key = req[r].key
           /\ req'[r].row = req[r].row
           /\ req'[r].child = req[r].child
           /\ req'[r].late = req[r].late
           /\ req'[r].mark = req[r].mark
           /\ \A t \in Token :
                 req[r].todo = {t} => req'[r].pc = next /\ Settled(t)'
<1> USE DEF IInv, TypeOK
<1>1. PICK t \in req[r].todo :
        /\ CacheRevocation(t)
        /\ Become(r, [req[r] EXCEPT !.todo = @ \ {t},
                                    !.pc = IF req[r].todo = {t} THEN next ELSE here])
  BY DEF MirrorOne
<1>2. req'[r] = [req[r] EXCEPT !.todo = @ \ {t},
                               !.pc = IF req[r].todo = {t} THEN next ELSE here]
  BY <1>1 DEF Become
<1>3. req[r] \in Request /\ req[r].pc = here /\ UNCHANGED jtiVars
  BY DEF MirrorOne, At
<1>4. UNCHANGED <<issued, reason, parent, sessionFamily>>
  BY <1>1 DEF CacheRevocation
<1>5. /\ req'[r].pc = IF req[r].todo = {t} THEN next ELSE here
      /\ req'[r].todo = req[r].todo \ {t}
  BY <1>2, <1>3 DEF Request
<1>6. Settled(t)'
  BY <1>1 DEF CacheRevocation, Settled
<1>7. \A x \in Token : req[r].todo = {x} => req'[r].pc = next /\ Settled(x)'
  <2> SUFFICES ASSUME NEW x \in Token, req[r].todo = {x}
               PROVE  req'[r].pc = next /\ Settled(x)'
    OBVIOUS
  <2>1. t = x
    OBVIOUS
  <2> QED
    BY <1>5, <1>6, <2>1 DEF Settled
<1>8. req'[r].pc \in {here, next} /\ req'[r].todo \subseteq req[r].todo
  BY <1>5
<1>9. /\ req'[r].op = req[r].op
      /\ req'[r].token = req[r].token
      /\ req'[r].jti = req[r].jti
      /\ req'[r].key = req[r].key
      /\ req'[r].row = req[r].row
      /\ req'[r].child = req[r].child
      /\ req'[r].late = req[r].late
      /\ req'[r].mark = req[r].mark
  BY <1>2, <1>3 DEF Request
<1> QED
  BY <1>3, <1>4, <1>7, <1>8, <1>9

LEMMA MirrorOK ==
    ASSUME IInv, TypeOK', NEW r \in Slots,
           RotateMirror(r) \/ FamilyMirror(r) \/ LogoutMirror(r)
    PROVE  SlotOK(r)'
<1> USE DEF IInv, TypeOK
<1>1. CASE RotateMirror(r)
  <2>1. MirrorOne(r, "rotMirror", "insert") /\ "rotMirror" \in PC /\ "insert" \in PC
    BY <1>1 DEF RotateMirror, PC, Rotating
  <2>2. req[r].op = "refresh"
    BY <2>1, MirrorStep DEF SlotOK, PcOK, Request, LogoutPC
  <2> QED
    BY <2>1, <2>2, MirrorStep
    DEF SlotOK, PcOK, TokensOK, RotationOK, TodoOK, FamilyOK, LogoutOK, Rotating,
        RefreshPC, Stored, Dead
<1>2. CASE FamilyMirror(r)
  <2>1. MirrorOne(r, "famMirror", "reuse") /\ "famMirror" \in PC /\ "reuse" \in PC
    BY <1>2 DEF FamilyMirror, PC
  <2>2. req[r].op = "refresh"
    BY <2>1, MirrorStep DEF SlotOK, PcOK, Request, LogoutPC
  <2> QED
    BY <2>1, <2>2, MirrorStep
    DEF SlotOK, PcOK, TokensOK, RotationOK, TodoOK, FamilyOK, LogoutOK, Rotating,
        RefreshPC, Stored, Dead, Family
<1>3. CASE LogoutMirror(r)
  <2>1. MirrorOne(r, "outMirror", "respond") /\ "outMirror" \in PC /\ "respond" \in PC
    BY <1>3 DEF LogoutMirror, PC
  <2>2. req[r].op = "logout" /\ req[r].pc = "outMirror"
    BY <2>1, MirrorStep DEF SlotOK, PcOK, Request, RefreshPC, Rotating
  <2>3. /\ req[r].row \in Token
        /\ req[r].todo = {req[r].row}
    BY <2>2, MirrorStep DEF SlotOK, LogoutOK, Request
  <2>4. req'[r].pc = "respond" /\ Settled(req[r].row)'
    <3>1. PICK t \in Token : t = req[r].row
      BY <2>3
    <3>2. req'[r].pc = "respond" /\ Settled(t)'
      BY <2>1, <2>3, <3>1, MirrorStep
    <3>3. t \in mirror' \cup expired'
      BY <3>2 DEF Settled
    <3>4. req'[r].row = t
      BY <2>1, <3>1, MirrorStep
    <3> QED
      BY <3>2, <3>3, <3>4 DEF Settled
  <2>5. LogoutOK(r)'
    <3>1. Dead(req[r].row) /\ (req[r].token # None => req[r].row = req[r].token)
      BY <2>2 DEF SlotOK, LogoutOK
    <3>2. JtiSpent(req[r].jti) /\ req[r].child = None /\ req[r].jti # None
      BY <2>2 DEF SlotOK, LogoutOK
    <3>3. req'[r].row = req[r].row /\ UNCHANGED <<issued, reason, jtiVars>>
      BY <2>1, MirrorStep
    <3>4. JtiSpent(req[r].jti)' /\ UNCHANGED <<req[r].jti, req[r].child, req[r].token>>
      BY <2>1, <3>2, <3>3, MirrorStep DEF JtiSpent
    <3>5. Dead(req[r].row)'
      BY <3>1, <3>3 DEF Dead, Stored
    <3> QED
      BY <2>4, <3>1, <3>2, <3>3, <3>4, <3>5 DEF LogoutOK, Dead, Stored
  <2> QED
    BY <2>1, <2>2, <2>5, MirrorStep
    DEF SlotOK, PcOK, TokensOK, RotationOK, TodoOK, FamilyOK, Rotating,
        LogoutPC, Stored, Dead
<1> QED
  BY <1>1, <1>2, <1>3

\* revokeSessionFamily: what its SELECT found is still in the family when the
\* UPDATE revokes the family, so everything to be mirrored is dead by then.
LEMMA FamilyStepOK ==
    ASSUME IInv, TypeOK', NEW r \in Slots, FamilySelect(r) \/ FamilyUpdate(r)
    PROVE  SlotOK(r)'
<1> USE DEF IInv, TypeOK
<1>1. req[r] \in Request /\ req[r].pc \in {"famSelect", "famUpdate"}
  BY DEF FamilySelect, FamilyUpdate, At
<1>2. req[r].op = "refresh" /\ req[r].token \in Token /\ Stored(req[r].token)
  BY <1>1 DEF SlotOK, PcOK, TokensOK, Request, LogoutPC
<1>3. UNCHANGED <<issued, parent, sessionFamily, jtiVars>>
  BY DEF FamilySelect, FamilyUpdate, MarkRevoked, storeVars
<1>4. CASE FamilySelect(r)
  <2>1. req'[r] = [req[r] EXCEPT !.pc = IF ActiveInFamily(Family(r)) = {}
                                          THEN "reuse" ELSE "famUpdate",
                                 !.todo = ActiveInFamily(Family(r)),
                                 !.mark = issued]
    BY <1>4 DEF FamilySelect, Become
  <2>2. /\ req'[r].pc = IF ActiveInFamily(Family(r)) = {}
                          THEN "reuse" ELSE "famUpdate"
        /\ req'[r].op = "refresh"
        /\ req'[r].token = req[r].token
        /\ req'[r].row = req[r].row
        /\ req'[r].todo = ActiveInFamily(Family(r))
        /\ req'[r].child = req[r].child
        /\ req'[r].late = req[r].late
        /\ req'[r].mark = issued
    BY <1>1, <1>2, <2>1 DEF Request
  <2>3. reason' = reason
    BY <1>4 DEF FamilySelect, storeVars
  <2>4. \A t \in ActiveInFamily(Family(r)) :
           t \in Token /\ Stored(t) /\ sessionFamily[t] = Family(r)
    BY DEF ActiveInFamily, Active, Stored, StoreOK, StoreTypeOK, Token
  <2>5. Family(r)' = Family(r)
    BY <1>3, <2>2 DEF Family
  <2>6. FamilyOK(r)'
    BY <1>3, <2>2, <2>3, <2>5 DEF FamilyOK, ActiveInFamily, Active, StoreTypeOK
  <2> QED
    BY <1>2, <1>3, <2>2, <2>3, <2>4, <2>5, <2>6
    DEF SlotOK, PcOK, TokensOK, RotationOK, TodoOK, LogoutOK, Rotating, RefreshPC,
        Stored, Dead
<1>5. CASE FamilyUpdate(r)
  <2>1. req'[r] = [req[r] EXCEPT !.pc = "famMirror", !.mark = issued]
        /\ req[r].pc = "famUpdate"
    BY <1>5 DEF FamilyUpdate, Become, At
  <2>2. /\ req'[r].pc = "famMirror"
        /\ req'[r].op = "refresh"
        /\ req'[r].token = req[r].token
        /\ req'[r].row = req[r].row
        /\ req'[r].todo = req[r].todo
        /\ req'[r].child = req[r].child
        /\ req'[r].late = req[r].late
        /\ req'[r].mark = issued
    BY <1>1, <1>2, <2>1 DEF Request
  <2>3. Family(r)' = Family(r)
    BY <1>3, <2>2 DEF Family
  <2>4. \A t \in Token : sessionFamily[t] = Family(r) => reason'[t] # "active"
    BY <1>5 DEF FamilyUpdate, MarkRevoked, ActiveInFamily, Active
  <2>5. \A t \in Token : reason[t] # "active" => reason'[t] # "active"
    BY <1>5 DEF FamilyUpdate, MarkRevoked
  <2>6. \A t \in req[r].todo : t \in Token /\ Stored(t) /\ reason'[t] # "active"
    BY <2>1, <2>4 DEF SlotOK, TokensOK, TodoOK, Stored
  <2> QED
    BY <1>2, <1>3, <2>2, <2>3, <2>4, <2>5, <2>6
    DEF SlotOK, PcOK, TokensOK, RotationOK, TodoOK, FamilyOK, LogoutOK, Rotating,
        RefreshPC, Stored, Dead, StoreTypeOK
<1> QED
  BY <1>4, <1>5

\* What the INSERT of a request adds to the table.
LEMMA InsertFacts ==
    ASSUME IInv, NEW r \in Slots, Insert(r)
    PROVE  /\ req[r] \in Request
           /\ req[r].op \in {"login", "refresh"}
           /\ New \in Token /\ issued' = New /\ issued < New
           /\ parent' = [parent EXCEPT ![New] = req[r].row]
           /\ reason' = [reason EXCEPT ![New] = "active"]
           /\ req[r].op = "login" => req[r].row = None
           /\ req[r].op = "refresh" => /\ req[r].row = req[r].token
                                       /\ req[r].token \in Token
                                       /\ Dead(req[r].token)
                                       /\ ~req[r].late
<1> USE DEF IInv, TypeOK
<1>1. req[r] \in Request /\ req[r].pc = "insert"
  BY DEF Insert, At
<1>2. req[r].op \in {"login", "refresh"}
  BY <1>1 DEF SlotOK, PcOK, Request, LogoutPC
<1>3. New \in Token /\ issued' = New /\ issued < New
  BY DEF Insert, InsertRow, New, StoreTypeOK, Token
<1>4. /\ parent' = [parent EXCEPT ![New] = req[r].row]
      /\ reason' = [reason EXCEPT ![New] = "active"]
  BY DEF Insert, InsertRow
<1>5. req[r].op = "login" => req[r].row = None
  BY DEF SlotOK, RotationOK
<1>6. req[r].op = "refresh" => /\ req[r].row = req[r].token
                               /\ req[r].token \in Token
                               /\ Dead(req[r].token)
                               /\ ~req[r].late
  BY <1>1 DEF SlotOK, RotationOK, TokensOK, Rotating, Request
<1> QED
  BY <1>1, <1>2, <1>3, <1>4, <1>5, <1>6

LEMMA InsertOK ==
    ASSUME IInv, TypeOK', NEW r \in Slots, Insert(r)
    PROVE  SlotOK(r)'
<1> USE DEF IInv, TypeOK
<1>1. req'[r] = [req[r] EXCEPT !.child = New,
                               !.pc = IF req[r].op = "login"
                                        THEN "respond" ELSE "findUser"]
  BY DEF Insert, Become
<1>2. /\ req'[r].pc = IF req[r].op = "login" THEN "respond" ELSE "findUser"
      /\ req'[r].op = req[r].op
      /\ req'[r].token = req[r].token
      /\ req'[r].row = req[r].row
      /\ req'[r].todo = req[r].todo
      /\ req'[r].child = New
      /\ req'[r].late = req[r].late
  BY <1>1, InsertFacts DEF Request
<1>3. RowsOnlyMature
  BY InsertMatures DEF Insert
<1>4. \A t : (Stored(t) => Stored(t)') /\ (Dead(t) => Dead(t)')
  BY <1>3 DEF Stored, Dead, RowsOnlyMature, StoreTypeOK, Token
<1>5. PICK n \in Token : n = New
  BY InsertFacts
<1>6. Stored(n)' /\ parent'[n] = req[r].row /\ req'[r].child = n
  BY <1>2, <1>5, InsertFacts DEF Stored, StoreTypeOK, Token
<1>7. TokensOK(r)'
  <2>1. Stored(req[r].child)'
    BY <1>6 DEF Stored
  <2>2. req'[r].op = "refresh" => parent'[req'[r].child] = req'[r].token
    BY <1>2, <1>6, InsertFacts
  <2> QED
    BY <1>2, <1>4, <2>1, <2>2 DEF SlotOK, TokensOK
<1> QED
  BY <1>2, <1>4, <1>7, InsertFacts
  DEF SlotOK, PcOK, RotationOK, TodoOK, FamilyOK, LogoutOK, Rotating, RefreshPC

LEMMA FinishOK ==
    ASSUME IInv, TypeOK', NEW r \in Slots, UserFound(r) \/ Complete(r)
    PROVE  SlotOK(r)'
<1> USE DEF IInv, TypeOK
<1>1. UNCHANGED <<storeVars, jtiVars>>
  BY DEF UserFound, Complete
<1>2. req[r] \in Request /\ req[r].pc \in {"findUser", "complete"}
  BY DEF UserFound, Complete, At
<1>3. req[r].op = "refresh"
  BY <1>2 DEF SlotOK, PcOK, Request, LogoutPC
<1>4. \E pc \in {"complete", "respond"} : req'[r] = [req[r] EXCEPT !.pc = pc]
  BY DEF UserFound, Complete, Goto, Become
<1>5. /\ req'[r].pc \in {"complete", "respond"}
      /\ req'[r].op = "refresh"
      /\ req'[r].token = req[r].token
      /\ req'[r].row = req[r].row
      /\ req'[r].todo = req[r].todo
      /\ req'[r].child = req[r].child
      /\ req'[r].late = req[r].late
  BY <1>2, <1>3, <1>4 DEF Request
<1> QED
  BY <1>1, <1>2, <1>3, <1>5
  DEF SlotOK, PcOK, TokensOK, RotationOK, TodoOK, FamilyOK, LogoutOK, Rotating,
      RefreshPC, Stored, Dead, storeVars

LEMMA LogoutStepOK ==
    ASSUME IInv, TypeOK', NEW r \in Slots,
           LogoutJti(r) \/ LogoutSelect(r) \/ LogoutUpdate(r)
    PROVE  SlotOK(r)'
<1> USE DEF IInv, TypeOK
<1>1. req[r] \in Request /\ req[r].pc \in {"outJti", "outSelect", "outUpdate"}
  BY DEF LogoutJti, LogoutSelect, LogoutUpdate, At
<1>2. req[r].op = "logout"
  BY <1>1 DEF SlotOK, PcOK, Request, RefreshPC, Rotating
<1>3. CASE LogoutJti(r)
  <2>1. req'[r] = [req[r] EXCEPT !.pc = "outSelect"] /\ req[r].pc = "outJti"
    BY <1>3 DEF LogoutJti, Goto, Become, At
  <2>2. /\ req'[r].pc = "outSelect"
        /\ req'[r].op = "logout"
        /\ req'[r].token = req[r].token
        /\ req'[r].jti = req[r].jti
        /\ req'[r].row = req[r].row
        /\ req'[r].todo = req[r].todo
        /\ req'[r].child = req[r].child
        /\ req'[r].late = req[r].late
    BY <1>1, <1>2, <2>1 DEF Request
  <2>3. UNCHANGED storeVars /\ JtiSpent(req[r].jti)'
    BY <1>3, <2>2 DEF LogoutJti, JtiSpent
  <2> QED
    BY <1>2, <2>1, <2>2, <2>3
    DEF SlotOK, PcOK, TokensOK, RotationOK, TodoOK, FamilyOK, LogoutOK, Rotating,
        LogoutPC, Stored, Dead, JtiSpent, storeVars
<1>4. CASE LogoutSelect(r)
  <2>1. req[r].pc = "outSelect" /\ UNCHANGED <<storeVars, jtiVars>>
    BY <1>4 DEF LogoutSelect, At
  <2>2. req[r].row = None
    BY <1>2, <2>1 DEF SlotOK, LogoutOK
  <2>3. CASE LogoutTarget(r) = {} /\ Goto(r, "respond")
    <3>1. req'[r] = [req[r] EXCEPT !.pc = "respond"]
      BY <2>3 DEF Goto, Become
    <3>2. /\ req'[r].pc = "respond"
          /\ req'[r].op = "logout"
          /\ req'[r].token = req[r].token
          /\ req'[r].jti = req[r].jti
          /\ req'[r].row = None
          /\ req'[r].todo = req[r].todo
          /\ req'[r].child = req[r].child
          /\ req'[r].late = req[r].late
      BY <1>1, <1>2, <2>2, <3>1 DEF Request
    <3>3. req[r].token # None => Dead(req[r].token)
      BY <2>3 DEF LogoutTarget, Active, SlotOK, TokensOK, Dead, Stored
    <3> QED
      BY <1>2, <2>1, <3>2, <3>3
      DEF SlotOK, PcOK, TokensOK, RotationOK, TodoOK, FamilyOK, LogoutOK, Rotating,
          LogoutPC, Stored, Dead, JtiSpent, storeVars
  <2>4. ASSUME NEW t \in LogoutTarget(r),
               Become(r, [req[r] EXCEPT !.pc = "outUpdate", !.row = t])
        PROVE  SlotOK(r)'
    <3>1. req'[r] = [req[r] EXCEPT !.pc = "outUpdate", !.row = t]
      BY <2>4 DEF Become
    <3>2. /\ req'[r].pc = "outUpdate"
          /\ req'[r].op = "logout"
          /\ req'[r].token = req[r].token
          /\ req'[r].jti = req[r].jti
          /\ req'[r].row = t
          /\ req'[r].todo = req[r].todo
          /\ req'[r].child = req[r].child
          /\ req'[r].late = req[r].late
      BY <1>1, <1>2, <3>1 DEF Request
    <3>3. t \in Active /\ (req[r].token # None => t = req[r].token)
      BY DEF LogoutTarget, MostRecent, ActiveOfUser
    <3>4. t \in Token /\ Stored(t)
      BY <3>3 DEF Active, StoreOK, Stored, StoreTypeOK, Token
    <3> QED
      BY <1>2, <2>1, <3>2, <3>3, <3>4
      DEF SlotOK, PcOK, TokensOK, RotationOK, TodoOK, FamilyOK, LogoutOK, Rotating,
          LogoutPC, Stored, Dead, JtiSpent, storeVars
  <2> QED
    BY <1>4, <2>3, <2>4 DEF LogoutSelect
<1>5. CASE LogoutUpdate(r)
  <2>1. req'[r] = [req[r] EXCEPT !.pc = "outMirror", !.todo = {req[r].row}]
        /\ req[r].pc = "outUpdate"
    BY <1>5 DEF LogoutUpdate, Become, At
  <2>2. req[r].row \in Token /\ Stored(req[r].row)
    BY <1>2, <2>1 DEF SlotOK, LogoutOK, TokensOK, Request
  <2>3. /\ req'[r].pc = "outMirror"
        /\ req'[r].op = "logout"
        /\ req'[r].token = req[r].token
        /\ req'[r].jti = req[r].jti
        /\ req'[r].row = req[r].row
        /\ req'[r].todo = {req[r].row}
        /\ req'[r].child = req[r].child
        /\ req'[r].late = req[r].late
    BY <1>1, <1>2, <2>1 DEF Request
  <2>4. /\ UNCHANGED <<issued, parent, jtiVars>>
        /\ \A t \in Token : reason[t] # "active" => reason'[t] # "active"
        /\ reason'[req[r].row] # "active"
    BY <1>5, <2>2 DEF LogoutUpdate, MarkRevoked
  <2> QED
    BY <1>2, <2>1, <2>2, <2>3, <2>4
    DEF SlotOK, PcOK, TokensOK, RotationOK, TodoOK, FamilyOK, LogoutOK, Rotating,
        LogoutPC, Stored, Dead, JtiSpent
<1> QED
  BY <1>3, <1>4, <1>5

LEMMA StepOK ==
    ASSUME IInv, TypeOK', NEW r \in Slots, Step(r)
    PROVE  SlotOK(r)'
<1>1. CASE Reject(r) \/ UserMissing(r) \/ InsertRefused(r) \/ Respond(r)
  BY <1>1, IdleOK DEF Reject, UserMissing, InsertRefused, Respond, IInv
<1> QED
  BY <1>1, ClaimOK, PollHitOK, SelectOK, RotateUpdateOK, MirrorOK, FamilyStepOK,
     InsertOK, FinishOK, LogoutStepOK
  DEF Step, RefreshStep, LogoutStep

-----------------------------------------------------------------------------
(* The table and its caches.                                               *)

LEMMA InsertStoreOK ==
    ASSUME IInv, NEW r \in Slots, Insert(r)
    PROVE  StoreOK'
<1> USE DEF IInv, TypeOK, StoreTypeOK
<1>1. PICK n \in Token : n = New
  BY InsertFacts
<1>2. /\ issued < n /\ issued' = n
      /\ parent' = [parent EXCEPT ![n] = req[r].row]
      /\ reason' = [reason EXCEPT ![n] = "active"]
      /\ mirror' = mirror /\ delivered' = delivered
  BY <1>1, InsertFacts DEF Insert, InsertRow
<1>3. req[r].row # None => Dead(req[r].row)
  BY InsertFacts
<1>4. \A t : (Stored(t) => Stored(t)') /\ (Dead(t) => Dead(t)')
  BY <1>2 DEF Stored, Dead, Token
<1>5. \A t \in Token : t > issued' => reason'[t] = "absent" /\ parent'[t] = None
  BY <1>2 DEF StoreOK, Token
<1>6. \A t \in Token : parent'[t] # None => Dead(parent[t])' 
  <2> SUFFICES ASSUME NEW t \in Token, parent'[t] # None
               PROVE  Dead(parent[t])'
    OBVIOUS
  <2>1. CASE t = n
    BY <1>2, <1>3, <1>4, <2>1 DEF Dead, Stored
  <2>2. CASE t # n
    BY <1>2, <1>4, <2>2 DEF StoreOK, Dead, Stored
  <2> QED
    BY <2>1, <2>2
<1>7. \A t \in Token : t <= issued' => sessionFamily'[t] # None
  <2>1. sessionFamily'[n] # None
    BY <1>1 DEF Insert, InsertRow
  <2>2. \A t \in Token \ {n} : sessionFamily'[t] = sessionFamily[t]
    BY <1>1 DEF Insert, InsertRow
  <2>3. \A t \in Token \ {n} : t <= issued' => t <= issued
    BY <1>1, <1>2 DEF New, Token
  <2> QED
    BY <2>1, <2>2, <2>3 DEF StoreOK
<1> QED
  BY <1>2, <1>4, <1>5, <1>6, <1>7 DEF StoreOK

\* Steps that insert no row.
LEMMA QuietStoreOK ==
    ASSUME IInv, RowsOnlyMature, UNCHANGED <<issued, parent>>,
           \A t \in Token : reason[t] = "absent" => reason'[t] = "absent",
           \A t \in mirror' : t \in mirror \/ Dead(t),
           \A t \in delivered' : t \in delivered \/ Stored(t)
    PROVE  StoreOK'
<1> USE DEF IInv, TypeOK, StoreTypeOK
<1>1. \A t : (Stored(t) => Stored(t)') /\ (Dead(t) => Dead(t)')
  BY DEF Stored, Dead, RowsOnlyMature, Token
<1>2. \A t \in Token : t <= issued' => sessionFamily'[t] # None
  BY DEF StoreOK, RowsOnlyMature
<1> QED
  BY <1>1, <1>2 DEF StoreOK, Dead, Stored

LEMMA StepStoreOK ==
    ASSUME IInv, NEW r \in Slots, Step(r)
    PROVE  StoreOK'
<1> USE DEF IInv
<1>0. RowsOnlyMature
  BY StepMatures
<1>1. CASE RotateUpdate(r) \/ FamilyUpdate(r) \/ LogoutUpdate(r)
  BY <1>0, <1>1, QuietStoreOK
  DEF RotateUpdate, FamilyUpdate, LogoutUpdate, MarkRevoked
<1>2. CASE RotateMirror(r) \/ FamilyMirror(r) \/ LogoutMirror(r)
  <2>1. /\ UNCHANGED <<issued, parent, reason, delivered>>
        /\ \A t \in mirror' : t \in mirror \/ t \in req[r].todo
        /\ req[r].pc \in {"rotMirror", "famMirror", "outMirror"}
    BY <1>2 DEF RotateMirror, FamilyMirror, LogoutMirror, MirrorOne, CacheRevocation, At
  <2> QED
    BY <1>0, <2>1, QuietStoreOK DEF SlotOK, TodoOK
<1>3. CASE Insert(r)
  BY <1>3, InsertStoreOK
<1>4. CASE Respond(r)
  BY <1>0, <1>4, QuietStoreOK DEF Respond, storeVars, SlotOK, TokensOK
<1>5. CASE ClaimWon(r) \/ ClaimLost(r) \/ PollHit(r) \/ PollAgain(r) \/ PollGiveUp(r)
  BY <1>0, <1>5, QuietStoreOK
  DEF ClaimWon, ClaimLost, PollHit, PollAgain, PollGiveUp, storeVars
<1>6. CASE SelectReplay(r) \/ SelectRefused(r) \/ SelectUsable(r) \/ FamilySelect(r)
  BY <1>0, <1>6, QuietStoreOK
  DEF SelectReplay, SelectRefused, SelectUsable, FamilySelect, storeVars
<1>7. CASE Reject(r) \/ UserFound(r) \/ UserMissing(r) \/ Complete(r)
  BY <1>0, <1>7, QuietStoreOK DEF Reject, UserFound, UserMissing, Complete, storeVars
<1>8. CASE LogoutJti(r) \/ LogoutSelect(r) \/ InsertRefused(r)
  BY <1>0, <1>8, QuietStoreOK DEF LogoutJti, LogoutSelect, InsertRefused, storeVars
<1> QED
  BY <1>1, <1>2, <1>3, <1>4, <1>5, <1>6, <1>7, <1>8 DEF Step, RefreshStep, LogoutStep

LEMMA OtherStoreOK ==
    ASSUME IInv, (\E r \in Slots : Start(r)) \/ Environment
    PROVE  StoreOK'
<1> USE DEF IInv
<1>0. RowsOnlyMature
  BY StartMatures, EnvironmentMatures
<1>1. CASE \E r \in Slots : Start(r)
  BY <1>0, <1>1, QuietStoreOK DEF Start, StartLogin, StartRefresh, StartLogout, storeVars
<1>2. ASSUME NEW u \in Users, DeleteUser(u) PROVE StoreOK'
  BY <1>0, <1>2, QuietStoreOK DEF DeleteUser, CascadeDelete
<1>3. ASSUME NEW t \in Token, RowExpires(t) \/ MirrorKeyLapses(t) PROVE StoreOK'
  BY <1>0, <1>3, QuietStoreOK DEF RowExpires, Expire, MirrorKeyLapses, MirrorLapse
<1>4. ASSUME NEW r \in Slots, ClaimReplyLost(r) \/ Fail(r) PROVE StoreOK'
  BY <1>0, <1>4, QuietStoreOK DEF ClaimReplyLost, Fail, storeVars
<1>6. ASSUME NEW t \in Token, AccessAges(t) \/ JtiKeyLapses(t) PROVE StoreOK'
  BY <1>0, <1>6, QuietStoreOK DEF AccessAges, JtiKeyLapses, storeVars
<1>5. ASSUME NEW k \in Keys, ClaimLapses(k) PROVE StoreOK'
  BY <1>0, <1>5, QuietStoreOK DEF ClaimLapses, storeVars
<1> QED
  BY <1>1, <1>2, <1>3, <1>4, <1>5, <1>6 DEF Environment

\* A slot that is not written keeps its answer, whatever happens to the rows.
LEMMA QuietCacheOK ==
    ASSUME IInv, TypeOK', RowsOnlyMature,
           \A k \in Keys : idem'[k].status = "done" => idem'[k] = idem[k]
    PROVE  CacheOK'
<1> SUFFICES ASSUME NEW k \in Keys, idem'[k].status = "done"
             PROVE  /\ Stored(idem[k].child)'
                    /\ parent'[idem'[k].child] = idem'[k].asked
  BY DEF CacheOK
<1>1. idem'[k] = idem[k] /\ Stored(idem[k].child)
  BY DEF IInv, CacheOK
<1>2. parent'[idem[k].child] = parent[idem[k].child] /\ idem[k].child <= issued'
  BY <1>1 DEF RowsOnlyMature, Stored, IInv, TypeOK, StoreTypeOK, Token
<1> QED
  BY <1>1, <1>2 DEF IInv, CacheOK, Stored

LEMMA StepCacheOK ==
    ASSUME IInv, TypeOK', NEW r \in Slots, Step(r)
    PROVE  CacheOK'
<1> USE DEF IInv, TypeOK
<1>0. RowsOnlyMature
  BY StepMatures
<1>1. CASE Complete(r)
  <2>1. UNCHANGED storeVars /\ req[r].pc = "complete"
    BY <1>1 DEF Complete, At
  <2>2. req[r].op = "refresh"
    BY <2>1 DEF SlotOK, PcOK, Request, LogoutPC
  <2>3. req[r].child # None => /\ Stored(req[r].child)
                               /\ parent[req[r].child] = req[r].token
    BY <2>2 DEF SlotOK, TokensOK
  <2>4. req[r].child # None
    BY <2>1 DEF SlotOK, RotationOK
  <2> QED
    BY <1>1, <2>1, <2>3, <2>4
    DEF Complete, CompleteClaim, Done, CacheOK, CacheTypeOK, storeVars, Stored
<1>2. CASE ClaimWon(r) \/ Reject(r)
  BY <1>0, <1>2, QuietCacheOK
  DEF ClaimWon, TakeClaim, Reject, ReleaseClaim, Pending, Free, CacheTypeOK
<1>3. CASE UNCHANGED idem
  BY <1>0, <1>3, QuietCacheOK
<1> QED
  BY <1>1, <1>2, <1>3
  DEF Step, RefreshStep, LogoutStep, ClaimLost, PollHit, PollAgain, PollGiveUp,
      SelectReplay, SelectRefused, SelectUsable, RotateUpdate, RotateMirror,
      FamilySelect, FamilyUpdate, FamilyMirror, UserFound, UserMissing, LogoutJti,
      LogoutSelect, LogoutUpdate, LogoutMirror, MirrorOne, Insert, InsertRefused,
      Respond

LEMMA OtherCacheOK ==
    ASSUME IInv, TypeOK', (\E r \in Slots : Start(r)) \/ Environment
    PROVE  CacheOK'
<1> USE DEF IInv, TypeOK
<1>0. RowsOnlyMature
  BY StartMatures, EnvironmentMatures
<1>1. CASE \E r \in Slots : Start(r)
  BY <1>0, <1>1, QuietCacheOK DEF Start, StartLogin, StartRefresh, StartLogout
<1>2. ASSUME NEW r \in Slots, ClaimReplyLost(r) PROVE CacheOK'
  BY <1>0, <1>2, QuietCacheOK DEF ClaimReplyLost, TakeClaim, Pending, CacheTypeOK
<1>3. ASSUME NEW k \in Keys, ClaimLapses(k) PROVE CacheOK'
  BY <1>0, <1>3, QuietCacheOK DEF ClaimLapses, SlotLapses, Free, CacheTypeOK
<1>4. CASE UNCHANGED idem
  BY <1>0, <1>4, QuietCacheOK
<1> QED
  BY <1>1, <1>2, <1>3, <1>4
  DEF Environment, Fail, RowExpires, MirrorKeyLapses, AccessAges, JtiKeyLapses,
      DeleteUser

-----------------------------------------------------------------------------
(* The invariant.                                                          *)

LEMMA InitIInv == Init => IInv
<1> SUFFICES ASSUME Init PROVE IInv
  OBVIOUS
<1>1. TypeOK
  BY TypingInit
<1>2. StoreOK /\ CacheOK
  BY DEF Init, StoreInit, CacheInit, StoreOK, CacheOK, Free, Token
<1>3. ASSUME NEW r \in Slots PROVE SlotOK(r)
  <2>1. req[r] = Idle
    BY DEF Init
  <2> QED
    BY <2>1 DEF SlotOK, PcOK, TokensOK, RotationOK, TodoOK, FamilyOK, LogoutOK,
                Idle, Rotating
<1> QED
  BY <1>1, <1>2, <1>3 DEF IInv

\* Request r starts or steps.
LEMMA RequestIInv ==
    ASSUME IInv, NEW r \in Slots, Start(r) \/ Step(r)
    PROVE  IInv'
<1> USE DEF IInv
<1>1. TypeOK'
  BY StartTyping, StepTyping
<1>2. StoreOK' /\ CacheOK'
  BY <1>1, StepStoreOK, StepCacheOK, OtherStoreOK, OtherCacheOK
<1>3. RowsOnlyMature /\ KeysOnlyMature
  BY StartMatures, StepMatures, RequestKeysMature
<1>4. SlotOK(r)'
  BY <1>1, StartOK, StepOK
<1>5. ASSUME NEW q \in Slots, q # r PROVE SlotOK(q)'
  <2>1. req'[q] = req[q]
    BY <1>5, OthersWait DEF TypeOK
  <2> QED
    BY <1>1, <1>3, <2>1, SlotStable
<1> QED
  BY <1>1, <1>2, <1>4, <1>5

LEMMA EnvironmentIInv ==
    ASSUME IInv, Environment
    PROVE  IInv'
<1> USE DEF IInv
<1>1. TypeOK'
  BY EnvironmentTyping
<1>2. StoreOK' /\ CacheOK'
  BY <1>1, OtherStoreOK, OtherCacheOK
<1>3. RowsOnlyMature /\ KeysOnlyMature
  BY EnvironmentMatures, EnvironmentKeysMature
<1>4. ASSUME NEW q \in Slots PROVE SlotOK(q)'
  <2>1. ASSUME NEW r \in Slots, ClaimReplyLost(r) \/ Fail(r) PROVE SlotOK(q)'
    <3>1. CASE q = r
      BY <1>1, <2>1, <3>1, ClaimOK, IdleOK DEF Fail
    <3>2. CASE q # r
      <4>1. req'[q] = req[q]
        BY <2>1, <3>2, OthersWait DEF TypeOK
      <4> QED
        BY <1>1, <1>3, <4>1, SlotStable
    <3> QED
      BY <3>1, <3>2
  <2>2. ASSUME NEW k \in Keys, ClaimLapses(k) PROVE SlotOK(q)'
    <3>1. \/ req'[q] = req[q]
          \/ req'[q] = [req[q] EXCEPT !.expect = None]
      BY <2>2 DEF ClaimLapses
    <3>2. CASE req'[q] = req[q]
      BY <1>1, <1>3, <3>2, SlotStable
    <3>3. CASE req'[q] = [req[q] EXCEPT !.expect = None]
      <4>1. req[q] \in Request
        BY DEF TypeOK
      <4>2. /\ req'[q].pc = req[q].pc
            /\ req'[q].op = req[q].op
            /\ req'[q].token = req[q].token
            /\ req'[q].jti = req[q].jti
            /\ req'[q].key = req[q].key
            /\ req'[q].row = req[q].row
            /\ req'[q].todo = req[q].todo
            /\ req'[q].child = req[q].child
            /\ req'[q].late = req[q].late
            /\ req'[q].mark = req[q].mark
        BY <3>3, <4>1 DEF Request
      <4>3. UNCHANGED <<storeVars, jtiVars>>
        BY <2>2 DEF ClaimLapses
      <4> QED
        BY <4>2, <4>3
        DEF SlotOK, PcOK, TokensOK, RotationOK, TodoOK, FamilyOK, LogoutOK, Stored,
            Dead, JtiSpent, Settled, Family, storeVars
    <3> QED
      BY <3>1, <3>2, <3>3
  <2>3. CASE UNCHANGED req
    BY <1>1, <1>3, <2>3, SlotStable
  <2> QED
    BY <2>1, <2>2, <2>3
    DEF Environment, RowExpires, MirrorKeyLapses, AccessAges, JtiKeyLapses, DeleteUser
<1> QED
  BY <1>1, <1>2, <1>4

LEMMA StutterIInv == IInv /\ UNCHANGED vars => IInv'
<1> SUFFICES ASSUME IInv, UNCHANGED vars PROVE IInv'
  OBVIOUS
<1> USE DEF vars, storeVars, IInv
<1>1. TypeOK'
  BY DEF TypeOK, StoreTypeOK, CacheTypeOK
<1>2. StoreOK' /\ CacheOK'
  BY DEF StoreOK, CacheOK, Stored, Dead
<1>3. ASSUME NEW r \in Slots PROVE SlotOK(r)'
  BY <1>1, UnchangedMatures, KeysUnchanged, SlotStable
<1> QED
  BY <1>1, <1>2, <1>3

\* The inductive invariant holds in every reachable state.
THEOREM Invariance == Spec => []IInv
<1>1. IInv /\ [Next]_vars => IInv'
  <2> SUFFICES ASSUME IInv, Next PROVE IInv'
    BY StutterIInv
  <2> QED
    BY RequestIInv, EnvironmentIInv DEF Next
<1> QED
  BY InitIInv, <1>1, PTL DEF Spec

-----------------------------------------------------------------------------
(* What follows from it.                                                   *)

\* Every variable keeps its type, the handlers' local variables included.
THEOREM Typing == Spec => []TypeOK
<1>1. IInv => TypeOK
  BY DEF IInv
<1> QED
  BY Invariance, <1>1, PTL

\* Rotation never leaves a consumed token active, under any interleaving of
\* logins, refreshes and logouts and any failure between two of their awaits.
THEOREM ConsumedTokensStayDead == Spec => []ConsumedNeverActive
<1>1. IInv => ConsumedNeverActive
  BY DEF IInv, StoreOK, Dead, ConsumedNeverActive, Active
<1> QED
  BY Invariance, <1>1, PTL

\* No key revoked:refresh:<hash> exists for a token that can still be used.
THEOREM MirrorIsSound == Spec => []MirrorSound
<1>1. IInv => MirrorSound
  BY DEF IInv, StoreOK, Dead, MirrorSound, Active
<1> QED
  BY Invariance, <1>1, PTL

\* A refresh is answered with a pair rotated out of the presented token,
\* also when the pair comes from another request's idempotency slot.
THEOREM AnswersDescend == Spec => []AnswerDescendsFromToken
<1>1. IInv => AnswerDescendsFromToken
  BY DEF IInv, SlotOK, TokensOK, AnswerDescendsFromToken
<1> QED
  BY Invariance, <1>1, PTL

\* A request that presents an already revoked token never reaches rotation.
THEOREM ReplaysAreCaught == Spec => []ReplayNeverRotates
<1>1. IInv => ReplayNeverRotates
  BY DEF IInv, SlotOK, RotationOK, ReplayNeverRotates
<1> QED
  BY Invariance, <1>1, PTL

\* A detected replay has revoked every row its family had at the UPDATE.
THEOREM ReplaysRevoke == Spec => []ReplayRevokesExisting
<1>1. IInv => ReplayRevokesExisting
  BY DEF IInv, SlotOK, FamilyOK, ReplayRevokesExisting, ActiveInFamily, Active
<1> QED
  BY Invariance, <1>1, PTL

\* A 204 is sent only when the access token is on the list or past its exp,
\* where revokeToken returns without writing a key, and the refresh token is
\* revoked in the table and in the mirror: a failure between these writes ends
\* in a 500, whatever other requests do between them.
THEOREM LogoutsTakeEffect == Spec => []LogoutEffective
<1>1. IInv => LogoutEffective
  BY DEF IInv, SlotOK, LogoutOK, LogoutEffective, Dead, Stored, Active, JtiSpent,
         Settled
<1> QED
  BY Invariance, <1>1, PTL

-----------------------------------------------------------------------------
(* A dead session stays dead.                                              *)

\* Only INSERT adds a row, and no statement moves a row to another family or
\* gives it another parent.
LEMMA OnlyInsertAdds ==
    ASSUME IInv, Next, \A r \in Slots : ~Insert(r)
    PROVE  UNCHANGED <<issued, parent, sessionFamily>>
<1>1. CASE \E r \in Slots : Start(r)
  BY <1>1 DEF Start, StartLogin, StartRefresh, StartLogout, storeVars
<1>2. CASE \E r \in Slots : RefreshStep(r)
  BY <1>2 DEF RefreshStep, ClaimWon, ClaimLost, PollHit, PollAgain, PollGiveUp,
       SelectReplay, SelectRefused, SelectUsable, RotateUpdate, RotateMirror,
       FamilySelect, FamilyUpdate, FamilyMirror, Reject, UserFound, UserMissing,
       Complete, MirrorOne, MarkRevoked, CacheRevocation, storeVars
<1>3. CASE \E r \in Slots : LogoutStep(r)
  BY <1>3 DEF LogoutStep, LogoutJti, LogoutSelect, LogoutUpdate, LogoutMirror,
       MirrorOne, MarkRevoked, CacheRevocation, storeVars
<1>4. CASE \E r \in Slots : InsertRefused(r) \/ Respond(r)
  BY <1>4 DEF InsertRefused, Respond, storeVars
<1>5. CASE Environment
  BY <1>5 DEF Environment, ClaimReplyLost, Fail, RowExpires, Expire,
       MirrorKeyLapses, MirrorLapse, AccessAges, JtiKeyLapses, ClaimLapses,
       DeleteUser, CascadeDelete, storeVars
<1> QED
  BY <1>1, <1>2, <1>3, <1>4, <1>5 DEF Next, Step

\* A request in rotation was in rotation before, with the same token, or has
\* just read that its token is active.
LEMMA EntersRotation ==
    ASSUME IInv, Next, NEW q \in Slots,
           req'[q].op = "refresh", req'[q].pc \in Rotating
    PROVE  /\ req[q].op = "refresh"
           /\ req'[q].token = req[q].token
           /\ \/ req[q].pc \in Rotating
              \/ SelectUsable(q) /\ reason[req[q].token] = "active"
<1> USE DEF IInv, TypeOK
<1> req[q] \in Request
  OBVIOUS
<1>1. CASE req'[q] = req[q]
  BY <1>1
<1>2. ASSUME NEW k \in Keys, ClaimLapses(k)
      PROVE  req'[q].pc = req[q].pc /\ req'[q].op = req[q].op
             /\ req'[q].token = req[q].token
  BY <1>2 DEF ClaimLapses, Request
<1>3. CASE SelectUsable(q)
  <2>1. /\ req'[q] = [req[q] EXCEPT !.pc = "rotUpdate", !.row = req[q].token,
                                    !.user = userId[req[q].token]]
        /\ req[q].pc = "select"
    BY <1>3 DEF SelectUsable, Become, At
  <2>2. req'[q].op = req[q].op /\ req'[q].token = req[q].token
    BY <2>1 DEF Request
  <2>3. req[q].token \in Token
    BY <2>1 DEF SlotOK, PcOK, TokensOK, Request, LogoutPC
  <2>4. reason[req[q].token] = "active"
    BY <1>3, <2>3 DEF SelectUsable, IsRevoked, Usable, StoreTypeOK, Reason
  <2> QED
    BY <1>3, <2>2, <2>4
<1>4. CASE RotateUpdate(q)
  <2>1. /\ req'[q] = [req[q] EXCEPT !.pc = "rotMirror", !.todo = {req[q].row}]
        /\ req[q].pc = "rotUpdate"
    BY <1>4 DEF RotateUpdate, Become, At
  <2> QED
    BY <2>1 DEF Request, Rotating
<1>5. CASE RotateMirror(q)
  <2>1. MirrorOne(q, "rotMirror", "insert") /\ "rotMirror" \in PC /\ "insert" \in PC
    BY <1>5 DEF RotateMirror, PC, Rotating
  <2> QED
    BY <2>1, MirrorStep DEF Rotating
<1>6. CASE Start(q)
  <2>1. req'[q].op # "refresh" \/ req'[q].pc \notin Rotating
    <3>1. CASE \E u \in Users : StartLogin(q, u)
      <4>1. PICK u \in Users :
              req'[q] = [Idle EXCEPT !.pc = "insert", !.op = "login", !.user = u]
        BY <3>1 DEF StartLogin, Become
      <4>2. req'[q].op = "login"
        BY <4>1 DEF Idle
      <4> QED
        BY <4>2
    <3>2. CASE \E t \in delivered, k \in Keys \cup {None} : StartRefresh(q, t, k)
      <4>1. PICK t \in delivered, k \in Keys \cup {None} :
              req'[q] = [Idle EXCEPT !.pc = IF k = None THEN "select" ELSE "claim",
                                     !.op = "refresh", !.token = t, !.key = k,
                                     !.late = reason[t] # "active",
                                     !.expect = OnRecord(k, t)]
        BY <3>2 DEF StartRefresh, Become
      <4>2. req'[q].pc = IF k = None THEN "select" ELSE "claim"
        BY <4>1 DEF Idle
      <4> QED
        BY <4>2 DEF Rotating
    <3>3. CASE \E a \in delivered, b \in delivered \cup {None} : StartLogout(q, a, b)
      <4>1. PICK a \in delivered, b \in delivered \cup {None} :
              req'[q] = [Idle EXCEPT !.pc = "outJti", !.op = "logout", !.jti = a,
                                     !.user = userId[a], !.token = b]
        BY <3>3 DEF StartLogout, Become
      <4>2. req'[q].op = "logout"
        BY <4>1 DEF Idle
      <4> QED
        BY <4>2
    <3> QED
      BY <1>6, <3>1, <3>2, <3>3 DEF Start
  <2> QED
    BY <2>1
<1>7. CASE ClaimWon(q) \/ ClaimLost(q) \/ ClaimReplyLost(q) \/ PollHit(q)
             \/ PollAgain(q) \/ PollGiveUp(q)
  <2>1. req'[q].pc \in {"select", "poll", "respond"}
    <3>1. CASE ClaimWon(q)
      BY <3>1 DEF ClaimWon, Goto, Become, At, Request
    <3>2. CASE ClaimLost(q)
      BY <3>2 DEF ClaimLost, Goto, Become, At, Request
    <3>3. CASE ClaimReplyLost(q)
      BY <3>3 DEF ClaimReplyLost, Goto, Become, At, Request
    <3>4. CASE PollHit(q)
      BY <3>4 DEF PollHit, Goto, Become, At, Request
    <3>5. CASE PollAgain(q)
      BY <3>5 DEF PollAgain, Goto, Become, At, Request
    <3>6. CASE PollGiveUp(q)
      BY <3>6 DEF PollGiveUp, Goto, Become, At, Request
    <3> QED
      BY <1>7, <3>1, <3>2, <3>3, <3>4, <3>5, <3>6
  <2> QED
    BY <2>1 DEF Rotating
<1>8. CASE SelectReplay(q) \/ SelectRefused(q) \/ FamilySelect(q) \/ FamilyUpdate(q)
  <2>1. req'[q].pc \in {"famSelect", "refuse", "reuse", "famUpdate", "famMirror"}
    <3>1. CASE SelectReplay(q)
      BY <3>1 DEF SelectReplay, Goto, Become, At, Request
    <3>2. CASE SelectRefused(q)
      BY <3>2 DEF SelectRefused, Goto, Become, At, Request
    <3>3. CASE FamilySelect(q)
      BY <3>3 DEF FamilySelect, Goto, Become, At, Request
    <3>4. CASE FamilyUpdate(q)
      BY <3>4 DEF FamilyUpdate, Goto, Become, At, Request
    <3> QED
      BY <1>8, <3>1, <3>2, <3>3, <3>4
  <2> QED
    BY <2>1 DEF Rotating
<1>9. CASE FamilyMirror(q) \/ LogoutMirror(q)
  <2>1. /\ {"famMirror", "reuse", "outMirror", "respond"} \subseteq PC
        /\ MirrorOne(q, "famMirror", "reuse") \/ MirrorOne(q, "outMirror", "respond")
    BY <1>9 DEF FamilyMirror, LogoutMirror, PC
  <2>2. req'[q].pc \in {"famMirror", "reuse", "outMirror", "respond"}
    BY <2>1, MirrorStep
  <2> QED
    BY <2>2 DEF Rotating
<1>10. CASE End(q)
  <2>1. req'[q].pc = "idle"
    BY <1>10 DEF End, Become, Idle
  <2> QED
    BY <2>1 DEF Rotating
<1>11. CASE Insert(q)
  <2>1. req'[q].pc \in {"respond", "findUser"}
    BY <1>11 DEF Insert, Become, Request
  <2> QED
    BY <2>1 DEF Rotating
<1>12. CASE UserFound(q) \/ Complete(q) \/ LogoutJti(q) \/ LogoutSelect(q)
              \/ LogoutUpdate(q)
  <2>1. req'[q].pc \in {"complete", "respond", "outSelect", "outUpdate", "outMirror"}
    <3>1. CASE UserFound(q)
      BY <3>1 DEF UserFound, Goto, Become, At, Request
    <3>2. CASE Complete(q)
      BY <3>2 DEF Complete, Goto, Become, At, Request
    <3>3. CASE LogoutJti(q)
      BY <3>3 DEF LogoutJti, Goto, Become, At, Request
    <3>4. CASE LogoutSelect(q)
      <4>1. \/ req'[q] = [req[q] EXCEPT !.pc = "respond"]
            \/ \E t \in LogoutTarget(q) :
                  req'[q] = [req[q] EXCEPT !.pc = "outUpdate", !.row = t]
        BY <3>4 DEF LogoutSelect, Goto, Become
      <4> QED
        BY <4>1 DEF Request
    <3>5. CASE LogoutUpdate(q)
      BY <3>5 DEF LogoutUpdate, Goto, Become, At, Request
    <3> QED
      BY <1>12, <3>1, <3>2, <3>3, <3>4, <3>5
  <2> QED
    BY <2>1 DEF Rotating
<1>13. ASSUME NEW r \in Slots, r # q,
              Start(r) \/ Step(r) \/ ClaimReplyLost(r) \/ Fail(r)
       PROVE  req'[q] = req[q]
  BY <1>13, OthersWait
<1>14. Step(q) \/ ClaimReplyLost(q) \/ Fail(q)
         => \/ SelectUsable(q) \/ RotateUpdate(q) \/ RotateMirror(q)
            \/ ClaimWon(q) \/ ClaimLost(q) \/ ClaimReplyLost(q) \/ PollHit(q)
            \/ PollAgain(q) \/ PollGiveUp(q)
            \/ SelectReplay(q) \/ SelectRefused(q) \/ FamilySelect(q)
            \/ FamilyUpdate(q) \/ FamilyMirror(q) \/ LogoutMirror(q)
            \/ End(q) \/ Insert(q)
            \/ UserFound(q) \/ Complete(q) \/ LogoutJti(q) \/ LogoutSelect(q)
            \/ LogoutUpdate(q)
  BY DEF Step, RefreshStep, LogoutStep, Reject, UserMissing, InsertRefused,
         Respond, Fail
<1> QED
  <2>1. CASE UNCHANGED req
    BY <1>1, <2>1
  <2>2. CASE \E k \in Keys : ClaimLapses(k)
    BY <1>2, <2>2
  <2>3. CASE \E r \in Slots : Start(r) \/ Step(r) \/ ClaimReplyLost(r) \/ Fail(r)
    BY <1>1, <1>3, <1>4, <1>5, <1>6, <1>7, <1>8, <1>9, <1>10, <1>11, <1>12, <1>13,
       <1>14, <2>3
  <2> QED
    BY <2>1, <2>2, <2>3
    DEF Next, Environment, RowExpires, MirrorKeyLapses, AccessAges, JtiKeyLapses,
        DeleteUser

LEMMA DeadStep ==
    ASSUME IInv, IInv', Next, NEW f \in Token, DeadFamily(f)
    PROVE  DeadFamily(f)'
<1> USE DEF IInv, TypeOK, StoreTypeOK
<1>1. RowsOnlyMature
  BY StartMatures, StepMatures, EnvironmentMatures DEF Next
<1>2. f <= issued'
  BY <1>1 DEF DeadFamily, RowsOnlyMature, Token
<1>3. ASSUME NEW q \in Slots, req'[q].op = "refresh", req'[q].pc \in Rotating
      PROVE  Family(q)' # f
  <2>1. /\ req[q].op = "refresh"
        /\ req'[q].token = req[q].token
        /\ req[q].pc \in Rotating \/ reason[req[q].token] = "active"
    BY <1>3, EntersRotation
  <2>2. req[q].token \in Token /\ Stored(req[q].token)
    BY <2>1 DEF SlotOK, TokensOK, Stored
  <2>3. Family(q)' = Family(q)
    BY <1>1, <2>1, <2>2 DEF Family, RowsOnlyMature, Stored
  <2> QED
    BY <2>1, <2>2, <2>3 DEF DeadFamily, ActiveInFamily, Active, Family
<1>4. ASSUME NEW t \in Token, reason'[t] = "active", sessionFamily'[t] = f
      PROVE  FALSE
  <2>1. CASE t <= issued
    BY <1>1, <1>4, <2>1 DEF RowsOnlyMature, DeadFamily, ActiveInFamily, Active
  <2>2. CASE t > issued
    <3>1. t <= issued'
      BY <1>4 DEF StoreOK, Token
    <3>2. PICK r \in Slots : Insert(r)
      BY <2>2, <3>1, OnlyInsertAdds DEF Token
    <3>3. t = New
      BY <2>2, <3>1, <3>2, InsertFacts DEF New, Token
    <3>4. sessionFamily'[t] = IF req[r].op = "login" THEN t
                              ELSE IF Family(r) = None THEN t ELSE Family(r)
      BY <3>2, <3>3 DEF Insert, InsertRow
    <3>5. t # f
      BY <2>2 DEF DeadFamily, Token
    <3>6. req[r].op = "refresh" /\ req[r].pc \in Rotating
      BY <1>4, <3>2, <3>4, <3>5, InsertFacts DEF Insert, At, Rotating
    <3> QED
      BY <1>4, <3>4, <3>5, <3>6 DEF DeadFamily
  <2> QED
    BY <2>1, <2>2 DEF Token
<1> QED
  BY <1>2, <1>3, <1>4 DEF DeadFamily, ActiveInFamily, Active

\* Once a session has no usable token and no rotation under way, no step of
\* any request gives it a usable token again.
THEOREM DeadSessionsStayDead == Spec => DeadSessionStaysDead
<1>1. IInv /\ IInv' /\ [Next]_vars
        => [\A f \in Token : DeadFamily(f) => DeadFamily(f)']_vars
  BY DeadStep
<1> QED
  BY Invariance, <1>1, PTL DEF Spec, DeadSessionStaysDead

=============================================================================
