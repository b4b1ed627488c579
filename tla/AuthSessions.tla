---------------------------- MODULE AuthSessions ----------------------------
(***************************************************************************)
(* POST /login, /refresh and /logout (auth.router.ts) over the             *)
(* refresh_tokens table, the revocation keys and the idempotency slots.    *)
(*                                                                         *)
(* A slot is one request in flight; a gateway has many, and several        *)
(* gateways share the same Postgres and Redis, so nothing else orders      *)
(* them.  A request advances one await at a time: each action below is one *)
(* SQL statement or Redis command with the synchronous code up to the next *)
(* await.  No handler opens a transaction.  Audit writes change nothing    *)
(* here and swallow their own failure, so they belong to the neighbouring  *)
(* step.                                                                   *)
(***************************************************************************)
EXTENDS IdempotencyCache

CONSTANTS
    Slots,           \* requests that can be in flight together
    MaxSessions,     \* bound: logins in one behaviour
    WaitAttempts,    \* IDEMPOTENCY_CLAIM_WAIT_ATTEMPTS
    Offered,         \* bound: the kinds of request clients send
    MayFail,         \* bound: whether an await may reject, or its process die
    ClaimsMayLapse,  \* bound: whether a slot may lapse under its owner
    Deletable,       \* bound: the accounts an operator may delete
    Perishable       \* bound: the pairs whose access token's exp may pass

ASSUME SessionsAssumption ==
    /\ MaxSessions \in Nat
    /\ Offered \subseteq {"login", "refresh", "logout"}
    /\ WaitAttempts \in Nat \ {0}
    /\ MayFail \in BOOLEAN
    /\ ClaimsMayLapse \in BOOLEAN
    /\ Deletable \subseteq Users
    /\ Perishable \subseteq Token

VARIABLES
    req,         \* the local variables of the request in each slot
    delivered,   \* token pairs some client has received, by refresh token
    revokedJti,  \* pairs whose access token has a key revoked:jti:<jti>
    accessAge,   \* the access token of each pair, against its exp
    gone         \* accounts that have been deleted

jtiVars == <<revokedJti, accessAge>>

vars == <<storeVars, idem, req, delivered, jtiVars, gone>>

\* 'tolerated' is past exp, but not by more than the clockTolerance.
Age == {"valid", "tolerated", "expired"}

Rotating == {"rotUpdate", "rotMirror", "insert"}

PC == {"idle", "claim", "poll", "select", "famSelect", "famUpdate",
       "famMirror", "reuse", "refuse", "findUser", "complete", "respond",
       "outJti", "outSelect", "outUpdate", "outMirror"} \cup Rotating

Request ==
    [pc     : PC,
     op     : {"none", "login", "refresh", "logout"},
     user   : Users \cup {None},   \* whose row is inserted; req.auth.sub
     token  : Token \cup {None},   \* the refresh_token of the body
     jti    : Token \cup {None},   \* the pair whose access token was sent
     key    : Keys \cup {None},    \* idempotency_key
     owns   : BOOLEAN,             \* ownsIdempotencyClaim
     tries  : 0..(WaitAttempts - 1),  \* attempt
     row    : Token \cup {None},   \* the row the last SELECT returned
     todo   : SUBSET Token,        \* rows whose mirror key is still to be set
     child  : Token \cup {None},   \* the pair of the answer
     late   : BOOLEAN,             \* history: token unusable on arrival
     expect : Token \cup {None},   \* history: answer on record on arrival
     mark   : 0..MaxTokens]        \* history: rows when the family was revoked

Idle ==
    [pc |-> "idle", op |-> "none", user |-> None, token |-> None,
     jti |-> None, key |-> None, owns |-> FALSE, tries |-> 0, row |-> None,
     todo |-> {}, child |-> None, late |-> FALSE, expect |-> None, mark |-> 0]

TypeOK ==
    /\ StoreTypeOK
    /\ CacheTypeOK
    /\ req \in [Slots -> Request]
    /\ delivered \subseteq Token
    /\ revokedJti \subseteq Token
    /\ accessAge \in [Token -> Age]
    /\ gone \subseteq Users

Init ==
    /\ StoreInit
    /\ CacheInit
    /\ req = [r \in Slots |-> Idle]
    /\ delivered = {}
    /\ revokedJti = {}
    /\ accessAge = [t \in Token |-> "valid"]
    /\ gone = {}

At(r, pc) == req[r].pc = pc

\* The local variables of request r become x.
Become(r, x) == req' = [req EXCEPT ![r] = x]

Goto(r, pc) == Become(r, [req[r] EXCEPT !.pc = pc])

End(r) == Become(r, Idle)

\* The family a refresh request is about.
Family(r) == sessionFamily[req[r].token]

\* Bound: every request that may still insert has a row in reserve, so that
\* MaxTokens never stops one half way.
MayInsert(r) ==
    /\ req[r].op \in {"login", "refresh"}
    /\ req[r].pc \in {"claim", "poll", "select"} \cup Rotating
    /\ ~req[r].late

HasRoom == issued + Cardinality({r \in Slots : MayInsert(r)}) < MaxTokens

\* Bound: rows that open a family, and the logins about to insert one.
MayLogIn ==
    /\ HasRoom
    /\ Cardinality({t \in 1..issued : parent[t] = None})
         + Cardinality({r \in Slots : At(r, "insert") /\ req[r].op = "login"})
       < MaxSessions

-----------------------------------------------------------------------------
(* POST /login.  Reading the user and checking the password change         *)
(* nothing; a login that passes goes on to issueRefreshToken.              *)

StartLogin(r, u) ==
    /\ At(r, "idle")
    /\ u \notin gone
    /\ MayLogIn
    /\ Become(r, [Idle EXCEPT !.pc = "insert", !.op = "login", !.user = u])
    /\ UNCHANGED <<storeVars, idem, delivered, jtiVars, gone>>

-----------------------------------------------------------------------------
(* POST /refresh: the idempotency slot.                                    *)

OnRecord(k, t) == IF k # None /\ Answers(k, t) THEN idem[k].child ELSE None

\* A client presents any refresh token it has ever received, with or without
\* an idempotency key.
StartRefresh(r, t, k) ==
    /\ At(r, "idle")
    /\ reason[t] = "active" => HasRoom
    /\ Become(r, [Idle EXCEPT !.pc = IF k = None THEN "select" ELSE "claim",
                              !.op = "refresh", !.token = t, !.key = k,
                              !.late = reason[t] # "active",
                              !.expect = OnRecord(k, t)])
    /\ UNCHANGED <<storeVars, idem, delivered, jtiVars, gone>>

ClaimWon(r) ==
    /\ At(r, "claim")
    /\ CanClaim(req[r].key)
    /\ TakeClaim(req[r].key)
    /\ Become(r, [req[r] EXCEPT !.pc = "select", !.owns = TRUE])
    /\ UNCHANGED <<storeVars, delivered, jtiVars, gone>>

ClaimLost(r) ==
    /\ At(r, "claim")
    /\ ~CanClaim(req[r].key)
    /\ Goto(r, "poll")
    /\ UNCHANGED <<storeVars, idem, delivered, jtiVars, gone>>

\* The connection drops between SET NX and its reply: the Redis client sends
\* the command again and the request is refused by its own claim.
ClaimReplyLost(r) ==
    /\ MayFail
    /\ At(r, "claim")
    /\ CanClaim(req[r].key)
    /\ TakeClaim(req[r].key)
    /\ Goto(r, "poll")
    /\ UNCHANGED <<storeVars, delivered, jtiVars, gone>>

\* The winner has finished for the same refresh_token: its pair is the answer.
PollHit(r) ==
    /\ At(r, "poll")
    /\ Answers(req[r].key, req[r].token)
    /\ Become(r, [req[r] EXCEPT !.pc = "respond",
                                !.tries = 0,
                                !.child = idem[req[r].key].child])
    /\ UNCHANGED <<storeVars, idem, delivered, jtiVars, gone>>

\* A defect: the loop runs one attempt too many.
LastTry_OffByOne(r) == req[r].tries = WaitAttempts

LastTry(r) == req[r].tries = WaitAttempts - 1

\* A defect: the attempt is not counted.
PollAgain_NotCounted(r) ==
    /\ At(r, "poll")
    /\ idem[req[r].key].status = "pending"
    /\ ~LastTry(r)
    /\ UNCHANGED vars

PollAgain(r) ==
    /\ At(r, "poll")
    /\ idem[req[r].key].status = "pending"
    /\ ~LastTry(r)
    /\ Become(r, [req[r] EXCEPT !.tries = @ + 1])
    /\ UNCHANGED <<storeVars, idem, delivered, jtiVars, gone>>

\* An answer for another token, a free slot, or the last attempt: on to
\* rotation without owning the claim.
PollGiveUp(r) ==
    /\ At(r, "poll")
    /\ ~Answers(req[r].key, req[r].token)
    /\ idem[req[r].key].status = "pending" => LastTry(r)
    /\ Become(r, [req[r] EXCEPT !.pc = "select", !.tries = 0])
    /\ UNCHANGED <<storeVars, idem, delivered, jtiVars, gone>>

-----------------------------------------------------------------------------
(* rotateRefreshToken: one SELECT decides between replay, refusal and      *)
(* rotation; the statements after it do not look again.                    *)

SelectReplay(r) ==
    /\ At(r, "select")
    /\ IsRevoked(req[r].token)
    /\ Goto(r, "famSelect")
    /\ UNCHANGED <<storeVars, idem, delivered, jtiVars, gone>>

Usable(t) == reason[t] # "absent" /\ t \notin expired

SelectRefused(r) ==
    /\ At(r, "select")
    /\ ~IsRevoked(req[r].token)
    /\ ~Usable(req[r].token)
    /\ Goto(r, "refuse")
    /\ UNCHANGED <<storeVars, idem, delivered, jtiVars, gone>>

SelectUsable(r) ==
    /\ At(r, "select")
    /\ ~IsRevoked(req[r].token)
    /\ Usable(req[r].token)
    /\ Become(r, [req[r] EXCEPT !.pc = "rotUpdate",
                                !.row = req[r].token,
                                !.user = userId[req[r].token]])
    /\ UNCHANGED <<storeVars, idem, delivered, jtiVars, gone>>

\* A defect: the consumed row is mirrored but not updated.
RotateUpdate_Forgotten(r) ==
    /\ At(r, "rotUpdate")
    /\ Become(r, [req[r] EXCEPT !.pc = "rotMirror", !.todo = {req[r].row}])
    /\ UNCHANGED <<storeVars, idem, delivered, jtiVars, gone>>

RotateUpdate(r) ==
    /\ At(r, "rotUpdate")
    /\ MarkRevoked({req[r].row}, "rotation")
    /\ Become(r, [req[r] EXCEPT !.pc = "rotMirror", !.todo = {req[r].row}])
    /\ UNCHANGED <<idem, delivered, jtiVars, gone>>

\* One SET of the revocation mirror; with the last one the handler goes on.
MirrorOne(r, here, next) ==
    /\ At(r, here)
    /\ \E t \in req[r].todo :
          /\ CacheRevocation(t)
          /\ Become(r, [req[r] EXCEPT !.todo = @ \ {t},
                                      !.pc = IF req[r].todo = {t} THEN next ELSE here])
    /\ UNCHANGED <<idem, delivered, jtiVars, gone>>

RotateMirror(r) == MirrorOne(r, "rotMirror", "insert")

-----------------------------------------------------------------------------
(* revokeSessionFamily: the rows to mirror are those of the SELECT, the    *)
(* rows revoked are those the UPDATE finds.                                *)

\* A defect: the mirror is written before the table.
FamilySelect_CacheFirst(r) ==
    /\ At(r, "famSelect")
    /\ Become(r, [req[r] EXCEPT !.pc = IF ActiveInFamily(Family(r)) = {}
                                          THEN "reuse" ELSE "famMirror",
                                !.todo = ActiveInFamily(Family(r)),
                                !.mark = issued])
    /\ UNCHANGED <<storeVars, idem, delivered, jtiVars, gone>>

FamilySelect(r) ==
    /\ At(r, "famSelect")
    /\ Become(r, [req[r] EXCEPT !.pc = IF ActiveInFamily(Family(r)) = {}
                                          THEN "reuse" ELSE "famUpdate",
                                !.todo = ActiveInFamily(Family(r)),
                                !.mark = issued])
    /\ UNCHANGED <<storeVars, idem, delivered, jtiVars, gone>>

\* A defect: only the rows of the SELECT are revoked.
FamilyUpdate_SelectedOnly(r) ==
    /\ At(r, "famUpdate")
    /\ MarkRevoked(req[r].todo, "reuse_detected")
    /\ Become(r, [req[r] EXCEPT !.pc = "famMirror", !.mark = issued])
    /\ UNCHANGED <<idem, delivered, jtiVars, gone>>

FamilyUpdate(r) ==
    /\ At(r, "famUpdate")
    /\ MarkRevoked(ActiveInFamily(Family(r)), "reuse_detected")
    /\ Become(r, [req[r] EXCEPT !.pc = "famMirror", !.mark = issued])
    /\ UNCHANGED <<idem, delivered, jtiVars, gone>>

FamilyMirror(r) == MirrorOne(r, "famMirror", "reuse")

\* A defect: any failed request deletes the slot.
Reject_AlwaysReleases(r) ==
    /\ req[r].pc \in {"reuse", "refuse"}
    /\ IF req[r].key # None THEN ReleaseClaim(req[r].key) ELSE UNCHANGED idem
    /\ End(r)
    /\ UNCHANGED <<storeVars, delivered, jtiVars, gone>>

\* The error answers: 401 token_reuse_detected and 401 for a bad token.
Reject(r) ==
    /\ req[r].pc \in {"reuse", "refuse"}
    /\ IF req[r].owns THEN ReleaseClaim(req[r].key) ELSE UNCHANGED idem
    /\ End(r)
    /\ UNCHANGED <<storeVars, delivered, jtiVars, gone>>

-----------------------------------------------------------------------------
(* issueRefreshToken and the rest of a login or a refresh.                 *)

\* A login opens a family; a refresh inserts into that of the row it read.
Insert(r) ==
    /\ At(r, "insert")
    /\ req[r].user \notin gone
    /\ InsertRow(req[r].user, IF req[r].op = "login" THEN None ELSE Family(r),
                 req[r].row)
    /\ Become(r, [req[r] EXCEPT !.child = New,
                                !.pc = IF req[r].op = "login"
                                          THEN "respond" ELSE "findUser"])
    /\ UNCHANGED <<idem, delivered, jtiVars, gone>>

\* The foreign key refuses the row of a deleted account: the await rejects,
\* the error handler answers 500 and nothing is cleaned up.
InsertRefused(r) ==
    /\ At(r, "insert")
    /\ req[r].user \in gone
    /\ End(r)
    /\ UNCHANGED <<storeVars, idem, delivered, jtiVars, gone>>

UserFound(r) ==
    /\ At(r, "findUser")
    /\ req[r].user \notin gone
    /\ Goto(r, IF req[r].owns THEN "complete" ELSE "respond")
    /\ UNCHANGED <<storeVars, idem, delivered, jtiVars, gone>>

\* 401 'User no longer exists': this return does not release the claim.
UserMissing(r) ==
    /\ At(r, "findUser")
    /\ req[r].user \in gone
    /\ End(r)
    /\ UNCHANGED <<storeVars, idem, delivered, jtiVars, gone>>

Complete(r) ==
    /\ At(r, "complete")
    /\ CompleteClaim(req[r].key, req[r].token, req[r].child)
    /\ Goto(r, "respond")
    /\ UNCHANGED <<storeVars, delivered, jtiVars, gone>>

\* The 200 or 204 reaches the client.
Respond(r) ==
    /\ At(r, "respond")
    /\ delivered' = delivered \cup ({req[r].child} \ {None})
    /\ End(r)
    /\ UNCHANGED <<storeVars, idem, jtiVars, gone>>

-----------------------------------------------------------------------------
(* POST /logout.                                                           *)

\* validateAccessToken let pair a's access token through, in the clockTolerance
\* after its exp too; the body names any refresh token a client holds, or none.
StartLogout(r, a, b) ==
    /\ At(r, "idle")
    /\ accessAge[a] # "expired"
    /\ a \notin revokedJti
    /\ Become(r, [Idle EXCEPT !.pc = "outJti", !.op = "logout", !.jti = a,
                              !.user = userId[a], !.token = b])
    /\ UNCHANGED <<storeVars, idem, delivered, jtiVars, gone>>

\* revokeToken: SET with EX, but nothing for a token past its exp.
LogoutJti(r) ==
    /\ At(r, "outJti")
    /\ revokedJti' = revokedJti \cup {t \in {req[r].jti} : accessAge[t] = "valid"}
    /\ Goto(r, "outSelect")
    /\ UNCHANGED <<storeVars, idem, delivered, accessAge, gone>>

\* A defect: the early return for a revoked row is inverted.
LogoutTarget_Inverted(r) ==
    IF req[r].token # None THEN {req[r].token} \ Active
                           ELSE MostRecent(ActiveOfUser(req[r].user))

\* revokeRefreshTokenByHash, or revokeMostRecentRefreshTokenForUser.
LogoutTarget(r) ==
    IF req[r].token # None THEN {req[r].token} \cap Active
                           ELSE MostRecent(ActiveOfUser(req[r].user))

LogoutSelect(r) ==
    /\ At(r, "outSelect")
    /\ \/ /\ LogoutTarget(r) = {}
          /\ Goto(r, "respond")
       \/ \E t \in LogoutTarget(r) :
             Become(r, [req[r] EXCEPT !.pc = "outUpdate", !.row = t])
    /\ UNCHANGED <<storeVars, idem, delivered, jtiVars, gone>>

LogoutUpdate(r) ==
    /\ At(r, "outUpdate")
    /\ MarkRevoked({req[r].row}, "logout")
    /\ Become(r, [req[r] EXCEPT !.pc = "outMirror", !.todo = {req[r].row}])
    /\ UNCHANGED <<idem, delivered, jtiVars, gone>>

LogoutMirror(r) == MirrorOne(r, "outMirror", "respond")

-----------------------------------------------------------------------------
(* The environment.                                                        *)

\* An awaited call rejects (Express answers 500 and the handler runs no
\* further), the process dies, or the answer is lost on its way: whatever was
\* written before the await stays.
Fail(r) ==
    /\ MayFail
    /\ ~At(r, "idle")
    /\ End(r)
    /\ UNCHANGED <<storeVars, idem, delivered, jtiVars, gone>>

RowExpires(t) ==
    /\ Expire(t)
    /\ UNCHANGED <<idem, req, delivered, jtiVars, gone>>

MirrorKeyLapses(t) ==
    /\ MirrorLapse(t)
    /\ UNCHANGED <<idem, req, delivered, jtiVars, gone>>

\* The clock passes an access token's exp, and then the tolerance.
AccessAges(t) ==
    /\ t \in Perishable
    /\ t <= issued
    /\ \/ accessAge[t] = "valid" /\ accessAge' = [accessAge EXCEPT ![t] = "tolerated"]
       \/ accessAge[t] = "tolerated" /\ accessAge' = [accessAge EXCEPT ![t] = "expired"]
    /\ UNCHANGED <<storeVars, idem, req, delivered, revokedJti, gone>>

\* The key's EX runs out, at exp and so before the tolerance is over.
JtiKeyLapses(t) ==
    /\ t \in revokedJti
    /\ accessAge[t] # "valid"
    /\ revokedJti' = revokedJti \ {t}
    /\ UNCHANGED <<storeVars, idem, req, delivered, accessAge, gone>>

\* The owner of the claim on k has not come to completing or releasing it.
OwnerAtWork(k) ==
    \E r \in Slots : req[r].owns /\ req[r].key = k /\ req[r].pc # "respond"

\* With the slot the answer on record goes: nobody is owed it any more.
ClaimLapses(k) ==
    /\ OwnerAtWork(k) => ClaimsMayLapse
    /\ SlotLapses(k)
    /\ req' = [r \in Slots |-> IF req[r].key = k
                                 THEN [req[r] EXCEPT !.expect = None]
                                 ELSE req[r]]
    /\ UNCHANGED <<storeVars, delivered, jtiVars, gone>>

DeleteUser(u) ==
    /\ u \in Deletable \ gone
    /\ gone' = gone \cup {u}
    /\ CascadeDelete(u)
    /\ UNCHANGED <<idem, req, delivered, jtiVars>>

-----------------------------------------------------------------------------

Start(r) ==
    \/ /\ "login" \in Offered
       /\ \E u \in Users : StartLogin(r, u)
    \/ /\ "refresh" \in Offered
       /\ \E t \in delivered, k \in Keys \cup {None} : StartRefresh(r, t, k)
    \/ /\ "logout" \in Offered
       /\ \E a \in delivered, b \in delivered \cup {None} : StartLogout(r, a, b)

RefreshStep(r) ==
    \/ ClaimWon(r) \/ ClaimLost(r)
    \/ PollHit(r) \/ PollAgain(r) \/ PollGiveUp(r)
    \/ SelectReplay(r) \/ SelectRefused(r) \/ SelectUsable(r)
    \/ RotateUpdate(r) \/ RotateMirror(r)
    \/ FamilySelect(r) \/ FamilyUpdate(r) \/ FamilyMirror(r) \/ Reject(r)
    \/ UserFound(r) \/ UserMissing(r) \/ Complete(r)

LogoutStep(r) ==
    \/ LogoutJti(r) \/ LogoutSelect(r) \/ LogoutUpdate(r) \/ LogoutMirror(r)

\* What a request does once it has been accepted.
Step(r) ==
    \/ RefreshStep(r)
    \/ LogoutStep(r)
    \/ Insert(r) \/ InsertRefused(r) \/ Respond(r)

Environment ==
    \/ \E r \in Slots : ClaimReplyLost(r) \/ Fail(r)
    \/ \E t \in Token : RowExpires(t) \/ MirrorKeyLapses(t)
    \/ \E t \in Token : AccessAges(t) \/ JtiKeyLapses(t)
    \/ \E k \in Keys : ClaimLapses(k)
    \/ \E u \in Users : DeleteUser(u)

Next ==
    \/ \E r \in Slots : Start(r) \/ Step(r)
    \/ Environment

Spec == Init /\ [][Next]_vars

\* Node's event loop resumes every handler whose awaited call has returned.
\* Nothing makes a client send another request, and nothing has to fail.
FairSpec == Spec /\ \A r \in Slots : WF_vars(Step(r))

-----------------------------------------------------------------------------
(* Safety, for any number of overlapping requests and any failures.        *)

\* A refresh token with a successor is never active again: rotation revokes
\* the consumed row before it inserts the next, whatever else is running, so
\* along one chain of rotations at most one token can be used.
ConsumedNeverActive ==
    \A t \in Token : parent[t] # None => parent[t] \notin Active

\* The mirror never calls a usable token revoked: every handler writes the
\* table first.
MirrorSound == mirror \cap Active = {}

\* The pair a refresh answers with, whether just issued or taken from an
\* idempotency slot, was rotated out of the very token that was presented.
AnswerDescendsFromToken ==
    \A r \in Slots :
        req[r].op = "refresh" /\ req[r].child # None
            => parent[req[r].child] = req[r].token

\* A token that was already revoked when the request arrived is not rotated:
\* replay detection may lose a race, but never to a request that came later.
ReplayNeverRotates ==
    \A r \in Slots : req[r].late => req[r].pc \notin Rotating

\* A session without a usable token and without a rotation in progress.
DeadFamily(f) ==
    /\ f \in Token
    /\ f <= issued
    /\ ActiveInFamily(f) = {}
    /\ \A r \in Slots : req[r].op = "refresh" /\ req[r].pc \in Rotating
                            => Family(r) # f

\* No sequence of requests brings a session back once it is dead.
DeadSessionStaysDead == [][\A f \in Token : DeadFamily(f) => DeadFamily(f)']_vars

\* When a replay is answered, every token of the family that existed at the
\* UPDATE is revoked, also one inserted after revokeSessionFamily's SELECT.
ReplayRevokesExisting ==
    \A r \in Slots :
        req[r].pc \in {"famMirror", "reuse"}
            => \A t \in ActiveInFamily(Family(r)) : t > req[r].mark

\* What a 204 promises, whatever overlapped or failed: the access token is on
\* the revocation list or its exp has passed, the refresh token named by the
\* request, or chosen for it, is revoked, and the row it revoked is mirrored
\* for as long as it could have been used.
LogoutEffective ==
    \A r \in Slots :
        req[r].op = "logout" /\ req[r].pc = "respond"
            => /\ req[r].jti \in revokedJti \/ accessAge[req[r].jti] # "valid"
               /\ {req[r].token, req[r].row} \cap Active = {}
               /\ {req[r].row} \ {None} \subseteq mirror \cup expired

-----------------------------------------------------------------------------
(* Safety while no owner of a claim takes longer than its 30 s.            *)

\* An idempotency key has at most one owner, and its slot is still the
\* owner's: neither free for the taking nor filled by somebody else.
ClaimOwnerUnique ==
    \A r \in Slots :
        req[r].owns /\ req[r].pc # "respond"
            => /\ idem[req[r].key] = Pending
               /\ \A q \in Slots \ {r} :
                     req[q].owns /\ req[q].key = req[r].key => req[q].pc = "respond"

\* A retry that arrives while the answer to its own key and token is on
\* record gets that answer, and touches no row on the way.
RetryGetsSamePair ==
    \A r \in Slots :
        req[r].expect # None
            => \/ req[r].pc \in {"claim", "poll"}
               \/ req[r].pc = "respond" /\ req[r].child = req[r].expect

-----------------------------------------------------------------------------
(* What the specification promises and overlapping requests break.         *)

\* A refresh token is exchanged at most once: presented again, it is answered
\* with 401 (AC-8).
SingleUse ==
    \A t, u \in Token : parent[t] # None /\ parent[t] = parent[u] => t = u

\* A request about to be answered 401 token_reuse_detected leaves no usable
\* token in the family: everybody has to log in again (AC-8).
EntireFamilyRevoked ==
    \A r \in Slots : At(r, "reuse") => ActiveInFamily(Family(r)) = {}

-----------------------------------------------------------------------------
(* The sessions implement SessionLineage.                                  *)

LineageStatus ==
    [t \in Token |-> IF t > issued THEN "unborn"
                     ELSE IF reason[t] = "active" THEN "usable" ELSE "spent"]

\* A request has its grant from the SELECT that finds the row active until
\* its INSERT.
LineageGrant ==
    [r \in Slots |-> IF req[r].op = "refresh" /\ req[r].pc \in Rotating
                       THEN req[r].token ELSE None]

Lineage == INSTANCE SessionLineage
           WITH Requests <- Slots, status <- LineageStatus, grant <- LineageGrant,
                session <- sessionFamily, origin <- parent

\* Whatever the handlers' statements interleave to is a history of sessions
\* that the abstract specification allows.
ImplementsLineage == Lineage!LineageSpec

-----------------------------------------------------------------------------
(* Liveness.                                                               *)

\* Every request is answered: the wait for another request's claim is
\* bounded, also when its owner never comes back.
RequestsTerminate ==
    \A r \in Slots : (req[r].pc # "idle") ~> (req[r].pc = "idle")

=============================================================================
