-------------------------- MODULE IdempotencyCache --------------------------
(***************************************************************************)
(* The Redis slots idempotency:refresh:<idempotency_key> of                *)
(* token.service.ts: free, claimed by SET NX, or holding the answer of a   *)
(* finished refresh.  One operator per Redis command.                      *)
(***************************************************************************)
EXTENDS RefreshTokenStore

CONSTANT
    Keys   \* the idempotency keys clients make up

ASSUME CacheAssumption == None \notin Keys

VARIABLE idem

\* A finished slot holds the hash of the token that was presented and the
\* pair that was issued, named by its refresh token.
Entry == [status : {"free", "pending", "done"},
          asked  : Token \cup {None},
          child  : Token \cup {None}]

Free    == [status |-> "free", asked |-> None, child |-> None]
Pending == [status |-> "pending", asked |-> None, child |-> None]
Done(t, c) == [status |-> "done", asked |-> t, child |-> c]

CacheTypeOK == idem \in [Keys -> Entry]

CacheInit == idem = [k \in Keys |-> Free]

\* A defect: SET without NX always succeeds.
CanClaim_WithoutNX(k) == k \in Keys

\* SET ... EX 30 NX answers 'OK' exactly when the slot was free.
CanClaim(k) == idem[k].status = "free"

TakeClaim(k) == idem' = [idem EXCEPT ![k] = Pending]

\* completeIdempotentRefresh: SET without a condition, whoever holds the slot.
CompleteClaim(k, t, c) == idem' = [idem EXCEPT ![k] = Done(t, c)]

\* releaseIdempotencyKey: DEL without a condition, whoever holds the slot.
ReleaseClaim(k) == idem' = [idem EXCEPT ![k] = Free]

\* A defect: any finished slot answers, whichever token it was for.
Answers_AnyToken(k, t) == idem[k].status = "done" /\ t \in Token

\* waitForIdempotentResult: the slot holds the answer for this very token.
Answers(k, t) == idem[k].status = "done" /\ idem[k].asked = t

\* EX 30 runs out: the key is gone, whatever it held.
SlotLapses(k) ==
    /\ idem[k].status # "free"
    /\ idem' = [idem EXCEPT ![k] = Free]

=============================================================================
