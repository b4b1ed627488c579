------------------------- MODULE RefreshTokenStore -------------------------
(***************************************************************************)
(* The refresh_tokens table (db/schema.ts) and its Redis mirror of         *)
(* revocations (token.service.ts), with the single-statement operations    *)
(* refreshToken.service.ts performs on them.  Every operator below is one  *)
(* SQL statement or one Redis command, so it is atomic; the handlers that  *)
(* string them together, one await at a time, are in AuthSessions.         *)
(*                                                                         *)
(* A row is named by the order of its INSERT, which is also the order of   *)
(* its issued_at; a session_family UUID is named by its first row.         *)
(***************************************************************************)
EXTENDS Naturals, FiniteSets

CONSTANTS
    MaxTokens,  \* bound: rows ever inserted in one behaviour
    Users,      \* the accounts rows belong to
    Mortal,     \* bound: the rows whose expires_at may pass
    None        \* no row, no user, no key

Token == 1..MaxTokens

ASSUME StoreAssumption ==
    /\ MaxTokens \in Nat \ {0}
    /\ Mortal \subseteq Token
    /\ None \notin Token
    /\ None \notin Users

VARIABLES
    issued,         \* how many rows have been inserted
    reason,         \* revoked_at and revocation_reason of each row
    userId,         \* user_id
    sessionFamily,  \* session_family
    parent,         \* history: the row that was rotated into this one
    expired,        \* rows whose expires_at has passed
    mirror          \* rows with a live key revoked:refresh:<token_hash>

storeVars == <<issued, reason, userId, sessionFamily, parent, expired, mirror>>

\* 'absent' is a row that is not (or no longer) in the table, 'active' one
\* whose revoked_at IS NULL; the others are the reasons the code writes.
Revoked == {"rotation", "reuse_detected", "logout"}
Reason  == {"absent", "active"} \cup Revoked

StoreTypeOK ==
    /\ issued \in 0..MaxTokens
    /\ reason \in [Token -> Reason]
    /\ userId \in [Token -> Users \cup {None}]
    /\ sessionFamily \in [Token -> Token \cup {None}]
    /\ parent \in [Token -> Token \cup {None}]
    /\ expired \subseteq Token
    /\ mirror \subseteq Token

StoreInit ==
    /\ issued = 0
    /\ reason = [t \in Token |-> "absent"]
    /\ userId = [t \in Token |-> None]
    /\ sessionFamily = [t \in Token |-> None]
    /\ parent = [t \in Token |-> None]
    /\ expired = {}
    /\ mirror = {}

-----------------------------------------------------------------------------
(* Reads: the WHERE clauses.                                               *)

Active == {t \in Token : reason[t] = "active"}

\* A defect: only rotated rows count as revoked.
IsRevoked_RotationOnly(t) == reason[t] = "rotation"

IsRevoked(t) == reason[t] \in Revoked

ActiveInFamily(f) == {t \in Active : sessionFamily[t] = f}

ActiveOfUser(u) == {t \in Active : userId[t] = u}

MostRecent(S) == {t \in S : \A s \in S : s <= t}

-----------------------------------------------------------------------------
(* Writes.                                                                 *)

New == issued + 1

\* INSERT.  The column session_family defaults to a fresh UUID.
InsertRow(u, f, p) ==
    /\ New \in Token
    /\ issued' = New
    /\ reason' = [reason EXCEPT ![New] = "active"]
    /\ userId' = [userId EXCEPT ![New] = u]
    /\ sessionFamily' = [sessionFamily EXCEPT ![New] = IF f = None THEN New ELSE f]
    /\ parent' = [parent EXCEPT ![New] = p]
    /\ UNCHANGED <<expired, mirror>>

\* UPDATE ... SET revoked_at, revocation_reason.  No row of S that is still
\* in the table is spared: an update by id has no "revoked_at IS NULL".
MarkRevoked(S, why) ==
    /\ reason' = [t \in Token |->
                    IF t \in S /\ reason[t] # "absent" THEN why ELSE reason[t]]
    /\ UNCHANGED <<issued, userId, sessionFamily, parent, expired, mirror>>

\* cacheRefreshTokenRevocation: a row that has expired gets no key.
CacheRevocation(t) ==
    /\ mirror' = mirror \cup ({t} \ expired)
    /\ UNCHANGED <<issued, reason, userId, sessionFamily, parent, expired>>

-----------------------------------------------------------------------------
(* What happens to rows and keys without a request.                        *)

\* expires_at passes.
Expire(t) ==
    /\ t \in Mortal
    /\ t <= issued
    /\ t \notin expired
    /\ expired' = expired \cup {t}
    /\ UNCHANGED <<issued, reason, userId, sessionFamily, parent, mirror>>

\* The key's EX runs out: ttlSecondsUntil rounds up, so never before expiry.
MirrorLapse(t) ==
    /\ t \in mirror \cap expired
    /\ mirror' = mirror \ {t}
    /\ UNCHANGED <<issued, reason, userId, sessionFamily, parent, expired>>

\* The users row is deleted and ON DELETE CASCADE takes the user's rows along.
CascadeDelete(u) ==
    /\ reason' = [t \in Token |-> IF userId[t] = u THEN "absent" ELSE reason[t]]
    /\ UNCHANGED <<issued, userId, sessionFamily, parent, expired, mirror>>

=============================================================================
