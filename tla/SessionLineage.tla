--------------------------- MODULE SessionLineage ---------------------------
(***************************************************************************)
(* What the gateway promises about refresh tokens, without its statements: *)
(* sessions are chains of tokens, a token once spent stays spent, and a    *)
(* session grows only by an exchange that was granted while the presented  *)
(* token could be used.                                                    *)
(*                                                                         *)
(* Two requests may be granted the same token: rotateRefreshToken decides  *)
(* on a SELECT and does not look again.  What it promises is that a grant  *)
(* is never given for a spent token and never used twice.                  *)
(***************************************************************************)
CONSTANTS
    Token,     \* refresh tokens
    Requests,  \* those who may be granted an exchange
    None       \* no token

VARIABLES
    status,   \* 'unborn', 'usable' or 'spent'
    session,  \* the token that opened the token's session
    origin,   \* the token it was exchanged for
    grant     \* the token whose exchange each request has been granted

lineageVars == <<status, session, origin, grant>>

LineageInit ==
    /\ status = [t \in Token |-> "unborn"]
    /\ session = [t \in Token |-> None]
    /\ origin = [t \in Token |-> None]
    /\ grant = [r \in Requests |-> None]

\* A token comes into being, usable, in session s.
Born(t, s, o) ==
    /\ status[t] = "unborn"
    /\ status' = [status EXCEPT ![t] = "usable"]
    /\ session' = [session EXCEPT ![t] = s]
    /\ origin' = [origin EXCEPT ![t] = o]

\* A login.
Open(t) == Born(t, t, None) /\ UNCHANGED grant

\* A presented token is found usable.
Grant(r, t) ==
    /\ grant[r] = None
    /\ status[t] = "usable"
    /\ grant' = [grant EXCEPT ![r] = t]
    /\ UNCHANGED <<status, session, origin>>

\* The successor is issued: the token it replaces is spent by now.
Exchange(r, t) ==
    /\ grant[r] # None
    /\ status[grant[r]] = "spent"
    /\ Born(t, session[grant[r]], grant[r])
    /\ grant' = [grant EXCEPT ![r] = None]

\* A rotation, a replay, a logout or a deleted account spends tokens.
Spend(S) ==
    /\ \A t \in S : status[t] # "unborn"
    /\ status' = [t \in Token |-> IF t \in S THEN "spent" ELSE status[t]]
    /\ UNCHANGED <<session, origin, grant>>

\* A request ends without having used its grant.
GiveUp(r) ==
    /\ grant' = [grant EXCEPT ![r] = None]
    /\ UNCHANGED <<status, session, origin>>

LineageNext ==
    \/ \E t \in Token : Open(t)
    \/ \E r \in Requests : \/ GiveUp(r)
                           \/ \E t \in Token : Grant(r, t) \/ Exchange(r, t)
    \/ \E S \in SUBSET Token : Spend(S)

LineageSpec == LineageInit /\ [][LineageNext]_lineageVars
=============================================================================
