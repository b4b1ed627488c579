---------------------------- MODULE SigningKeys ----------------------------
(***************************************************************************)
(* The signing keys of a fleet of gateway processes: loadSigningKeys       *)
(* (crypto.ts), the cached JWKS document that verifications and            *)
(* GET /.well-known/jwks.json share (token.service.ts), and a key rotation *)
(* rolled out by restarting one process after the other.                   *)
(*                                                                         *)
(* A process knows nothing but its own environment: its caches are filled  *)
(* by the first request that needs them and live as long as the process.   *)
(* cachedVerifyKeySet adds nothing to cachedJwksDocument, from which it is *)
(* made and with which it is rejected, and has no variable of its own.     *)
(*                                                                         *)
(* The rollout is the operator's, in the three deploys of the runbook      *)
(* jwt-key-rotation.md: publish the new key as the previous one, swap the  *)
(* two, drop the old one.                                                  *)
(***************************************************************************)
EXTENDS Naturals

CONSTANTS
    Procs,         \* replicas of the gateway
    Slots,         \* requests that can be in flight together
    MaxDeploys,    \* bound: deploys in one behaviour, three to a rotation
    ReadsMayFail,  \* bound: whether reading a key file may throw
    NoProc         \* no process

ASSUME SigningAssumption ==
    /\ MaxDeploys \in Nat
    /\ ReadsMayFail \in BOOLEAN
    /\ NoProc \notin Procs

\* Keys are numbered in the order they are introduced; 0 stands for no key.
Kid == 1..(1 + (MaxDeploys + 2) \div 3)

VARIABLES
    target,              \* the deploy being rolled out
    env,                 \* the deploy each process was started with
    cachedKeys,          \* per process: cachedKeys of crypto.ts
    cachedJwksDocument,  \* per process: the promise and what it resolves to
    req,                 \* the request in each slot
    live,                \* keys under which an unexpired access token is signed
    held,                \* the document that some client keeps, if it has one
    refused              \* history: keys whose unexpired tokens were refused

rolloutVars == <<target, env>>
keyCaches == <<cachedKeys, cachedJwksDocument>>
clientVars == <<live, held, refused>>
signingVars == <<rolloutVars, keyCaches, req, clientVars>>

Keys == [kid : Kid \cup {0}, previousKid : Kid \cup {0}]

Undefined == [kid |-> 0, previousKid |-> 0]

Promise == [state : {"none", "reading", "building", "ready", "rejected"},
            kids  : SUBSET Kid]

Unset == [state |-> "none", kids |-> {}]

Rejected == [state |-> "rejected", kids |-> {}]

Handler == [pc : {"idle", "load", "sign", "verify", "jwks"},
            proc : Procs \cup {NoProc},
            kid : Kid \cup {0}]  \* the key it signs with, or its token's key

NoRequest == [pc |-> "idle", proc |-> NoProc, kid |-> 0]

SigningTypeOK ==
    /\ target \in 0..MaxDeploys
    /\ env \in [Procs -> 0..MaxDeploys]
    /\ cachedKeys \in [Procs -> Keys]
    /\ cachedJwksDocument \in [Procs -> Promise]
    /\ req \in [Slots -> Handler]
    /\ live \subseteq Kid
    /\ held \subseteq SUBSET Kid
    /\ refused \subseteq Kid

SigningInit ==
    /\ target = 0
    /\ env = [p \in Procs |-> 0]
    /\ cachedKeys = [p \in Procs |-> Undefined]
    /\ cachedJwksDocument = [p \in Procs |-> Unset]
    /\ req = [s \in Slots |-> NoRequest]
    /\ live = {}
    /\ held = {}
    /\ refused = {}

At(s, pc) == req[s].pc = pc

Become(s, x) == req' = [req EXCEPT ![s] = x]

End(s) == Become(s, NoRequest)

-----------------------------------------------------------------------------
(* loadSigningKeys.                                                        *)

\* JWT_KID and JWT_PREVIOUS_KID of deploy g.
Config(g) ==
    LET k == 1 + (g + 1) \div 3
    IN  [kid |-> k,
         previousKid |-> CASE g % 3 = 0 -> 0 [] g % 3 = 1 -> k + 1 [] OTHER -> k - 1]

Loaded(p) == cachedKeys[p] # Undefined

\* The key files are read and imported, and the result is cached.
LoadKeys(p) == cachedKeys' = [cachedKeys EXCEPT ![p] = Config(env[p])]

-----------------------------------------------------------------------------
(* signAccessToken.                                                        *)

StartSign(s, p) ==
    /\ At(s, "idle")
    /\ Become(s, IF Loaded(p)
                   THEN [pc |-> "sign", proc |-> p, kid |-> cachedKeys[p].kid]
                   ELSE [pc |-> "load", proc |-> p, kid |-> 0])
    /\ UNCHANGED <<rolloutVars, keyCaches, clientVars>>

KeysLoad(s) ==
    /\ At(s, "load")
    /\ LoadKeys(req[s].proc)
    /\ Become(s, [req[s] EXCEPT !.pc = "sign", !.kid = Config(env[req[s].proc]).kid])
    /\ UNCHANGED <<rolloutVars, cachedJwksDocument, clientVars>>

\* readFileSync or the import throws: nothing is cached, the next call reads again.
LoadFails(s) ==
    /\ ReadsMayFail
    /\ At(s, "load")
    /\ End(s)
    /\ UNCHANGED <<rolloutVars, keyCaches, clientVars>>

Sign(s) ==
    /\ At(s, "sign")
    /\ live' = live \cup {req[s].kid}
    /\ End(s)
    /\ UNCHANGED <<rolloutVars, keyCaches, held, refused>>

-----------------------------------------------------------------------------
(* getJwksDocument, for verifyAccessToken and for the JWKS endpoint.       *)

\* A defect: the previous kid is published with or without its key.
BuildJwksDocument_Unchecked(keys) == {keys.kid, keys.previousKid}

\* A defect: only the active key is published.
BuildJwksDocument_ActiveOnly(keys) == {keys.kid}

BuildJwksDocument(keys) == {keys.kid, keys.previousKid} \ {0}

SetDocument(p, d) == cachedJwksDocument' = [cachedJwksDocument EXCEPT ![p] = d]

\* cachedJwksDocument ??= loadSigningKeys().then(buildJwksDocument)
AskForDocument(p) ==
    SetDocument(p,
        IF cachedJwksDocument[p] # Unset THEN cachedJwksDocument[p]
        ELSE IF Loaded(p) THEN [Unset EXCEPT !.state = "building"]
                          ELSE [Unset EXCEPT !.state = "reading"])

\* An unexpired token, signed under k, reaches process p.
StartVerify(s, p, k) ==
    /\ At(s, "idle")
    /\ AskForDocument(p)
    /\ Become(s, [pc |-> "verify", proc |-> p, kid |-> k])
    /\ UNCHANGED <<rolloutVars, cachedKeys, clientVars>>

StartJwks(s, p) ==
    /\ At(s, "idle")
    /\ AskForDocument(p)
    /\ Become(s, [pc |-> "jwks", proc |-> p, kid |-> 0])
    /\ UNCHANGED <<rolloutVars, cachedKeys, clientVars>>

DocumentKeysLoad(p) ==
    /\ cachedJwksDocument[p].state = "reading"
    /\ LoadKeys(p)
    /\ SetDocument(p, [Unset EXCEPT !.state = "building"])
    /\ UNCHANGED <<rolloutVars, req, clientVars>>

\* The rejected promise stays in cachedJwksDocument.
DocumentFails(p) ==
    /\ ReadsMayFail
    /\ cachedJwksDocument[p].state = "reading"
    /\ SetDocument(p, Rejected)
    /\ UNCHANGED <<rolloutVars, cachedKeys, req, clientVars>>

DocumentBuilt(p) ==
    /\ cachedJwksDocument[p].state = "building"
    /\ SetDocument(p, [state |-> "ready", kids |-> BuildJwksDocument(cachedKeys[p])])
    /\ UNCHANGED <<rolloutVars, cachedKeys, req, clientVars>>

\* A defect: whoever awaits the document is not told that its load failed.
Settled_ReadyOnly(s, p) == req[s].proc = p /\ cachedJwksDocument[p].state = "ready"

\* The request awaits process p's promise, which has settled.
Settled(s, p) ==
    /\ req[s].proc = p
    /\ cachedJwksDocument[p].state \in {"ready", "rejected"}

\* A defect: the promise is awaited inside the try, and a rejection refuses.
Refuses_Rejected(d, k) == k \notin d.kids

\* jwtVerify finds no key and the token is answered with 401.  A rejected
\* promise is awaited outside the try: the request is answered with 500.
Refuses(d, k) == d.state = "ready" /\ k \notin d.kids

Verify(s, p) ==
    /\ At(s, "verify")
    /\ Settled(s, p)
    /\ refused' = {k \in live : k = req[s].kid /\ Refuses(cachedJwksDocument[p], k)}
                      \cup refused
    /\ End(s)
    /\ UNCHANGED <<rolloutVars, keyCaches, live, held>>

\* The document goes out with max-age=3600 and replaces the one the client kept; a
\* rejected one is a 500.
ServeJwks(s, p) ==
    /\ At(s, "jwks")
    /\ Settled(s, p)
    /\ held' = IF cachedJwksDocument[p] = Rejected THEN held
                                                  ELSE {cachedJwksDocument[p].kids}
    /\ End(s)
    /\ UNCHANGED <<rolloutVars, keyCaches, live, refused>>

-----------------------------------------------------------------------------
(* The rollout and the passage of time.                                    *)

\* Process p ends with all it is doing and starts again, as it was deployed
\* before or with the deploy being rolled out.
Restart(p, g) ==
    /\ env' = [env EXCEPT ![p] = g]
    /\ cachedKeys' = [cachedKeys EXCEPT ![p] = Undefined]
    /\ SetDocument(p, Unset)
    /\ req' = [s \in Slots |-> IF req[s].proc = p THEN NoRequest ELSE req[s]]
    /\ UNCHANGED <<target, clientVars>>

\* The last token signed under key k has expired.
MayRetire(k) == k \notin live

\* Every process runs the last deploy, and the wait before the third is over.
NextDeploy ==
    /\ target < MaxDeploys
    /\ \A p \in Procs : env[p] = target
    /\ target % 3 = 2 => MayRetire(Config(target).previousKid)
    /\ target' = target + 1
    /\ UNCHANGED <<env, keyCaches, req, clientVars>>

\* The runbook's rollback of the second deploy, at any moment of it.
Rollback ==
    /\ target % 3 = 2
    /\ target' = target - 1
    /\ UNCHANGED <<env, keyCaches, req, clientVars>>

TokensExpire(k) ==
    /\ live' = live \ {k}
    /\ UNCHANGED <<rolloutVars, keyCaches, req, held, refused>>

DocumentLapses(d) ==
    /\ held' = held \ {d}
    /\ UNCHANGED <<rolloutVars, keyCaches, req, live, refused>>

-----------------------------------------------------------------------------

Start(s) ==
    \E p \in Procs : \/ StartSign(s, p) \/ StartJwks(s, p)
                     \/ \E k \in live : StartVerify(s, p, k)

Step(s) ==
    \/ KeysLoad(s) \/ LoadFails(s) \/ Sign(s)
    \/ \E p \in Procs : Verify(s, p) \/ ServeJwks(s, p)

DocumentStep(p) == DocumentKeysLoad(p) \/ DocumentFails(p) \/ DocumentBuilt(p)

SigningNext ==
    \/ \E s \in Slots : Start(s) \/ Step(s)
    \/ \E p \in Procs : DocumentStep(p) \/ \E g \in {env[p], target} : Restart(p, g)
    \/ NextDeploy \/ Rollback
    \/ \E k \in live : TokensExpire(k)
    \/ \E d \in held : DocumentLapses(d)

SigningSpec == SigningInit /\ [][SigningNext]_signingVars

\* The event loop runs every continuation.
SigningFairSpec ==
    /\ SigningSpec
    /\ \A s \in Slots : WF_signingVars(Step(s))
    /\ \A p \in Procs : WF_signingVars(DocumentStep(p))

-----------------------------------------------------------------------------
(* Properties.                                                             *)

\* No process answers an unexpired token with 401 for its key: what one
\* process signed verifies at every other at every moment of a rotation, a
\* rollback or a restart, however late its document is built, and a process
\* that could not read its keys fails with 500 instead.
NoSpuriousRefusal == refused = {}

\* A document that a client keeps, for its max-age and longer, has every key of an
\* unexpired token but the ones newer than all of its own: what a process serves
\* never lacks a key that still verifies tokens ("old key remains in JWKS until
\* all tokens signed with it have naturally expired", FR-21).
OldKeysStayPublished ==
    \A d \in held, k \in live : (\E j \in d : k <= j) => k \in d

\* Every request is answered: nobody waits for a document that is never made.
RequestsAnswered == \A s \in Slots : ~At(s, "idle") ~> At(s, "idle")

=============================================================================
