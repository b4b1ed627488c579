------------------------- MODULE SigningKeys_proofs -------------------------
(***************************************************************************)
(* Proofs about SigningKeys, for any number of processes, requests and     *)
(* deploys.                                                                *)
(*                                                                         *)
(* SigningInv says how far the processes of a rollout can be apart and     *)
(* which keys can be in use meanwhile.  There are two phases: before the   *)
(* swap one key signs, and every process publishes it (Steady); during the *)
(* swap two keys sign, and every process publishes both (Swapping).  What  *)
(* a process has cached is always what its own deploy says, and what a     *)
(* client has kept is from this phase or from before it.                   *)
(***************************************************************************)
EXTENDS SigningKeys, TLAPS

USE SigningAssumption

-----------------------------------------------------------------------------
(* The inductive invariant.                                                *)

\* A kept document has no key from after rotation n, and has the old key of that
\* rotation unless all its keys are older.
HeldOK(n) ==
    \A d \in held : /\ \A j \in d : j <= n + 2
                    /\ n + 1 \notin d => \A j \in d : j <= n

\* Rotation n has published its new key at most: key n + 1 is the one in use.
Steady(n) ==
    /\ target \in {3 * n, 3 * n + 1}
    /\ \A p \in Procs : env[p] \in {target - 1, target}
    /\ live \subseteq {n + 1}
    /\ HeldOK(n)

\* Rotation n is swapping its keys, or back from it: both are in use.
Swapping(n) ==
    /\ target \in {3 * n + 1, 3 * n + 2}
    /\ \A p \in Procs : env[p] \in {3 * n + 1, 3 * n + 2}
    /\ live \subseteq {n + 1, n + 2}
    /\ HeldOK(n)

RolloutOK == \E n \in Nat : Steady(n) \/ Swapping(n)

CachesOK(p) ==
    /\ cachedKeys[p] \in {Undefined, Config(env[p])}
    /\ cachedJwksDocument[p].state = "building" => cachedKeys[p] = Config(env[p])
    /\ cachedJwksDocument[p].state = "ready"
         => cachedJwksDocument[p].kids = BuildJwksDocument(Config(env[p]))
    /\ cachedJwksDocument[p].state = "rejected" => cachedJwksDocument[p] = Rejected

HandlerOK(s) ==
    /\ ~At(s, "idle") => req[s].proc \in Procs
    /\ At(s, "sign") => req[s].kid = Config(env[req[s].proc]).kid

SigningInv ==
    /\ SigningTypeOK
    /\ RolloutOK
    /\ \A p \in Procs : CachesOK(p)
    /\ \A s \in Slots : HandlerOK(s)
    /\ refused = {}

-----------------------------------------------------------------------------
(* What the deploys of a rotation say.                                     *)

LEMMA ConfigOfRotation ==
    ASSUME NEW n \in Nat
    PROVE  /\ Config(3 * n) = [kid |-> n + 1, previousKid |-> 0]
           /\ Config(3 * n + 1) = [kid |-> n + 1, previousKid |-> n + 2]
           /\ Config(3 * n + 2) = [kid |-> n + 2, previousKid |-> n + 1]
<1>1. /\ (3 * n + 1) \div 3 = n
      /\ (3 * n + 1 + 1) \div 3 = n
      /\ (3 * n + 2 + 1) \div 3 = n + 1
  OBVIOUS
<1>2. (3 * n) % 3 = 0 /\ (3 * n + 1) % 3 = 1 /\ (3 * n + 2) % 3 = 2
  OBVIOUS
<1> QED
  BY <1>1, <1>2 DEF Config

\* The last deploy of the rotation before publishes the key in use as well.
LEMMA ConfigBefore ==
    ASSUME NEW n \in Nat \ {0}
    PROVE  Config(3 * n - 1) = [kid |-> n + 1, previousKid |-> n]
<1>1. n - 1 \in Nat /\ 3 * n - 1 = 3 * (n - 1) + 2
  OBVIOUS
<1>2. Config(3 * (n - 1) + 2) = [kid |-> (n - 1) + 2, previousKid |-> (n - 1) + 1]
  BY <1>1, ConfigOfRotation
<1> QED
  BY <1>1, <1>2

LEMMA KidsAreNumbers == Kid \subseteq Nat
<1>1. \A x \in Nat : 1..x \subseteq Nat
  OBVIOUS
<1>2. 1 + (MaxDeploys + 2) \div 3 \in Nat
  OBVIOUS
<1> QED
  BY <1>1, <1>2 DEF Kid

LEMMA ConfigType ==
    ASSUME NEW g \in 0..MaxDeploys
    PROVE  /\ Config(g) \in Keys
           /\ Config(g).kid \in Kid
           /\ Config(g) # Undefined
           /\ BuildJwksDocument(Config(g)) \subseteq Kid
<1>1. PICK n \in Nat : g = 3 * n \/ g = 3 * n + 1 \/ g = 3 * n + 2
  <2> DEFINE q == g \div 3
             m == g % 3
  <2>1. q \in Nat
    OBVIOUS
  <2>2. m \in 0..2
    OBVIOUS
  <2>3. g = 3 * q + m
    OBVIOUS
  <2> HIDE DEF q, m
  <2> QED
    BY <2>1, <2>2, <2>3
<1>2. n + 1 \in Kid
  BY <1>1 DEF Kid
<1>3. g # 3 * n => n + 2 \in Kid
  BY <1>1 DEF Kid
<1> DEFINE c == Config(g)
<1>4. c.kid \in Kid /\ c.previousKid \in Kid \cup {0}
      /\ c = [kid |-> c.kid, previousKid |-> c.previousKid]
  <2>1. /\ Config(3 * n) = [kid |-> n + 1, previousKid |-> 0]
        /\ Config(3 * n + 1) = [kid |-> n + 1, previousKid |-> n + 2]
        /\ Config(3 * n + 2) = [kid |-> n + 2, previousKid |-> n + 1]
    BY ConfigOfRotation
  <2>2. \/ c = [kid |-> n + 1, previousKid |-> 0]
        \/ g # 3 * n /\ c = [kid |-> n + 1, previousKid |-> n + 2]
        \/ g # 3 * n /\ c = [kid |-> n + 2, previousKid |-> n + 1]
    BY <1>1, <2>1
  <2> HIDE DEF c
  <2> QED
    BY <2>2, <1>2, <1>3
<1>5. 0 \notin Kid
  BY DEF Kid
<1> HIDE DEF c
<1>6. c \in Keys /\ c # Undefined /\ BuildJwksDocument(c) \subseteq Kid
  BY <1>4, <1>5 DEF Keys, Undefined, BuildJwksDocument
<1> QED
  BY <1>4, <1>6 DEF c

\* Whatever phase a rollout is in, a process signs with a key of that phase and
\* accepts and publishes all of them.
LEMMA SteadyKeys ==
    ASSUME SigningTypeOK, NEW n \in Nat, Steady(n), NEW p \in Procs
    PROVE  /\ Config(env[p]).kid = n + 1
           /\ n + 1 \in BuildJwksDocument(Config(env[p]))
           /\ \A j \in BuildJwksDocument(Config(env[p])) : j <= n + 2
<1>1. env[p] \in Nat
  BY DEF SigningTypeOK
<1>2. env[p] = 3 * n \/ env[p] = 3 * n + 1 \/ (n # 0 /\ env[p] = 3 * n - 1)
  BY <1>1 DEF Steady
<1> DEFINE c == Config(env[p])
<1>3. c.kid = n + 1 /\ c.previousKid \in {0, n, n + 2}
  <2>1. CASE env[p] = 3 * n
    <3>1. Config(3 * n) = [kid |-> n + 1, previousKid |-> 0]
      BY ConfigOfRotation
    <3> QED
      BY <2>1, <3>1
  <2>2. CASE env[p] = 3 * n + 1
    <3>1. Config(3 * n + 1) = [kid |-> n + 1, previousKid |-> n + 2]
      BY ConfigOfRotation
    <3> QED
      BY <2>2, <3>1
  <2>3. CASE n # 0 /\ env[p] = 3 * n - 1
    <3>1. Config(3 * n - 1) = [kid |-> n + 1, previousKid |-> n]
      BY <2>3, ConfigBefore
    <3> QED
      BY <2>3, <3>1
  <2> QED
    BY <1>2, <2>1, <2>2, <2>3
<1> HIDE DEF c
<1>4. n + 1 \in BuildJwksDocument(c) /\ \A j \in BuildJwksDocument(c) : j <= n + 2
  BY <1>3 DEF BuildJwksDocument
<1> QED
  BY <1>3, <1>4 DEF c

LEMMA SwappingKeys ==
    ASSUME SigningTypeOK, NEW n \in Nat, Swapping(n), NEW p \in Procs
    PROVE  /\ Config(env[p]).kid \in {n + 1, n + 2}
           /\ n + 1 \in BuildJwksDocument(Config(env[p]))
           /\ n + 2 \in BuildJwksDocument(Config(env[p]))
           /\ \A j \in BuildJwksDocument(Config(env[p])) : j <= n + 2
<1>1. env[p] = 3 * n + 1 \/ env[p] = 3 * n + 2
  BY DEF Swapping
<1> DEFINE c == Config(env[p])
<1>2. c.kid \in {n + 1, n + 2} /\ {c.kid, c.previousKid} = {n + 1, n + 2}
  <2>1. /\ Config(3 * n + 1) = [kid |-> n + 1, previousKid |-> n + 2]
        /\ Config(3 * n + 2) = [kid |-> n + 2, previousKid |-> n + 1]
    BY ConfigOfRotation
  <2>2. \/ c = [kid |-> n + 1, previousKid |-> n + 2]
        \/ c = [kid |-> n + 2, previousKid |-> n + 1]
    BY <1>1, <2>1
  <2> HIDE DEF c
  <2> QED
    BY <2>2
<1> HIDE DEF c
<1>3. /\ n + 1 \in BuildJwksDocument(c) /\ n + 2 \in BuildJwksDocument(c)
      /\ \A j \in BuildJwksDocument(c) : j <= n + 2
  BY <1>2 DEF BuildJwksDocument
<1> QED
  BY <1>2, <1>3 DEF c

\* So no process refuses a key in use, and what it publishes holds them all.
LEMMA LiveIsPublished ==
    ASSUME SigningTypeOK, RolloutOK, NEW p \in Procs
    PROVE  live \subseteq BuildJwksDocument(Config(env[p]))
<1>1. PICK n \in Nat : Steady(n) \/ Swapping(n)
  BY DEF RolloutOK
<1>2. CASE Steady(n)
  BY <1>2, SteadyKeys DEF Steady
<1>3. CASE Swapping(n)
  BY <1>3, SwappingKeys DEF Swapping
<1> QED
  BY <1>1, <1>2, <1>3

-----------------------------------------------------------------------------
(* Facts every step needs.                                                 *)

LEMMA NoRequestType == NoRequest \in Handler
BY DEF NoRequest, Handler

LEMMA BecomeLemma ==
    ASSUME SigningTypeOK, NEW s \in Slots, NEW x \in Handler, Become(s, x)
    PROVE  /\ req' \in [Slots -> Handler]
           /\ req'[s] = x
           /\ \A q \in Slots \ {s} : req'[q] = req[q]
BY DEF Become, SigningTypeOK

LEMMA SetDocumentLemma ==
    ASSUME SigningTypeOK, NEW p \in Procs, NEW d \in Promise, SetDocument(p, d)
    PROVE  /\ cachedJwksDocument' \in [Procs -> Promise]
           /\ cachedJwksDocument'[p] = d
           /\ \A q \in Procs \ {p} : cachedJwksDocument'[q] = cachedJwksDocument[q]
BY DEF SetDocument, SigningTypeOK

LEMMA LoadKeysLemma ==
    ASSUME SigningTypeOK, NEW p \in Procs, LoadKeys(p)
    PROVE  /\ cachedKeys' \in [Procs -> Keys]
           /\ cachedKeys'[p] = Config(env[p])
           /\ \A q \in Procs \ {p} : cachedKeys'[q] = cachedKeys[q]
<1>1. Config(env[p]) \in Keys
  BY ConfigType DEF SigningTypeOK
<1> QED
  BY <1>1 DEF LoadKeys, SigningTypeOK

\* The part of the invariant about a request that is not the one that moves.
LEMMA HandlerStable ==
    ASSUME NEW s \in Slots, HandlerOK(s), req'[s] = req[s], UNCHANGED env
    PROVE  HandlerOK(s)'
BY DEF HandlerOK, At

LEMMA RolloutStable ==
    ASSUME RolloutOK, UNCHANGED <<target, env, live, held>>
    PROVE  RolloutOK'
BY DEF RolloutOK, Steady, Swapping, HeldOK

LEMMA CachesStable ==
    ASSUME NEW p \in Procs, CachesOK(p), env'[p] = env[p],
           cachedKeys'[p] = cachedKeys[p],
           cachedJwksDocument'[p] = cachedJwksDocument[p]
    PROVE  CachesOK(p)'
BY DEF CachesOK

-----------------------------------------------------------------------------
(* signAccessToken.                                                        *)

LEMMA StartSignInv ==
    ASSUME SigningInv, NEW s \in Slots, NEW p \in Procs, StartSign(s, p)
    PROVE  SigningInv'
<1> DEFINE x == IF Loaded(p)
                  THEN [pc |-> "sign", proc |-> p, kid |-> cachedKeys[p].kid]
                  ELSE [pc |-> "load", proc |-> p, kid |-> 0]
<1>1. x \in Handler
  BY DEF SigningInv, SigningTypeOK, Handler, Keys
<1>2. Become(s, x) /\ UNCHANGED <<rolloutVars, keyCaches, clientVars>>
  BY DEF StartSign
<1>3. SigningTypeOK'
  BY <1>1, <1>2, BecomeLemma DEF SigningInv, SigningTypeOK, rolloutVars, keyCaches,
                                 clientVars
<1>4. HandlerOK(s)'
  <2>1. req'[s] = x /\ UNCHANGED env
    BY <1>1, <1>2, BecomeLemma DEF SigningInv, rolloutVars
  <2>2. Loaded(p) => cachedKeys[p] = Config(env[p])
    BY DEF SigningInv, CachesOK, Loaded
  <2> QED
    BY <2>1, <2>2 DEF HandlerOK, At
<1>5. \A q \in Slots : HandlerOK(q)'
  <2> TAKE q \in Slots
  <2>1. CASE q # s
    BY <2>1, <1>1, <1>2, BecomeLemma, HandlerStable DEF SigningInv, rolloutVars
  <2> QED
    BY <2>1, <1>4
<1>6. \A q \in Procs : CachesOK(q)'
  BY <1>2, CachesStable DEF SigningInv, rolloutVars, keyCaches
<1>7. RolloutOK' /\ refused' = {}
  BY <1>2, RolloutStable DEF SigningInv, rolloutVars, clientVars
<1> QED
  BY <1>3, <1>5, <1>6, <1>7 DEF SigningInv

LEMMA KeysLoadInv ==
    ASSUME SigningInv, NEW s \in Slots, KeysLoad(s)
    PROVE  SigningInv'
<1> DEFINE p == req[s].proc
           x == [req[s] EXCEPT !.pc = "sign", !.kid = Config(env[p]).kid]
<1>1. p \in Procs
  BY DEF SigningInv, HandlerOK, KeysLoad, At
<1>2. x \in Handler /\ x.pc = "sign" /\ x.proc = p /\ x.kid = Config(env[p]).kid
  <2>1. req[s] \in Handler /\ Config(env[p]).kid \in Kid
    BY <1>1, ConfigType DEF SigningInv, SigningTypeOK
  <2> QED
    BY <2>1 DEF Handler
<1>3. Become(s, x) /\ LoadKeys(p)
      /\ UNCHANGED <<rolloutVars, cachedJwksDocument, clientVars>>
  BY DEF KeysLoad
<1> HIDE DEF p, x
<1>4. SigningTypeOK'
  BY <1>1, <1>2, <1>3, BecomeLemma, LoadKeysLemma
     DEF SigningInv, SigningTypeOK, rolloutVars, clientVars
<1>5. \A q \in Slots : HandlerOK(q)'
  <2> TAKE q \in Slots
  <2>1. UNCHANGED env /\ req'[s] = x
    BY <1>2, <1>3, BecomeLemma DEF SigningInv, rolloutVars
  <2>2. CASE q = s
    BY <2>1, <2>2, <1>1, <1>2 DEF HandlerOK, At
  <2>3. CASE q # s
    BY <2>1, <2>3, <1>2, <1>3, BecomeLemma, HandlerStable DEF SigningInv
  <2> QED
    BY <2>2, <2>3
<1>6. \A q \in Procs : CachesOK(q)'
  <2> TAKE q \in Procs
  <2>1. CASE q = p
    BY <2>1, <1>1, <1>3, LoadKeysLemma DEF SigningInv, CachesOK, rolloutVars
  <2>2. CASE q # p
    BY <2>2, <1>1, <1>3, LoadKeysLemma, CachesStable DEF SigningInv, rolloutVars
  <2> QED
    BY <2>1, <2>2
<1>7. RolloutOK' /\ refused' = {}
  BY <1>3, RolloutStable DEF SigningInv, rolloutVars, clientVars
<1> QED
  BY <1>4, <1>5, <1>6, <1>7 DEF SigningInv

\* A request ends, and nothing else changes but what clients hold.
LEMMA EndLemma ==
    ASSUME SigningInv, NEW s \in Slots, End(s), UNCHANGED <<rolloutVars, keyCaches>>
    PROVE  /\ req' \in [Slots -> Handler]
           /\ \A q \in Slots : HandlerOK(q)'
           /\ \A q \in Procs : CachesOK(q)'
<1>1. /\ req' \in [Slots -> Handler]
      /\ req'[s] = NoRequest
      /\ \A q \in Slots \ {s} : req'[q] = req[q]
  BY NoRequestType, BecomeLemma DEF End, SigningInv
<1>2. \A q \in Slots : HandlerOK(q)'
  <2> TAKE q \in Slots
  <2>1. CASE q = s
    BY <2>1, <1>1 DEF HandlerOK, At, NoRequest
  <2>2. CASE q # s
    BY <2>2, <1>1, HandlerStable DEF SigningInv, rolloutVars
  <2> QED
    BY <2>1, <2>2
<1> QED
  BY <1>1, <1>2, CachesStable DEF SigningInv, rolloutVars, keyCaches

LEMMA LoadFailsInv ==
    ASSUME SigningInv, NEW s \in Slots, LoadFails(s)
    PROVE  SigningInv'
<1>1. End(s) /\ UNCHANGED <<rolloutVars, keyCaches, clientVars>>
  BY DEF LoadFails
<1>2. RolloutOK' /\ refused' = {}
  BY <1>1, RolloutStable DEF SigningInv, rolloutVars, clientVars
<1> QED
  BY <1>1, <1>2, EndLemma
     DEF SigningInv, SigningTypeOK, rolloutVars, keyCaches, clientVars

\* The key of the new token is one of those in use in this phase.
LEMMA SignInv ==
    ASSUME SigningInv, NEW s \in Slots, Sign(s)
    PROVE  SigningInv'
<1> DEFINE p == req[s].proc
           k == req[s].kid
<1>1. /\ End(s)
      /\ live' = live \cup {k}
      /\ UNCHANGED <<rolloutVars, keyCaches, held, refused>>
  BY DEF Sign
<1>2. p \in Procs /\ k = Config(env[p]).kid
  BY DEF Sign, SigningInv, HandlerOK, At
<1>3. k \in Kid
  BY <1>2, ConfigType DEF SigningInv, SigningTypeOK
<1> HIDE DEF p, k
<1>4. SigningTypeOK'
  BY <1>1, <1>3, EndLemma DEF SigningInv, SigningTypeOK, rolloutVars, keyCaches
<1>5. RolloutOK'
  <2>1. PICK n \in Nat : Steady(n) \/ Swapping(n)
    BY DEF SigningInv, RolloutOK
  <2>2. CASE Steady(n)
    <3>1. k = n + 1
      BY <1>2, <2>2, SteadyKeys DEF SigningInv
    <3>2. Steady(n)'
      BY <3>1, <2>2, <1>1 DEF Steady, HeldOK, rolloutVars
    <3> QED
      BY <3>2 DEF RolloutOK
  <2>3. CASE Swapping(n)
    <3>1. k \in {n + 1, n + 2}
      BY <1>2, <2>3, SwappingKeys DEF SigningInv
    <3>2. Swapping(n)'
      BY <3>1, <2>3, <1>1 DEF Swapping, HeldOK, rolloutVars
    <3> QED
      BY <3>2 DEF RolloutOK
  <2> QED
    BY <2>1, <2>2, <2>3
<1> QED
  BY <1>1, <1>4, <1>5, EndLemma DEF SigningInv

-----------------------------------------------------------------------------
(* getJwksDocument.                                                        *)

\* A step of the promise of process p.
LEMMA DocumentLemma ==
    ASSUME SigningInv, NEW p \in Procs, NEW d \in Promise, SetDocument(p, d),
           UNCHANGED <<rolloutVars, clientVars>>,
           cachedKeys' \in [Procs -> Keys],
           \A q \in Procs \ {p} : cachedKeys'[q] = cachedKeys[q],
           CachesOK(p)'
    PROVE  /\ cachedJwksDocument' \in [Procs -> Promise]
           /\ \A q \in Procs : CachesOK(q)'
           /\ RolloutOK'
           /\ refused' = {}
<1>1. /\ cachedJwksDocument' \in [Procs -> Promise]
      /\ \A q \in Procs \ {p} : cachedJwksDocument'[q] = cachedJwksDocument[q]
  BY SetDocumentLemma DEF SigningInv
<1>2. \A q \in Procs : CachesOK(q)'
  <2> TAKE q \in Procs
  <2>1. CASE q # p
    BY <2>1, <1>1, CachesStable DEF SigningInv, rolloutVars
  <2> QED
    BY <2>1
<1>3. RolloutOK' /\ refused' = {}
  BY RolloutStable DEF SigningInv, rolloutVars, clientVars
<1> QED
  BY <1>1, <1>2, <1>3

\* A request that needs the document arrives at process p.
LEMMA AskInv ==
    ASSUME SigningInv, NEW s \in Slots, NEW p \in Procs, NEW x \in Handler,
           AskForDocument(p), Become(s, x), x.proc = p, x.pc \in {"verify", "jwks"},
           UNCHANGED <<rolloutVars, cachedKeys, clientVars>>
    PROVE  SigningInv'
<1> DEFINE d == IF cachedJwksDocument[p] # Unset THEN cachedJwksDocument[p]
                ELSE IF Loaded(p) THEN [Unset EXCEPT !.state = "building"]
                                  ELSE [Unset EXCEPT !.state = "reading"]
<1>1. d \in Promise
  BY DEF SigningInv, SigningTypeOK, Promise, Unset
<1>2. SetDocument(p, d)
  BY DEF AskForDocument
<1>3. CachesOK(p)'
  <2>1. cachedJwksDocument'[p] = d /\ UNCHANGED <<env, cachedKeys>>
    BY <1>1, <1>2, SetDocumentLemma DEF SigningInv, rolloutVars
  <2>2. Loaded(p) => cachedKeys[p] = Config(env[p])
    BY DEF SigningInv, CachesOK, Loaded
  <2>3. CASE d = cachedJwksDocument[p]
    BY <2>1, <2>3, CachesStable DEF SigningInv
  <2>4. CASE d # cachedJwksDocument[p]
    BY <2>1, <2>2, <2>4 DEF SigningInv, CachesOK, Unset
  <2> QED
    BY <2>3, <2>4
<1> HIDE DEF d
<1>4. \A q \in Slots : HandlerOK(q)'
  <2> TAKE q \in Slots
  <2>1. CASE q = s
    BY <2>1, BecomeLemma DEF SigningInv, HandlerOK, At
  <2>2. CASE q # s
    BY <2>2, BecomeLemma, HandlerStable DEF SigningInv, rolloutVars
  <2> QED
    BY <2>1, <2>2
<1>5. /\ cachedJwksDocument' \in [Procs -> Promise]
      /\ \A q \in Procs : CachesOK(q)'
      /\ RolloutOK'
      /\ refused' = {}
  BY <1>1, <1>2, <1>3, DocumentLemma DEF SigningInv, SigningTypeOK
<1>6. SigningTypeOK'
  BY <1>5, BecomeLemma DEF SigningInv, SigningTypeOK, rolloutVars, clientVars
<1> QED
  BY <1>4, <1>5, <1>6 DEF SigningInv

LEMMA DocumentStepInv ==
    ASSUME SigningInv, NEW p \in Procs, DocumentStep(p)
    PROVE  SigningInv'
<1>0. \A s \in Slots : HandlerOK(s)'
  BY HandlerStable
     DEF SigningInv, DocumentStep, DocumentKeysLoad, DocumentFails, DocumentBuilt,
         rolloutVars
<1>1. CASE DocumentKeysLoad(p)
  <2> DEFINE d == [Unset EXCEPT !.state = "building"]
  <2>1. d \in Promise /\ d.state = "building"
    BY DEF Unset, Promise
  <2>2. SetDocument(p, d) /\ LoadKeys(p) /\ UNCHANGED <<rolloutVars, req, clientVars>>
    BY <1>1 DEF DocumentKeysLoad
  <2> HIDE DEF d
  <2>3. /\ cachedJwksDocument'[p] = d
        /\ cachedKeys' \in [Procs -> Keys]
        /\ cachedKeys'[p] = Config(env[p])
        /\ \A q \in Procs \ {p} : cachedKeys'[q] = cachedKeys[q]
    BY <2>1, <2>2, SetDocumentLemma, LoadKeysLemma DEF SigningInv
  <2>4. CachesOK(p)'
    BY <2>1, <2>2, <2>3 DEF CachesOK, rolloutVars
  <2>5. /\ cachedJwksDocument' \in [Procs -> Promise]
        /\ \A q \in Procs : CachesOK(q)'
        /\ RolloutOK'
        /\ refused' = {}
    BY <2>1, <2>2, <2>3, <2>4, DocumentLemma
  <2> QED
    BY <1>0, <2>2, <2>3, <2>5 DEF SigningInv, SigningTypeOK, rolloutVars, clientVars
<1>2. ASSUME NEW d \in Promise, SetDocument(p, d),
             UNCHANGED <<rolloutVars, cachedKeys, req, clientVars>>,
             \/ d = Rejected
             \/ /\ d.state = "ready"
                /\ d.kids = BuildJwksDocument(Config(env[p]))
      PROVE  SigningInv'
  <2>1. cachedJwksDocument'[p] = d
    BY <1>2, SetDocumentLemma DEF SigningInv
  <2>2. CachesOK(p)'
    <3>1. UNCHANGED <<env, cachedKeys>> /\ cachedKeys[p] \in {Undefined, Config(env[p])}
      BY <1>2 DEF SigningInv, CachesOK, rolloutVars
    <3>2. CASE d = Rejected
      BY <2>1, <3>1, <3>2 DEF CachesOK, Rejected
    <3>3. CASE d.state = "ready" /\ d.kids = BuildJwksDocument(Config(env[p]))
      BY <2>1, <3>1, <3>3 DEF CachesOK
    <3> QED
      BY <1>2, <3>2, <3>3
  <2>3. /\ cachedJwksDocument' \in [Procs -> Promise]
        /\ \A q \in Procs : CachesOK(q)'
        /\ RolloutOK'
        /\ refused' = {}
    BY <1>2, <2>2, DocumentLemma DEF SigningInv, SigningTypeOK
  <2> QED
    BY <1>0, <1>2, <2>3 DEF SigningInv, SigningTypeOK, rolloutVars, clientVars
<1>3. CASE DocumentFails(p)
  <2>1. Rejected \in Promise
    BY DEF Rejected, Promise
  <2> QED
    BY <1>2, <1>3, <2>1 DEF DocumentFails
<1>4. CASE DocumentBuilt(p)
  <2> DEFINE d == [state |-> "ready", kids |-> BuildJwksDocument(cachedKeys[p])]
  <2>1. cachedKeys[p] = Config(env[p])
    BY <1>4 DEF DocumentBuilt, SigningInv, CachesOK
  <2>2. d \in Promise
    BY <2>1, ConfigType DEF SigningInv, SigningTypeOK, Promise
  <2> QED
    BY <1>2, <1>4, <2>1, <2>2 DEF DocumentBuilt
<1> QED
  BY <1>1, <1>3, <1>4 DEF DocumentStep

\* What the promise of process p resolves to, once it is ready.
LEMMA ReadyDocument ==
    ASSUME SigningInv, NEW p \in Procs, cachedJwksDocument[p].state = "ready"
    PROVE  /\ live \subseteq cachedJwksDocument[p].kids
           /\ cachedJwksDocument[p].kids = BuildJwksDocument(Config(env[p]))
           /\ cachedJwksDocument[p].kids \subseteq Kid
BY LiveIsPublished, ConfigType DEF SigningInv, SigningTypeOK, CachesOK

LEMMA VerifyInv ==
    ASSUME SigningInv, NEW s \in Slots, NEW p \in Procs, Verify(s, p)
    PROVE  SigningInv'
<1>1. End(s) /\ UNCHANGED <<rolloutVars, keyCaches, live, held>>
  BY DEF Verify
<1>2. refused' = {}
  <2>1. \A k \in live : ~Refuses(cachedJwksDocument[p], k)
    BY ReadyDocument DEF Refuses
  <2> QED
    BY <2>1 DEF Verify, SigningInv
<1>3. RolloutOK'
  BY <1>1, RolloutStable DEF SigningInv, rolloutVars
<1> QED
  BY <1>1, <1>2, <1>3, EndLemma DEF SigningInv, SigningTypeOK, rolloutVars, keyCaches

LEMMA ServeJwksInv ==
    ASSUME SigningInv, NEW s \in Slots, NEW p \in Procs, ServeJwks(s, p)
    PROVE  SigningInv'
<1> DEFINE kids == cachedJwksDocument[p].kids
<1>1. End(s) /\ UNCHANGED <<rolloutVars, keyCaches, live, refused>>
  BY DEF ServeJwks
<1>2. \/ held' = held
      \/ held' = {kids} /\ cachedJwksDocument[p].state = "ready"
  BY DEF ServeJwks, Settled, SigningInv, CachesOK
<1>3. RolloutOK' /\ held' \subseteq SUBSET Kid
  <2>1. CASE held' = held
    BY <2>1, <1>1, RolloutStable DEF SigningInv, SigningTypeOK, rolloutVars
  <2>2. CASE held' = {kids} /\ cachedJwksDocument[p].state = "ready"
    <3>1. kids = BuildJwksDocument(Config(env[p])) /\ kids \subseteq Kid
      BY <2>2, ReadyDocument
    <3> HIDE DEF kids
    <3>2. PICK n \in Nat : Steady(n) \/ Swapping(n)
      BY DEF SigningInv, RolloutOK
    <3>3. CASE Steady(n)
      <4>1. n + 1 \in kids /\ \A j \in kids : j <= n + 2
        BY <3>1, <3>3, SteadyKeys DEF SigningInv
      <4>2. Steady(n)'
        BY <1>1, <2>2, <3>3, <4>1 DEF Steady, HeldOK, rolloutVars
      <4> QED
        BY <2>2, <3>1, <4>2 DEF RolloutOK, SigningInv, SigningTypeOK
    <3>4. CASE Swapping(n)
      <4>1. n + 1 \in kids /\ \A j \in kids : j <= n + 2
        BY <3>1, <3>4, SwappingKeys DEF SigningInv
      <4>2. Swapping(n)'
        BY <1>1, <2>2, <3>4, <4>1 DEF Swapping, HeldOK, rolloutVars
      <4> QED
        BY <2>2, <3>1, <4>2 DEF RolloutOK, SigningInv, SigningTypeOK
    <3> QED
      BY <3>2, <3>3, <3>4
  <2> QED
    BY <1>2, <2>1, <2>2
<1> QED
  BY <1>1, <1>3, EndLemma DEF SigningInv, SigningTypeOK, rolloutVars, keyCaches

-----------------------------------------------------------------------------
(* The rollout and the passage of time.                                    *)

LEMMA RestartInv ==
    ASSUME SigningInv, NEW p \in Procs, NEW g \in {env[p], target}, Restart(p, g)
    PROVE  SigningInv'
<1>1. /\ UNCHANGED <<target, clientVars>>
      /\ env' \in [Procs -> 0..MaxDeploys]
      /\ env'[p] = g
      /\ \A q \in Procs \ {p} : env'[q] = env[q]
  BY DEF Restart, SigningInv, SigningTypeOK
<1>2. /\ cachedKeys' \in [Procs -> Keys]
      /\ cachedKeys'[p] = Undefined
      /\ \A q \in Procs \ {p} : cachedKeys'[q] = cachedKeys[q]
  BY DEF Restart, SigningInv, SigningTypeOK, Undefined, Keys
<1>3. /\ cachedJwksDocument' \in [Procs -> Promise]
      /\ cachedJwksDocument'[p] = Unset
      /\ \A q \in Procs \ {p} : cachedJwksDocument'[q] = cachedJwksDocument[q]
  <2>1. Unset \in Promise
    BY DEF Unset, Promise
  <2> QED
    BY <2>1, SetDocumentLemma DEF Restart, SigningInv
<1>4. req' \in [Slots -> Handler]
  BY NoRequestType DEF Restart, SigningInv, SigningTypeOK
<1>5. SigningTypeOK'
  BY <1>1, <1>2, <1>3, <1>4 DEF SigningInv, SigningTypeOK, clientVars
<1>6. \A q \in Procs : CachesOK(q)'
  <2> TAKE q \in Procs
  <2>1. CASE q = p
    BY <2>1, <1>2, <1>3 DEF CachesOK, Unset
  <2>2. CASE q # p
    BY <2>2, <1>1, <1>2, <1>3, CachesStable DEF SigningInv
  <2> QED
    BY <2>1, <2>2
<1>7. \A s \in Slots : HandlerOK(s)'
  <2> TAKE s \in Slots
  <2>1. req'[s] = IF req[s].proc = p THEN NoRequest ELSE req[s]
    BY DEF Restart
  <2>2. CASE req[s].proc = p
    BY <2>1, <2>2 DEF HandlerOK, At, NoRequest
  <2>3. CASE req[s].proc # p
    BY <2>1, <2>3, <1>1 DEF SigningInv, HandlerOK, At
  <2> QED
    BY <2>2, <2>3
<1>8. RolloutOK' /\ refused' = {}
  BY <1>1 DEF SigningInv, RolloutOK, Steady, Swapping, HeldOK, clientVars
<1> QED
  BY <1>5, <1>6, <1>7, <1>8 DEF SigningInv

\* A step of the operator or the clock leaves processes and requests alone.
LEMMA OutsideLemma ==
    ASSUME SigningInv, UNCHANGED <<env, keyCaches, req, refused>>
    PROVE  /\ \A q \in Procs : CachesOK(q)'
           /\ \A s \in Slots : HandlerOK(s)'
           /\ refused' = {}
BY CachesStable, HandlerStable DEF SigningInv, keyCaches

\* The next deploy of rotation n, or the first of the one after it.
LEMMA NextDeployInv ==
    ASSUME SigningInv, NextDeploy
    PROVE  SigningInv'
<1>1. /\ target < MaxDeploys
      /\ \A p \in Procs : env[p] = target
      /\ target' = target + 1
      /\ UNCHANGED <<env, keyCaches, req, clientVars>>
  BY DEF NextDeploy
<1>2. SigningTypeOK'
  BY <1>1 DEF SigningInv, SigningTypeOK, keyCaches, clientVars
<1>3. RolloutOK'
  <2>1. PICK n \in Nat : Steady(n) \/ Swapping(n)
    BY DEF SigningInv, RolloutOK
  <2>2. CASE target = 3 * n
    <3>1. Steady(n)
      BY <2>1, <2>2 DEF Swapping
    <3>2. Steady(n)'
      BY <1>1, <2>2, <3>1 DEF Steady, HeldOK, clientVars
    <3> QED
      BY <3>2 DEF RolloutOK
  <2>3. CASE target = 3 * n + 1
    <3>1. live \subseteq {n + 1, n + 2} /\ HeldOK(n)
      BY <2>1 DEF Steady, Swapping
    <3>2. Swapping(n)'
      BY <1>1, <2>3, <3>1 DEF Swapping, HeldOK, clientVars
    <3> QED
      BY <3>2 DEF RolloutOK
  <2>4. CASE target = 3 * n + 2
    <3>1. n + 1 \notin live
      <4>1. target % 3 = 2
        BY <2>4
      <4>2. Config(3 * n + 2) = [kid |-> n + 2, previousKid |-> n + 1]
        BY ConfigOfRotation
      <4> QED
        BY <2>4, <4>1, <4>2 DEF NextDeploy, MayRetire
    <3>2. live \subseteq {n + 1, n + 2} /\ HeldOK(n)
      BY <2>1, <2>4 DEF Steady, Swapping
    <3>3. HeldOK(n + 1)
      <4>1. held \subseteq SUBSET Nat
        BY KidsAreNumbers DEF SigningInv, SigningTypeOK
      <4> QED
        BY <3>2, <4>1 DEF HeldOK
    <3>4. Steady(n + 1)'
      BY <1>1, <2>4, <3>1, <3>2, <3>3 DEF Steady, HeldOK, clientVars
    <3> QED
      BY <3>4 DEF RolloutOK
  <2> QED
    BY <2>1, <2>2, <2>3, <2>4 DEF Steady, Swapping
<1> QED
  BY <1>1, <1>2, <1>3, OutsideLemma DEF SigningInv, clientVars

LEMMA RollbackInv ==
    ASSUME SigningInv, Rollback
    PROVE  SigningInv'
<1>1. /\ target % 3 = 2
      /\ target' = target - 1
      /\ UNCHANGED <<env, keyCaches, req, clientVars>>
  BY DEF Rollback
<1>2. PICK n \in Nat : Steady(n) \/ Swapping(n)
  BY DEF SigningInv, RolloutOK
<1>3. target = 3 * n + 2
  <2>1. (3 * n) % 3 = 0 /\ (3 * n + 1) % 3 = 1
    OBVIOUS
  <2> QED
    BY <1>1, <1>2, <2>1 DEF Steady, Swapping
<1>4. Swapping(n)
  BY <1>2, <1>3 DEF Steady
<1>5. Swapping(n)'
  BY <1>1, <1>3, <1>4 DEF Swapping, HeldOK, clientVars
<1>6. SigningTypeOK'
  BY <1>1, <1>3 DEF SigningInv, SigningTypeOK, keyCaches, clientVars
<1> QED
  BY <1>1, <1>5, <1>6, OutsideLemma DEF SigningInv, RolloutOK, clientVars

LEMMA TimeInv ==
    ASSUME SigningInv,
           \/ \E k \in live : TokensExpire(k)
           \/ \E d \in held : DocumentLapses(d)
    PROVE  SigningInv'
<1>1. /\ live' \subseteq live
      /\ held' \subseteq held
      /\ UNCHANGED <<target, env, keyCaches, req, refused>>
  BY DEF TokensExpire, DocumentLapses, rolloutVars
<1>2. RolloutOK'
  BY <1>1 DEF SigningInv, RolloutOK, Steady, Swapping, HeldOK
<1>3. SigningTypeOK'
  BY <1>1 DEF SigningInv, SigningTypeOK, keyCaches
<1> QED
  BY <1>1, <1>2, <1>3, OutsideLemma DEF SigningInv

-----------------------------------------------------------------------------
(* The theorems.                                                           *)

LEMMA SigningInitInv == SigningInit => SigningInv
<1> SUFFICES ASSUME SigningInit PROVE SigningInv
  OBVIOUS
<1>1. SigningTypeOK
  BY NoRequestType
     DEF SigningInit, SigningTypeOK, Keys, Undefined, Promise, Unset
<1>2. Steady(0)
  BY DEF SigningInit, Steady, HeldOK
<1>3. \A p \in Procs : CachesOK(p)
  BY DEF SigningInit, CachesOK, Unset
<1>4. \A s \in Slots : HandlerOK(s)
  BY DEF SigningInit, HandlerOK, At, NoRequest
<1> QED
  BY <1>1, <1>2, <1>3, <1>4 DEF SigningInv, RolloutOK, SigningInit

LEMMA SigningStutter == SigningInv /\ UNCHANGED signingVars => SigningInv'
<1> SUFFICES ASSUME SigningInv, UNCHANGED signingVars PROVE SigningInv'
  OBVIOUS
<1>1. RolloutOK' /\ SigningTypeOK'
  BY RolloutStable
     DEF SigningInv, SigningTypeOK, signingVars, rolloutVars, keyCaches, clientVars
<1> QED
  BY <1>1, OutsideLemma DEF SigningInv, signingVars, rolloutVars, clientVars

LEMMA SlotInv ==
    ASSUME SigningInv, NEW s \in Slots, Start(s) \/ Step(s)
    PROVE  SigningInv'
<1>1. ASSUME NEW p \in Procs, StartJwks(s, p) PROVE SigningInv'
  <2>1. [pc |-> "jwks", proc |-> p, kid |-> 0] \in Handler
    BY DEF Handler
  <2> QED
    BY <1>1, <2>1, AskInv DEF StartJwks
<1>2. ASSUME NEW p \in Procs, NEW k \in live, StartVerify(s, p, k) PROVE SigningInv'
  <2>1. [pc |-> "verify", proc |-> p, kid |-> k] \in Handler
    BY DEF Handler, SigningInv, SigningTypeOK
  <2> QED
    BY <1>2, <2>1, AskInv DEF StartVerify
<1>3. CASE Start(s)
  BY <1>1, <1>2, <1>3, StartSignInv DEF Start
<1>4. CASE Step(s)
  BY <1>4, KeysLoadInv, LoadFailsInv, SignInv, VerifyInv, ServeJwksInv DEF Step
<1> QED
  BY <1>3, <1>4

\* The inductive invariant holds in every reachable state: the processes of a
\* rollout are at most one deploy apart, and what is published covers what signs.
THEOREM SigningInvariance == SigningSpec => []SigningInv
<1>1. SigningInv /\ [SigningNext]_signingVars => SigningInv'
  <2> SUFFICES ASSUME SigningInv, SigningNext PROVE SigningInv'
    BY SigningStutter
  <2> QED
    BY SlotInv, DocumentStepInv, RestartInv, NextDeployInv, RollbackInv, TimeInv
       DEF SigningNext
<1> QED
  BY <1>1, SigningInitInv, PTL DEF SigningSpec

\* The caches, the requests and the sets of keys keep their types: every key a
\* process signs with or publishes is one the deploys have introduced.
THEOREM SigningTyping == SigningSpec => []SigningTypeOK
BY SigningInvariance, PTL DEF SigningInv

\* For any number of processes and deploys: no process ever answers 401 to an
\* unexpired token that another one signed, through rotations, rollbacks,
\* restarts and failed loads.
THEOREM NoTokenIsRefusedSpuriously == SigningSpec => []NoSpuriousRefusal
BY SigningInvariance, PTL DEF SigningInv, NoSpuriousRefusal

\* OldKeysStayPublished: however long a client keeps a JWKS document, the only keys
\* of unexpired tokens it lacks are newer than every key it has.
THEOREM DocumentsLackOnlyNewerKeys == SigningSpec => []OldKeysStayPublished
<1>1. SigningInv => OldKeysStayPublished
  <2> SUFFICES ASSUME SigningInv, NEW d \in held, NEW k \in live, NEW j \in d, k <= j
               PROVE  k \in d
    BY DEF OldKeysStayPublished
  <2>1. PICK n \in Nat : live \subseteq {n + 1, n + 2} /\ HeldOK(n)
    BY DEF SigningInv, RolloutOK, Steady, Swapping
  <2>2. j \in Nat /\ k \in Nat
    BY KidsAreNumbers DEF SigningInv, SigningTypeOK
  <2>3. j <= n + 2 /\ (n + 1 \notin d => j <= n)
    BY <2>1 DEF HeldOK
  <2> QED
    BY <2>1, <2>2, <2>3
<1> QED
  BY <1>1, SigningInvariance, PTL

=============================================================================
