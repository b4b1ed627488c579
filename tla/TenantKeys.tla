----------------------------- MODULE TenantKeys -----------------------------
(***************************************************************************)
(* The per-tenant data-encryption keys of tenantKey.service.ts: the table  *)
(* tenant_encryption_keys, shared by every gateway process, and the two    *)
(* LRU caches each process keeps of it.                                    *)
(*                                                                         *)
(* A call is one encryptEmail, decryptEmail or rotateTenantKey in flight;  *)
(* it advances one await at a time.  The reply to a SELECT or an INSERT is *)
(* a step of its own where the code that follows it writes a cache: the    *)
(* caches belong to the process, and its other calls run in between.       *)
(*                                                                         *)
(* rotateTenantKey runs in a READ COMMITTED transaction.  What it has      *)
(* written but not committed is kept in its call; the row lock of its      *)
(* UPDATE and the pending index entry of its INSERT make others wait.  The *)
(* partial unique index on the active row is not modelled: OneActiveKey    *)
(* shows that it never has to refuse anything.                             *)
(***************************************************************************)
EXTENDS BoundedLru, FiniteSets

CONSTANTS
    Procs,           \* gateway processes
    Slots,           \* calls that can be in flight together
    Tenants,         \* tenants, the default bucket among them
    MaxCached,       \* MAX_CACHED_DEKS
    MaxPrefix,       \* the greatest version a ciphertext's prefix can hold
    MaxDeks,         \* bound: keys generated in one behaviour
    CommitsMayFail,  \* bound: whether a COMMIT may be refused or lost
    MayCrash,        \* bound: whether a process may die
    NoProc           \* no process

ASSUME KeysAssumption ==
    /\ MaxCached \in Nat \ {0}
    /\ MaxPrefix \in Nat \ {0}
    /\ MaxDeks \in Nat \ {0}
    /\ CommitsMayFail \in BOOLEAN
    /\ MayCrash \in BOOLEAN
    /\ NoProc \notin Procs

\* Every row has a DEK of its own, so the bound on one bounds the other.
Version == 1..MaxDeks
Dek     == 1..MaxDeks

VARIABLES
    status,              \* status of row (tenant_id, key_version)
    dek,                 \* what the row's wrapped_dek unwraps to
    generated,           \* how many DEKs have come into use
    dekCache,            \* per process: (tenant, version) -> DEK
    activeVersionCache,  \* per process: tenant -> version
    call,                \* the local variables of the call in each slot
    written,             \* users.email: the ciphertexts produced so far
    lost                 \* history: DEKs whose COMMIT did not happen

tableVars == <<status, dek, generated>>
cacheVars == <<dekCache, activeVersionCache>>
keysVars == <<tableVars, cacheVars, call, written, lost>>

\* A ciphertext carries its key_version; its DEK is what can decrypt it.
Ciphertext == [tenant : Tenants, version : Version, dek : Dek]

Cipher(t, v, d) == [tenant |-> t, version |-> v, dek |-> d]

\* A defect: a version that does not fit in the prefix is cut down to it.
Sealed_Wraps(t, v, d) == {Cipher(t, v % (MaxPrefix + 1), d)}

\* encryptWithDek: what the call produces.  writeUInt16BE throws when the
\* version does not fit in its two bytes (MaxPrefix is 2^16 - 1 in the code).
Sealed(t, v, d) == IF v <= MaxPrefix THEN {Cipher(t, v, d)} ELSE {}

CallPC == {"idle", "find", "provision", "provisioned", "findAgain", "found",
           "read", "rotSelect", "rotRetire", "rotInsert", "commit"}

Call == [pc      : CallPC,
         proc    : Procs \cup {NoProc},
         tenant  : Tenants \cup {NoProc},
         version : 0..MaxDeks,   \* the key_version read last; 0 for none
         dek     : 0..MaxDeks]   \* the DEK read or generated last

NoCall == [pc |-> "idle", proc |-> NoProc, tenant |-> NoProc,
           version |-> 0, dek |-> 0]

DekKey == Tenants \X Version

KeysTypeOK ==
    /\ status \in [Tenants -> [Version -> {"none", "active", "retired"}]]
    /\ dek \in [Tenants -> [Version -> 0..MaxDeks]]
    /\ generated \in 0..MaxDeks
    /\ dekCache \in [Procs -> Seq([key : DekKey, value : Dek])]
    /\ activeVersionCache \in [Procs -> Seq([key : Tenants, value : Version])]
    /\ \A p \in Procs : Len(dekCache[p]) <= MaxCached
    /\ \A p \in Procs : Len(activeVersionCache[p]) <= MaxCached
    /\ call \in [Slots -> Call]
    /\ written \subseteq Ciphertext
    /\ lost \subseteq Dek

KeysInit ==
    /\ status = [t \in Tenants |-> [v \in Version |-> "none"]]
    /\ dek = [t \in Tenants |-> [v \in Version |-> 0]]
    /\ generated = 0
    /\ dekCache = [p \in Procs |-> LruEmpty]
    /\ activeVersionCache = [p \in Procs |-> LruEmpty]
    /\ call = [r \in Slots |-> NoCall]
    /\ written = {}
    /\ lost = {}

At(r, pc) == call[r].pc = pc

Become(r, x) == call' = [call EXCEPT ![r] = x]

Return(r) == Become(r, NoCall)

\* findActiveRow, as any committed reader sees the table.
ActiveVersions(t) == {v \in Version : status[t][v] = "active"}

\* Bound: a call that may still put a DEK to use has one in reserve.
MayGenerate(r) ==
    call[r].pc \in {"find", "provision", "rotSelect", "rotRetire", "rotInsert"}

HasDek == generated + Cardinality({r \in Slots : MayGenerate(r)}) < MaxDeks

-----------------------------------------------------------------------------
(* The caches.                                                             *)

RememberActive(p, t, v) ==
    activeVersionCache' =
        [activeVersionCache EXCEPT ![p] = LruSet(@, t, v, MaxCached)]

RememberDek(p, t, v, d) ==
    dekCache' = [dekCache EXCEPT ![p] = LruSet(@, <<t, v>>, d, MaxCached)]

TouchDek(p, t, v) == dekCache' = [dekCache EXCEPT ![p] = LruGet(@, <<t, v>>)]

\* unwrapAndCache: a cached DEK is preferred to the one the row holds.
Unwrapped(p, t, v, d) ==
    IF LruHas(dekCache[p], <<t, v>>) THEN LruValue(dekCache[p], <<t, v>>) ELSE d

UnwrapAndCache(p, t, v, d) ==
    IF LruHas(dekCache[p], <<t, v>>) THEN TouchDek(p, t, v)
                                     ELSE RememberDek(p, t, v, d)

-----------------------------------------------------------------------------
(* encryptEmail: getActiveDek, then encryptWithDek.                        *)

Warm(p, t) ==
    /\ LruHas(activeVersionCache[p], t)
    /\ LruHas(dekCache[p], <<t, LruValue(activeVersionCache[p], t)>>)

TouchActive(p, t) ==
    activeVersionCache' = [activeVersionCache EXCEPT ![p] = LruGet(@, t)]

\* Both caches hit: no await at all.
EncryptWarm(r, p, t) ==
    /\ At(r, "idle")
    /\ Warm(p, t)
    /\ LET v == LruValue(activeVersionCache[p], t)
       IN  /\ TouchDek(p, t, v)
           /\ written' = written \cup Sealed(t, v, LruValue(dekCache[p], <<t, v>>))
    /\ TouchActive(p, t)
    /\ UNCHANGED <<tableVars, call, lost>>

EncryptCold(r, p, t) ==
    /\ At(r, "idle")
    /\ ~Warm(p, t)
    /\ HasDek
    /\ TouchActive(p, t)
    /\ Become(r, [NoCall EXCEPT !.pc = "find", !.proc = p, !.tenant = t])
    /\ UNCHANGED <<tableVars, dekCache, written, lost>>

\* The SELECT of findActiveRow, called first and after a lost provisioning.
FindActive(r) ==
    /\ call[r].pc \in {"find", "findAgain"}
    /\ IF ActiveVersions(call[r].tenant) # {}
         THEN \E v \in ActiveVersions(call[r].tenant) :
                 Become(r, [call[r] EXCEPT !.pc = "found", !.version = v,
                                           !.dek = dek[call[r].tenant][v]])
         ELSE IF At(r, "find") THEN Become(r, [call[r] EXCEPT !.pc = "provision"])
                               ELSE Return(r)
    /\ UNCHANGED <<tableVars, cacheVars, written, lost>>

\* The row is back: the pointer and the DEK are cached and the DEK is used.
Found(r) ==
    /\ At(r, "found")
    /\ LET c == call[r] IN
         /\ RememberActive(c.proc, c.tenant, c.version)
         /\ UnwrapAndCache(c.proc, c.tenant, c.version, c.dek)
         /\ written' = written \cup
              Sealed(c.tenant, c.version, Unwrapped(c.proc, c.tenant, c.version, c.dek))
    /\ Return(r)
    /\ UNCHANGED <<tableVars, lost>>

\* An uncommitted INSERT of row (t, v) makes another INSERT of it wait.
InsertPending(t, v) ==
    \E q \in Slots : At(q, "commit") /\ call[q].tenant = t /\ call[q].version + 1 = v

\* A defect: INSERT without ON CONFLICT DO NOTHING, replacing what is there.
Provision_Overwrites(r) ==
    /\ At(r, "provision")
    /\ ~InsertPending(call[r].tenant, 1)
    /\ generated < MaxDeks
    /\ generated' = generated + 1
    /\ status' = [status EXCEPT ![call[r].tenant][1] = "active"]
    /\ dek' = [dek EXCEPT ![call[r].tenant][1] = generated + 1]
    /\ Become(r, [call[r] EXCEPT !.pc = "provisioned", !.dek = generated + 1])
    /\ UNCHANGED <<cacheVars, written, lost>>

\* provisionActiveKey: INSERT key_version 1 ON CONFLICT DO NOTHING.
Provision(r) ==
    /\ At(r, "provision")
    /\ ~InsertPending(call[r].tenant, 1)
    /\ IF status[call[r].tenant][1] = "none"
         THEN /\ generated < MaxDeks
              /\ generated' = generated + 1
              /\ status' = [status EXCEPT ![call[r].tenant][1] = "active"]
              /\ dek' = [dek EXCEPT ![call[r].tenant][1] = generated + 1]
              /\ Become(r, [call[r] EXCEPT !.pc = "provisioned",
                                           !.dek = generated + 1])
         ELSE /\ Become(r, [call[r] EXCEPT !.pc = "findAgain"])
              /\ UNCHANGED tableVars
    /\ UNCHANGED <<cacheVars, written, lost>>

\* The inserted row is back.
Provisioned(r) ==
    /\ At(r, "provisioned")
    /\ LET c == call[r] IN
         /\ RememberDek(c.proc, c.tenant, 1, c.dek)
         /\ RememberActive(c.proc, c.tenant, 1)
         /\ written' = written \cup Sealed(c.tenant, 1, c.dek)
    /\ Return(r)
    /\ UNCHANGED <<tableVars, lost>>

-----------------------------------------------------------------------------
(* decryptEmail: getDekForVersion with the version of the ciphertext.      *)

DecryptCached(r, p, c) ==
    /\ At(r, "idle")
    /\ LruHas(dekCache[p], <<c.tenant, c.version>>)
    /\ TouchDek(p, c.tenant, c.version)
    /\ UNCHANGED <<tableVars, activeVersionCache, call, written, lost>>

DecryptUncached(r, p, c) ==
    /\ At(r, "idle")
    /\ ~LruHas(dekCache[p], <<c.tenant, c.version>>)
    /\ Become(r, [NoCall EXCEPT !.pc = "read", !.proc = p, !.tenant = c.tenant,
                                !.version = c.version])
    /\ UNCHANGED <<tableVars, cacheVars, written, lost>>

\* The SELECT and its reply; a version without a row throws.  A row's DEK never
\* changes, so nothing can come between the two that matters.
ReadVersion(r) ==
    /\ At(r, "read")
    /\ LET c == call[r] IN
         IF status[c.tenant][c.version] # "none"
           THEN UnwrapAndCache(c.proc, c.tenant, c.version, dek[c.tenant][c.version])
           ELSE UNCHANGED dekCache
    /\ Return(r)
    /\ UNCHANGED <<tableVars, activeVersionCache, written, lost>>

-----------------------------------------------------------------------------
(* rotateTenantKey.                                                        *)

StartRotate(r, p, t) ==
    /\ At(r, "idle")
    /\ HasDek
    /\ Become(r, [NoCall EXCEPT !.pc = "rotSelect", !.proc = p, !.tenant = t])
    /\ UNCHANGED <<tableVars, cacheVars, written, lost>>

RotateSelect(r) ==
    /\ At(r, "rotSelect")
    /\ IF ActiveVersions(call[r].tenant) # {}
         THEN \E v \in ActiveVersions(call[r].tenant) :
                 Become(r, [call[r] EXCEPT !.pc = "rotRetire", !.version = v])
         ELSE Become(r, [call[r] EXCEPT !.pc = "rotInsert"])
    /\ UNCHANGED <<tableVars, cacheVars, written, lost>>

\* Another transaction has updated row (t, v) and is still open.
RowLocked(t, v) ==
    \E q \in Slots : /\ call[q].pc \in {"rotInsert", "commit"}
                     /\ call[q].tenant = t
                     /\ call[q].version = v

\* UPDATE by primary key.  When the lock's holder commits first the row still
\* matches: there is no condition on status.
RotateRetire(r) ==
    /\ At(r, "rotRetire")
    /\ ~RowLocked(call[r].tenant, call[r].version)
    /\ Become(r, [call[r] EXCEPT !.pc = "rotInsert"])
    /\ UNCHANGED <<tableVars, cacheVars, written, lost>>

NextVersion(r) == call[r].version + 1

\* A defect: the conflicting INSERT is tried again with the same version.
RotateConflict_Retried(r) ==
    /\ At(r, "rotInsert")
    /\ NextVersion(r) \in Version
    /\ status[call[r].tenant][NextVersion(r)] # "none"
    /\ UNCHANGED keysVars

\* The INSERT runs into the primary key: the transaction rolls back and throws.
RotateConflict(r) ==
    /\ At(r, "rotInsert")
    /\ NextVersion(r) \in Version
    /\ status[call[r].tenant][NextVersion(r)] # "none"
    /\ Return(r)
    /\ UNCHANGED <<tableVars, cacheVars, written, lost>>

\* The INSERT succeeds and the callback fills both caches, before COMMIT.
RotateInsert(r) ==
    /\ At(r, "rotInsert")
    /\ NextVersion(r) \in Version
    /\ status[call[r].tenant][NextVersion(r)] = "none"
    /\ ~InsertPending(call[r].tenant, NextVersion(r))
    /\ generated < MaxDeks
    /\ generated' = generated + 1
    /\ RememberDek(call[r].proc, call[r].tenant, NextVersion(r), generated + 1)
    /\ RememberActive(call[r].proc, call[r].tenant, NextVersion(r))
    /\ Become(r, [call[r] EXCEPT !.pc = "commit", !.dek = generated + 1])
    /\ UNCHANGED <<status, dek, written, lost>>

\* A defect: the previous row is not retired.
Commit_NoRetire(r) ==
    /\ At(r, "commit")
    /\ LET t == call[r].tenant IN
         /\ status' = [status EXCEPT ![t][NextVersion(r)] = "active"]
         /\ dek' = [dek EXCEPT ![t][NextVersion(r)] = call[r].dek]
    /\ Return(r)
    /\ UNCHANGED <<generated, cacheVars, written, lost>>

Commit(r) ==
    /\ At(r, "commit")
    /\ LET t == call[r].tenant IN
         /\ status' = [status EXCEPT ![t] =
                         [v \in Version |-> CASE v = call[r].version -> "retired"
                                              [] v = NextVersion(r) -> "active"
                                              [] OTHER -> status[t][v]]]
         /\ dek' = [dek EXCEPT ![t][NextVersion(r)] = call[r].dek]
    /\ Return(r)
    /\ UNCHANGED <<generated, cacheVars, written, lost>>

-----------------------------------------------------------------------------
(* The environment.                                                        *)

\* The connection is lost at COMMIT: rolled back, and the process lives on.
CommitFails(r) ==
    /\ CommitsMayFail
    /\ At(r, "commit")
    /\ lost' = lost \cup {call[r].dek}
    /\ Return(r)
    /\ UNCHANGED <<tableVars, cacheVars, written>>

\* A process dies: its calls end where they are, its open transactions are
\* rolled back and its caches are gone.
Crash(p) ==
    /\ MayCrash
    /\ lost' = lost \cup {call[r].dek : r \in {q \in Slots : call[q].proc = p
                                                         /\ At(q, "commit")}}
    /\ call' = [r \in Slots |-> IF call[r].proc = p THEN NoCall ELSE call[r]]
    /\ dekCache' = [dekCache EXCEPT ![p] = LruEmpty]
    /\ activeVersionCache' = [activeVersionCache EXCEPT ![p] = LruEmpty]
    /\ UNCHANGED <<tableVars, written>>

-----------------------------------------------------------------------------

CallStart(r) ==
    \E p \in Procs :
        \/ \E t \in Tenants : EncryptWarm(r, p, t) \/ EncryptCold(r, p, t)
                              \/ StartRotate(r, p, t)
        \/ \E c \in written : DecryptCached(r, p, c) \/ DecryptUncached(r, p, c)

\* A step that may have to wait for another transaction.
LockStep(r) == Provision(r) \/ RotateRetire(r) \/ RotateConflict(r) \/ RotateInsert(r)

CallStep(r) ==
    \/ FindActive(r) \/ Found(r) \/ Provisioned(r) \/ ReadVersion(r)
    \/ RotateSelect(r) \/ Commit(r)

KeysNext ==
    \/ \E r \in Slots : CallStart(r) \/ CallStep(r) \/ LockStep(r) \/ CommitFails(r)
    \/ \E p \in Procs : Crash(p)

KeysSpec == KeysInit /\ [][KeysNext]_keysVars

\* Replies are handled by the event loop; Postgres grants locks in the order
\* they were asked for, so a waiting statement is not passed over forever.
KeysFairSpec ==
    KeysSpec /\ \A r \in Slots : WF_keysVars(CallStep(r)) /\ SF_keysVars(LockStep(r))

-----------------------------------------------------------------------------
(* The table.                                                              *)

\* A tenant with keys has exactly one active key, the newest, and every older
\* version is there, retired: also when provisioning and rotation race, and
\* whichever transactions are rolled back.  The throw of provisionActiveKey is
\* unreachable: who loses the race for version 1 finds an active row.
OneActiveKey ==
    /\ \A t \in Tenants :
          \/ \A v \in Version : status[t][v] = "none"
          \/ \E n \in Version :
                \A v \in Version :
                    status[t][v] = IF v < n THEN "retired"
                                   ELSE IF v = n THEN "active" ELSE "none"
    /\ \A r \in Slots : At(r, "findAgain") => ActiveVersions(call[r].tenant) # {}

-----------------------------------------------------------------------------
(* The caches and the ciphertexts.                                         *)

\* DEK d is, or is about to become, the key of row (t, v).
Backed(t, v, d) ==
    \/ v \in Version /\ status[t][v] # "none" /\ dek[t][v] = d
    \/ \E r \in Slots : /\ At(r, "commit")
                        /\ call[r].tenant = t
                        /\ NextVersion(r) = v
                        /\ call[r].dek = d

\* No process caches a DEK that is not the row's, whatever is provisioned,
\* rotated, evicted or restarted, except one whose COMMIT failed.
CacheCoherent ==
    \A p \in Procs : \A i \in DOMAIN dekCache[p] :
        LET e == dekCache[p][i]
        IN  Backed(e.key[1], e.key[2], e.value) \/ e.value \in lost

\* Every ciphertext names the version whose DEK produced it and stays
\* decryptable through any number of rotations, past the last version its
\* prefix can hold, evictions and races for the first key, except under a DEK
\* whose COMMIT failed.
RecoverableOnceCommitted ==
    \A c \in written : Backed(c.tenant, c.version, c.dek) \/ c.dek \in lost

\* Every ciphertext stays decryptable.
Recoverable == \A c \in written : Backed(c.tenant, c.version, c.dek)

-----------------------------------------------------------------------------
(* Liveness.                                                               *)

\* No call waits forever for another transaction's locks.
CallsReturn == \A r \in Slots : (call[r].pc # "idle") ~> (call[r].pc = "idle")

=============================================================================
