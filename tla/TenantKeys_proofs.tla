-------------------------- MODULE TenantKeys_proofs --------------------------
(***************************************************************************)
(* Proofs about TenantKeys: its type invariant, the state of the table,    *)
(* the coherence of the caches with it and the recoverability of every     *)
(* ciphertext, for any number of processes, calls and tenants, any cache   *)
(* size, and with or without failing commits and crashes.                  *)
(***************************************************************************)
EXTENDS TenantKeys, TLAPS

-----------------------------------------------------------------------------
(* The LRU cache: what its operations keep, add and bound.                 *)

Entries(c) == {c[i] : i \in DOMAIN c}

\* What a cache holds at a place is an entry.
LEMMA EntryIsOne ==
    ASSUME NEW E, NEW c \in Seq(E), NEW i \in DOMAIN c
    PROVE  c[i] \in E
OBVIOUS

\* The entry LruPlace finds has the key that was asked for.
LEMMA LruPlaceFinds ==
    ASSUME NEW c, NEW k, LruHas(c, k)
    PROVE  LruPlace(c, k) \in DOMAIN c /\ c[LruPlace(c, k)].key = k
BY DEF LruHas, LruPlace

\* An entry is its key and its value.
LEMMA EntryOfParts ==
    ASSUME NEW K, NEW V, NEW x \in [key : K, value : V]
    PROVE  LruEntry(x.key, x.value) = x
BY DEF LruEntry

\* Map.delete leaves a cache whose entries were there, one fewer if it hits.
LEMMA LruDeleteKeeps ==
    ASSUME NEW E, NEW c \in Seq(E), NEW k
    PROVE  /\ LruDelete(c, k) \in Seq(E)
           /\ Entries(LruDelete(c, k)) \subseteq Entries(c)
           /\ Len(LruDelete(c, k)) = IF LruHas(c, k) THEN Len(c) - 1 ELSE Len(c)
<1>1. CASE ~LruHas(c, k)
  BY <1>1 DEF LruDelete
<1>2. CASE LruHas(c, k)
  <2> DEFINE p == LruPlace(c, k)
             d == [i \in 1..(Len(c) - 1) |-> IF i < p THEN c[i] ELSE c[i + 1]]
  <2>1. p \in 1..Len(c)
    BY <1>2, LruPlaceFinds
  <2>2. LruDelete(c, k) = d
    BY <1>2 DEF LruDelete
  <2> HIDE DEF p
  <2>3. Len(c) - 1 \in Nat
    BY <2>1
  <2>4. \A i \in 1..(Len(c) - 1) :
           /\ i \in 1..Len(c) /\ i + 1 \in 1..Len(c)
           /\ d[i] = c[i] \/ d[i] = c[i + 1]
    BY <2>1
  <2>5. \A i \in 1..(Len(c) - 1) : d[i] \in E
    BY <2>4
  <2>6. d \in Seq(E) /\ Len(d) = Len(c) - 1 /\ DOMAIN d = 1..(Len(c) - 1)
    <3> HIDE DEF d
    <3>1. d \in [1..(Len(c) - 1) -> E]
      BY <2>5 DEF d
    <3> QED BY <2>3, <3>1
  <2>7. Entries(d) \subseteq Entries(c)
    <3> HIDE DEF d
    <3> QED BY <2>4, <2>6 DEF Entries
  <2> QED BY <1>2, <2>2, <2>6, <2>7
<1> QED BY <1>1, <1>2

\* Append adds one entry.
LEMMA AppendAdds ==
    ASSUME NEW E, NEW c \in Seq(E), NEW e \in E
    PROVE  /\ Append(c, e) \in Seq(E)
           /\ Len(Append(c, e)) = Len(c) + 1
           /\ Entries(Append(c, e)) \subseteq Entries(c) \cup {e}
<1>1. Append(c, e) \in Seq(E) /\ Len(Append(c, e)) = Len(c) + 1
  OBVIOUS
<1>2. \A i \in DOMAIN Append(c, e) :
         (i \in DOMAIN c /\ Append(c, e)[i] = c[i]) \/ Append(c, e)[i] = e
  OBVIOUS
<1>3. \A x \in Entries(Append(c, e)) : x \in Entries(c) \/ x = e
  BY <1>2 DEF Entries
<1> QED BY <1>1, <1>3

\* Dropping the oldest entry keeps the others.
LEMMA TailKeeps ==
    ASSUME NEW E, NEW c \in Seq(E), Len(c) # 0
    PROVE  /\ Tail(c) \in Seq(E)
           /\ Len(Tail(c)) = Len(c) - 1
           /\ Entries(Tail(c)) \subseteq Entries(c)
<1>1. c # <<>>
  OBVIOUS
<1>2. Tail(c) \in Seq(E) /\ Len(Tail(c)) = Len(c) - 1
  BY <1>1
<1>3. \A i \in DOMAIN Tail(c) : i + 1 \in DOMAIN c /\ Tail(c)[i] = c[i + 1]
  BY <1>1
<1> QED BY <1>2, <1>3 DEF Entries

\* A value found under a key is that of one of the cache's entries.
LEMMA LruValueFound ==
    ASSUME NEW K, NEW V, NEW c \in Seq([key : K, value : V]), NEW k, LruHas(c, k)
    PROVE  /\ LruValue(c, k) \in V
           /\ LruEntry(k, LruValue(c, k)) \in Entries(c)
           /\ k \in K
<1> DEFINE e == c[LruPlace(c, k)]
<1>1. LruPlace(c, k) \in DOMAIN c /\ e.key = k
  BY LruPlaceFinds
<1>2. e \in [key : K, value : V]
  BY <1>1, EntryIsOne
<1>4. e \in Entries(c)
  BY <1>1 DEF Entries
<1>3. LruValue(c, k) = e.value
  BY DEF LruValue
<1> HIDE DEF e
<1>5. e = [key |-> e.key, value |-> e.value]
  BY <1>2
<1> QED BY <1>1, <1>2, <1>3, <1>4, <1>5 DEF LruEntry

\* get(k) reorders the cache and adds nothing.
LEMMA LruGetKeeps ==
    ASSUME NEW E, \A x \in E : LruEntry(x.key, x.value) = x, NEW c \in Seq(E), NEW k
    PROVE  /\ LruGet(c, k) \in Seq(E)
           /\ Len(LruGet(c, k)) = Len(c)
           /\ Entries(LruGet(c, k)) \subseteq Entries(c)
<1>1. CASE ~LruHas(c, k)
  BY <1>1 DEF LruGet
<1>2. CASE LruHas(c, k)
  <2> DEFINE d == LruDelete(c, k)
             e == LruEntry(k, LruValue(c, k))
  <2>1. d \in Seq(E) /\ Entries(d) \subseteq Entries(c) /\ Len(d) = Len(c) - 1
    BY <1>2, LruDeleteKeeps
  <2>2. e \in E /\ e \in Entries(c)
    <3> DEFINE f == c[LruPlace(c, k)]
    <3>1. LruPlace(c, k) \in DOMAIN c /\ f.key = k
      BY <1>2, LruPlaceFinds
    <3>2. f \in E /\ f \in Entries(c)
      BY <3>1, EntryIsOne DEF Entries
    <3>3. e = LruEntry(f.key, f.value)
      BY <3>1 DEF LruValue
    <3> HIDE DEF e, f
    <3> QED BY <3>2, <3>3
  <2>3. LruGet(c, k) = Append(d, e)
    BY <1>2 DEF LruGet
  <2> HIDE DEF d, e
  <2>4. /\ Append(d, e) \in Seq(E)
        /\ Len(Append(d, e)) = Len(d) + 1
        /\ Entries(Append(d, e)) \subseteq Entries(d) \cup {e}
    BY <2>1, <2>2, AppendAdds
  <2>5. Len(c) \in Nat
    OBVIOUS
  <2>6. Len(Append(d, e)) = Len(c)
    BY <2>1, <2>4, <2>5
  <2> QED BY <2>1, <2>2, <2>3, <2>4, <2>6
<1> QED BY <1>1, <1>2

\* set(k, v) adds its entry, and a cache within the bound stays within it.
LEMMA LruSetBounded ==
    ASSUME NEW K, NEW V, NEW c \in Seq([key : K, value : V]), NEW k \in K, NEW v \in V,
           NEW max \in Nat \ {0}, Len(c) <= max
    PROVE  /\ LruSet(c, k, v, max) \in Seq([key : K, value : V])
           /\ Len(LruSet(c, k, v, max)) <= max
           /\ Entries(LruSet(c, k, v, max)) \subseteq Entries(c) \cup {LruEntry(k, v)}
<1> DEFINE E == [key : K, value : V]
           d == LruDelete(c, k)
           e == LruEntry(k, v)
           a == Append(d, e)
<1>1. d \in Seq(E) /\ Entries(d) \subseteq Entries(c) /\ Len(d) <= Len(c)
  BY LruDeleteKeeps
<1>2. e \in E
  BY DEF LruEntry
<1>3. LruSet(c, k, v, max) = IF Len(a) > max THEN Tail(a) ELSE a
  BY DEF LruSet, LruTrim
<1> HIDE DEF d, e, E
<1>4. /\ a \in Seq(E)
      /\ Len(a) = Len(d) + 1
      /\ Entries(a) \subseteq Entries(d) \cup {e}
  BY <1>1, <1>2, AppendAdds
<1>5. Len(c) \in Nat /\ Len(d) \in Nat
  BY <1>1
<1> HIDE DEF a
<1>6. CASE Len(a) > max
  <2>1. Len(a) # 0 /\ Len(a) - 1 <= max
    BY <1>1, <1>4, <1>5, <1>6
  <2>2. /\ Tail(a) \in Seq(E)
        /\ Len(Tail(a)) = Len(a) - 1
        /\ Entries(Tail(a)) \subseteq Entries(a)
    BY <1>4, <2>1, TailKeeps
  <2>3. LruSet(c, k, v, max) = Tail(a)
    BY <1>3, <1>6
  <2> QED BY <1>1, <1>4, <2>1, <2>2, <2>3 DEF E, e
<1>7. CASE ~(Len(a) > max)
  <2>1. LruSet(c, k, v, max) = a /\ Len(a) <= max
    BY <1>3, <1>4, <1>5, <1>7
  <2> QED BY <1>1, <1>4, <2>1 DEF E, e
<1> QED BY <1>6, <1>7

-----------------------------------------------------------------------------
(* The inductive invariant.                                                *)

\* The tenant's newest version is n, active; n is 0 when it has no key.
Shape(t, n) ==
    \A v \in Version :
        status[t][v] = IF v < n THEN "retired" ELSE IF v = n THEN "active" ELSE "none"

\* Every table has a shape, and every row a DEK.
TableOK ==
    \A t \in Tenants :
        /\ \E n \in 0..MaxDeks : Shape(t, n)
        /\ \A v \in Version : status[t][v] # "none" => dek[t][v] \in Dek

RowHas(t, v, d) == status[t][v] # "none" /\ dek[t][v] = d

\* What a call has read still holds when it acts on it.  A rotation past its
\* INSERT builds on the newest version; one before it may be overtaken.
CallOK(c) ==
    /\ c.pc # "idle" => c.proc \in Procs /\ c.tenant \in Tenants
    /\ c.pc = "found" => c.version \in Version /\ RowHas(c.tenant, c.version, c.dek)
    /\ c.pc = "provisioned" => RowHas(c.tenant, 1, c.dek)
    /\ c.pc = "findAgain" => status[c.tenant][1] # "none"
    /\ c.pc = "read" => c.version \in Version
    /\ c.pc = "rotSelect" => c.version = 0
    /\ c.pc \in {"rotRetire", "rotInsert"} =>
          c.version = 0 \/ status[c.tenant][c.version] # "none"
    /\ c.pc = "commit" =>
          /\ c.version + 1 \in Version
          /\ Shape(c.tenant, c.version)
          /\ c.dek \in Dek

CallsOK == \A r \in Slots : CallOK(call[r])

\* One transaction of a tenant at a time is past its INSERT.
CommitsOK ==
    \A r, q \in Slots :
        At(r, "commit") /\ At(q, "commit") /\ call[r].tenant = call[q].tenant => r = q

Safe(t, v, d) == Backed(t, v, d) \/ d \in lost

\* CacheCoherent, by entries instead of places.
Coherent ==
    \A p \in Procs : \A e \in Entries(dekCache[p]) : Safe(e.key[1], e.key[2], e.value)

KeysInv ==
    /\ KeysTypeOK
    /\ TableOK
    /\ CallsOK
    /\ CommitsOK
    /\ Coherent
    /\ RecoverableOnceCommitted

-----------------------------------------------------------------------------
(* The table and the calls.                                                *)

\* A DEK that is or will be a row's, or was lost, does not become another's.
SafeKept ==
    \A t \in Tenants, v \in Version, d \in Dek : Safe(t, v, d) => Safe(t, v, d)'

DekCacheOK ==
    /\ dekCache \in [Procs -> Seq([key : DekKey, value : Dek])]
    /\ \A p \in Procs : Len(dekCache[p]) <= MaxCached

ActiveCacheOK ==
    /\ activeVersionCache \in [Procs -> Seq([key : Tenants, value : Version])]
    /\ \A p \in Procs : Len(activeVersionCache[p]) <= MaxCached

\* A tenant's table has one shape.
LEMMA OneShape ==
    ASSUME NEW t \in Tenants, NEW n \in 0..MaxDeks, NEW m \in 0..MaxDeks,
           Shape(t, n), Shape(t, m)
    PROVE  n = m
<1>1. \A i, j \in 0..MaxDeks : Shape(t, i) /\ Shape(t, j) => ~(i < j)
  <2> SUFFICES ASSUME NEW i \in 0..MaxDeks, NEW j \in 0..MaxDeks,
                      Shape(t, i), Shape(t, j), i < j
               PROVE  FALSE
    OBVIOUS
  <2>1. j \in Version /\ ~(j < i) /\ j # i
    BY KeysAssumption DEF Version
  <2>2. status[t][j] = "active" /\ status[t][j] = "none"
    BY <2>1 DEF Shape
  <2> QED BY <2>2
<1> QED BY <1>1

\* The newest version is the one that has a row and no successor.
LEMMA NewestIs ==
    ASSUME KeysInv, NEW t \in Tenants, NEW v \in 0..MaxDeks, v + 1 \in Version,
           v = 0 \/ status[t][v] # "none", status[t][v + 1] = "none"
    PROVE  Shape(t, v)
<1>1. PICK n \in 0..MaxDeks : Shape(t, n)
  BY DEF KeysInv, TableOK
<1>2. ~(v + 1 < n) /\ v + 1 # n
  BY <1>1 DEF Shape
<1>3. v = 0 \/ v <= n
  <2>1. v # 0 => v \in Version
    BY DEF Version
  <2> QED BY <1>1, <2>1 DEF Shape
<1>4. v = n
  BY <1>2, <1>3, KeysAssumption DEF Version
<1> QED BY <1>1, <1>4

\* A step that leaves the rows alone, of a call outside COMMIT.
LEMMA QuietStep ==
    ASSUME KeysInv, NEW r \in Slots, NEW x \in Call, ~At(r, "commit"), x.pc # "commit",
           CallOK(x), Become(r, x), UNCHANGED <<status, dek, lost>>
    PROVE  /\ call' \in [Slots -> Call]
           /\ TableOK' /\ CallsOK' /\ CommitsOK' /\ SafeKept
<1>1. call \in [Slots -> Call]
  BY DEF KeysInv, KeysTypeOK
<1>2. call' \in [Slots -> Call] /\ call'[r] = x /\ \A q \in Slots \ {r} : call'[q] = call[q]
  BY <1>1 DEF Become
<1>3. \A t, n : Shape(t, n)' <=> Shape(t, n)
  BY DEF Shape
<1>4. TableOK'
  BY <1>3 DEF KeysInv, TableOK
<1>5. \A c : CallOK(c)' <=> CallOK(c)
  BY <1>3 DEF CallOK, RowHas
<1>6. CallsOK'
  BY <1>2, <1>5 DEF KeysInv, CallsOK
<1>7. CommitsOK'
  BY <1>2 DEF KeysInv, CommitsOK, At
<1>8. SafeKept
  <2> SUFFICES ASSUME NEW t \in Tenants, NEW v \in Version, NEW d \in Dek, Safe(t, v, d)
               PROVE  Safe(t, v, d)'
    BY DEF SafeKept
  <2>1. \A q \in Slots : At(q, "commit") => call'[q] = call[q]
    BY <1>2
  <2> QED BY <2>1 DEF Safe, Backed, At, NextVersion
<1> QED BY <1>2, <1>4, <1>6, <1>7, <1>8

\* A step of no call that leaves the rows alone.
LEMMA IdleStep ==
    ASSUME KeysInv, UNCHANGED <<status, dek, lost, call>>
    PROVE  /\ call' \in [Slots -> Call]
           /\ TableOK' /\ CallsOK' /\ CommitsOK' /\ SafeKept
<1>1. \A t, n : Shape(t, n)' <=> Shape(t, n)
  BY DEF Shape
<1>2. TableOK'
  BY <1>1 DEF KeysInv, TableOK
<1>3. CallsOK'
  BY <1>1 DEF KeysInv, CallsOK, CallOK, RowHas
<1>4. CommitsOK'
  BY DEF KeysInv, CommitsOK, At
<1>5. SafeKept
  BY DEF SafeKept, Safe, Backed, At, NextVersion
<1>6. call' \in [Slots -> Call]
  BY DEF KeysInv, KeysTypeOK
<1> QED BY <1>2, <1>3, <1>4, <1>5, <1>6

-----------------------------------------------------------------------------
(* The caches and the ciphertexts.                                         *)

\* get keeps the DEK cache within its bound and adds nothing.
LEMMA DekTouched ==
    ASSUME KeysInv, NEW p \in Procs, NEW t, NEW v, TouchDek(p, t, v)
    PROVE  /\ DekCacheOK'
           /\ \A q \in Procs : Entries(dekCache'[q]) \subseteq Entries(dekCache[q])
<1>1. dekCache \in [Procs -> Seq([key : DekKey, value : Dek])]
      /\ \A q \in Procs : Len(dekCache[q]) <= MaxCached
  BY DEF KeysInv, KeysTypeOK
<1> DEFINE E == [key : DekKey, value : Dek]
           c == LruGet(dekCache[p], <<t, v>>)
<1>2. c \in Seq(E) /\ Len(c) = Len(dekCache[p]) /\ Entries(c) \subseteq Entries(dekCache[p])
  <2>1. \A x \in E : LruEntry(x.key, x.value) = x
    BY EntryOfParts
  <2>2. dekCache[p] \in Seq(E)
    BY <1>1
  <2> HIDE DEF E
  <2> QED BY <2>1, <2>2, LruGetKeeps
<1>3. dekCache' = [dekCache EXCEPT ![p] = c]
  BY DEF TouchDek
<1> HIDE DEF c, E
<1>4. dekCache' \in [Procs -> Seq(E)]
  BY <1>1, <1>2, <1>3 DEF E
<1>5. \A q \in Procs : dekCache'[q] = IF q = p THEN c ELSE dekCache[q]
  BY <1>1, <1>3
<1> QED BY <1>1, <1>2, <1>4, <1>5 DEF DekCacheOK, E

\* set keeps the DEK cache within its bound and adds its entry.
LEMMA DekRemembered ==
    ASSUME KeysInv, NEW p \in Procs, NEW t \in Tenants, NEW v \in Version, NEW d \in Dek,
           RememberDek(p, t, v, d)
    PROVE  /\ DekCacheOK'
           /\ \A q \in Procs :
                 Entries(dekCache'[q]) \subseteq
                     Entries(dekCache[q]) \cup {LruEntry(<<t, v>>, d)}
<1>1. dekCache \in [Procs -> Seq([key : DekKey, value : Dek])]
      /\ \A q \in Procs : Len(dekCache[q]) <= MaxCached
  BY DEF KeysInv, KeysTypeOK
<1> DEFINE E == [key : DekKey, value : Dek]
           c == LruSet(dekCache[p], <<t, v>>, d, MaxCached)
<1>2. <<t, v>> \in DekKey
  BY DEF DekKey
<1>3. /\ c \in Seq(E)
      /\ Len(c) <= MaxCached
      /\ Entries(c) \subseteq Entries(dekCache[p]) \cup {LruEntry(<<t, v>>, d)}
  BY <1>1, <1>2, LruSetBounded, KeysAssumption
<1>4. dekCache' = [dekCache EXCEPT ![p] = c]
  BY DEF RememberDek
<1> HIDE DEF c, E
<1>5. dekCache' \in [Procs -> Seq(E)]
  BY <1>1, <1>3, <1>4 DEF E
<1>6. \A q \in Procs : dekCache'[q] = IF q = p THEN c ELSE dekCache[q]
  BY <1>1, <1>4
<1> QED BY <1>1, <1>3, <1>5, <1>6 DEF DekCacheOK, E

\* get and set keep the cache of active versions within its bound.
LEMMA ActiveKept ==
    ASSUME KeysInv, NEW p \in Procs, NEW t \in Tenants, NEW v \in Version,
           RememberActive(p, t, v) \/ TouchActive(p, t)
    PROVE  ActiveCacheOK'
<1>1. activeVersionCache \in [Procs -> Seq([key : Tenants, value : Version])]
      /\ \A q \in Procs : Len(activeVersionCache[q]) <= MaxCached
  BY DEF KeysInv, KeysTypeOK
<1> DEFINE E == [key : Tenants, value : Version]
           c == LruSet(activeVersionCache[p], t, v, MaxCached)
           g == LruGet(activeVersionCache[p], t)
<1>2. c \in Seq(E) /\ Len(c) <= MaxCached
  BY <1>1, LruSetBounded, KeysAssumption
<1>3. g \in Seq(E) /\ Len(g) <= MaxCached
  <2>1. \A x \in E : LruEntry(x.key, x.value) = x
    BY EntryOfParts
  <2>2. activeVersionCache[p] \in Seq(E)
    BY <1>1
  <2> HIDE DEF E
  <2>3. g \in Seq(E) /\ Len(g) = Len(activeVersionCache[p])
    BY <2>1, <2>2, LruGetKeeps
  <2> QED BY <1>1, <2>3
<1>4. PICK x \in Seq(E) : /\ Len(x) <= MaxCached
                          /\ activeVersionCache' = [activeVersionCache EXCEPT ![p] = x]
  BY <1>2, <1>3 DEF RememberActive, TouchActive
<1> HIDE DEF c, g, E
<1>5. activeVersionCache' \in [Procs -> Seq(E)]
  BY <1>1, <1>4 DEF E
<1>6. \A q \in Procs : activeVersionCache'[q] = IF q = p THEN x ELSE activeVersionCache[q]
  BY <1>1, <1>4
<1> QED BY <1>1, <1>4, <1>5, <1>6 DEF ActiveCacheOK, E

\* A cache stays coherent when no entry is added.
LEMMA StillCoherent ==
    ASSUME KeysInv, SafeKept,
           \A q \in Procs : Entries(dekCache'[q]) \subseteq Entries(dekCache[q])
    PROVE  Coherent'
<1> SUFFICES ASSUME NEW p \in Procs, NEW e \in Entries(dekCache[p])
             PROVE  Safe(e.key[1], e.key[2], e.value)'
  BY DEF Coherent
<1>1. Safe(e.key[1], e.key[2], e.value)
  BY DEF KeysInv, Coherent
<1>2. dekCache[p] \in Seq([key : DekKey, value : Dek])
  BY DEF KeysInv, KeysTypeOK
<1>3. e \in [key : DekKey, value : Dek]
  <2>1. PICK i \in DOMAIN dekCache[p] : e = dekCache[p][i]
    BY DEF Entries
  <2> QED BY <1>2, <2>1, EntryIsOne
<1>4. e.key[1] \in Tenants /\ e.key[2] \in Version /\ e.value \in Dek
  BY <1>3 DEF DekKey
<1> QED BY <1>1, <1>4 DEF SafeKept

\* It stays so when the DEK of a row is added.
LEMMA StillCoherentWith ==
    ASSUME KeysInv, SafeKept, NEW t \in Tenants, NEW v \in Version, NEW d \in Dek,
           Safe(t, v, d)',
           \A q \in Procs : Entries(dekCache'[q]) \subseteq
                                Entries(dekCache[q]) \cup {LruEntry(<<t, v>>, d)}
    PROVE  Coherent'
<1> SUFFICES ASSUME NEW p \in Procs, NEW e \in Entries(dekCache'[p])
             PROVE  Safe(e.key[1], e.key[2], e.value)'
  BY DEF Coherent
<1>1. CASE e = LruEntry(<<t, v>>, d)
  BY <1>1 DEF LruEntry
<1>2. CASE e \in Entries(dekCache[p])
  <2>1. Safe(e.key[1], e.key[2], e.value)
    BY <1>2 DEF KeysInv, Coherent
  <2>2. dekCache[p] \in Seq([key : DekKey, value : Dek])
    BY DEF KeysInv, KeysTypeOK
  <2>3. e \in [key : DekKey, value : Dek]
    <3>1. PICK i \in DOMAIN dekCache[p] : e = dekCache[p][i]
      BY <1>2 DEF Entries
    <3> QED BY <2>2, <3>1, EntryIsOne
  <2>4. e.key[1] \in Tenants /\ e.key[2] \in Version /\ e.value \in Dek
    BY <2>3 DEF DekKey
  <2> QED BY <2>1, <2>4 DEF SafeKept
<1> QED BY <1>1, <1>2

\* Ciphertexts stay recoverable when what is sealed is.
LEMMA StillRecoverable ==
    ASSUME KeysInv, SafeKept, NEW t \in Tenants, NEW v \in Version, NEW d \in Dek,
           Safe(t, v, d)', written' = written \cup Sealed(t, v, d)
    PROVE  written' \subseteq Ciphertext /\ RecoverableOnceCommitted'
<1>1. \A c \in written : /\ c \in Ciphertext
                         /\ Safe(c.tenant, c.version, c.dek)
  BY DEF KeysInv, KeysTypeOK, RecoverableOnceCommitted, Safe
<1>2. \A c \in Sealed(t, v, d) : c = Cipher(t, v, d)
  BY DEF Sealed
<1>3. /\ Cipher(t, v, d) \in Ciphertext
      /\ Cipher(t, v, d).tenant = t
      /\ Cipher(t, v, d).version = v
      /\ Cipher(t, v, d).dek = d
  BY DEF Cipher, Ciphertext
<1>4. \A c \in Ciphertext : c.tenant \in Tenants /\ c.version \in Version /\ c.dek \in Dek
  BY DEF Ciphertext
<1>5. \A c \in written' : c \in Ciphertext /\ Safe(c.tenant, c.version, c.dek)'
  <2> SUFFICES ASSUME NEW c \in written'
               PROVE  c \in Ciphertext /\ Safe(c.tenant, c.version, c.dek)'
    OBVIOUS
  <2>1. CASE c \in written
    BY <1>1, <1>4, <2>1 DEF SafeKept
  <2>2. CASE c = Cipher(t, v, d)
    BY <1>3, <2>2
  <2> QED BY <1>2, <2>1, <2>2
<1> QED BY <1>5 DEF RecoverableOnceCommitted, Safe

\* They stay so when nothing is sealed.
LEMMA StillRecoverableIdle ==
    ASSUME KeysInv, SafeKept, UNCHANGED written
    PROVE  written' \subseteq Ciphertext /\ RecoverableOnceCommitted'
<1>1. \A c \in written : /\ c \in Ciphertext
                         /\ Safe(c.tenant, c.version, c.dek)
  BY DEF KeysInv, KeysTypeOK, RecoverableOnceCommitted, Safe
<1>2. \A c \in Ciphertext : c.tenant \in Tenants /\ c.version \in Version /\ c.dek \in Dek
  BY DEF Ciphertext
<1>3. \A c \in written' : c \in Ciphertext /\ Safe(c.tenant, c.version, c.dek)'
  BY <1>1, <1>2 DEF SafeKept
<1> QED BY <1>3 DEF RecoverableOnceCommitted, Safe

-----------------------------------------------------------------------------
(* The initial state.                                                      *)

LEMMA KeysInitInv == KeysInit => KeysInv
<1> SUFFICES ASSUME KeysInit PROVE KeysInv
  OBVIOUS
<1>1. NoCall \in Call /\ CallOK(NoCall) /\ NoCall.pc = "idle"
  BY KeysAssumption DEF NoCall, Call, CallPC, CallOK
<1>2. \A p \in Procs : dekCache[p] = <<>> /\ activeVersionCache[p] = <<>>
  BY DEF KeysInit, LruEmpty
<1>3. \A r \in Slots : call[r] = NoCall
  BY DEF KeysInit
<1>4. KeysTypeOK
  <2>1. DekCacheOK
    BY KeysAssumption DEF KeysInit, LruEmpty, DekCacheOK
  <2>2. ActiveCacheOK
    BY KeysAssumption DEF KeysInit, LruEmpty, ActiveCacheOK
  <2>3. /\ status \in [Tenants -> [Version -> {"none", "active", "retired"}]]
        /\ dek \in [Tenants -> [Version -> 0..MaxDeks]]
        /\ generated \in 0..MaxDeks
    BY KeysAssumption DEF KeysInit
  <2>4. call \in [Slots -> Call]
    BY <1>1 DEF KeysInit
  <2>5. written \subseteq Ciphertext /\ lost \subseteq Dek
    BY DEF KeysInit
  <2> QED BY <2>1, <2>2, <2>3, <2>4, <2>5 DEF KeysTypeOK, DekCacheOK, ActiveCacheOK
<1>5. TableOK
  <2>1. \A t \in Tenants, v \in Version : status[t][v] = "none"
    BY DEF KeysInit
  <2>2. \A t \in Tenants : Shape(t, 0)
    BY <2>1 DEF Shape, Version
  <2> QED BY <2>1, <2>2, KeysAssumption DEF TableOK
<1>6. CallsOK
  BY <1>1, <1>3 DEF CallsOK
<1>7. CommitsOK
  BY <1>1, <1>3 DEF CommitsOK, At
<1>8. Coherent
  BY <1>2 DEF Coherent, Entries
<1>9. RecoverableOnceCommitted
  BY DEF KeysInit, RecoverableOnceCommitted
<1> QED BY <1>4, <1>5, <1>6, <1>7, <1>8, <1>9 DEF KeysInv

-----------------------------------------------------------------------------
(* The steps, one lemma for each family of them.                           *)

\* What the lemmas above say of the calls and the table after a step.
CallsKept ==
    /\ call' \in [Slots -> Call]
    /\ TableOK' /\ CallsOK' /\ CommitsOK' /\ SafeKept

\* A call that ends says nothing of the table.
LEMMA NoCallOK ==
    NoCall \in Call /\ CallOK(NoCall) /\ NoCall.pc = "idle" /\ NoCall.version = 0
BY KeysAssumption DEF NoCall, Call, CallPC, CallOK

LEMMA ReturnKept ==
    ASSUME KeysInv, NEW r \in Slots, ~At(r, "commit"), Return(r),
           UNCHANGED <<status, dek, lost>>
    PROVE  CallsKept
<1>1. Become(r, NoCall)
  BY DEF Return
<1>2. NoCall \in Call /\ CallOK(NoCall) /\ NoCall.pc # "commit"
  BY NoCallOK
<1> QED BY <1>1, <1>2, QuietStep DEF CallsKept

\* The invariant after a step that inserts no row.
LEMMA QuietInv ==
    ASSUME KeysInv, CallsKept, UNCHANGED <<tableVars, lost>>, DekCacheOK', ActiveCacheOK',
           Coherent', written' \subseteq Ciphertext, RecoverableOnceCommitted'
    PROVE  KeysInv'
<1>1. KeysTypeOK'
  BY DEF KeysInv, KeysTypeOK, DekCacheOK, ActiveCacheOK, CallsKept, tableVars
<1> QED BY <1>1 DEF KeysInv, CallsKept

\* Nothing but the call has changed.
LEMMA CallOnlyInv ==
    ASSUME KeysInv, CallsKept, UNCHANGED <<tableVars, cacheVars, written, lost>>
    PROVE  KeysInv'
<1>1. DekCacheOK' /\ ActiveCacheOK'
  BY DEF KeysInv, KeysTypeOK, DekCacheOK, ActiveCacheOK, cacheVars
<1>2. Coherent'
  <2>1. \A q \in Procs : Entries(dekCache'[q]) \subseteq Entries(dekCache[q])
    BY DEF cacheVars
  <2> QED BY <2>1, StillCoherent DEF CallsKept
<1>3. written' \subseteq Ciphertext /\ RecoverableOnceCommitted'
  BY StillRecoverableIdle DEF CallsKept
<1> QED BY <1>1, <1>2, <1>3, QuietInv

\* encryptEmail with both caches warm.
LEMMA EncryptWarmInv ==
    ASSUME KeysInv, NEW r \in Slots, NEW p \in Procs, NEW t \in Tenants, EncryptWarm(r, p, t)
    PROVE  KeysInv'
<1>1. /\ activeVersionCache[p] \in Seq([key : Tenants, value : Version])
      /\ dekCache[p] \in Seq([key : DekKey, value : Dek])
  BY DEF KeysInv, KeysTypeOK
<1>2. PICK v \in Version : v = LruValue(activeVersionCache[p], t)
  BY <1>1, LruValueFound DEF EncryptWarm, Warm
<1>3. PICK d \in Dek : /\ d = LruValue(dekCache[p], <<t, v>>)
                       /\ LruEntry(<<t, v>>, d) \in Entries(dekCache[p])
  BY <1>1, <1>2, LruValueFound DEF EncryptWarm, Warm
<1>4. /\ TouchDek(p, t, v) /\ TouchActive(p, t)
      /\ written' = written \cup Sealed(t, v, d)
      /\ UNCHANGED <<tableVars, call, lost>>
  BY <1>2, <1>3 DEF EncryptWarm
<1>5. CallsKept
  BY <1>4, IdleStep DEF CallsKept, tableVars
<1>6. DekCacheOK' /\ \A q \in Procs : Entries(dekCache'[q]) \subseteq Entries(dekCache[q])
  BY <1>4, DekTouched
<1>7. ActiveCacheOK'
  BY <1>2, <1>4, ActiveKept
<1>8. Coherent'
  BY <1>5, <1>6, StillCoherent DEF CallsKept
<1>9. Safe(t, v, d)'
  <2>1. Safe(t, v, d)
    <3>1. /\ LruEntry(<<t, v>>, d).key[1] = t
          /\ LruEntry(<<t, v>>, d).key[2] = v
          /\ LruEntry(<<t, v>>, d).value = d
      BY DEF LruEntry
    <3> QED BY <1>3, <3>1 DEF KeysInv, Coherent
  <2> QED BY <1>2, <1>3, <1>5, <2>1 DEF CallsKept, SafeKept
<1>10. written' \subseteq Ciphertext /\ RecoverableOnceCommitted'
  BY <1>2, <1>3, <1>4, <1>5, <1>9, StillRecoverable DEF CallsKept
<1> QED BY <1>4, <1>5, <1>6, <1>7, <1>8, <1>10, QuietInv

\* A call starts: the caches may be reordered, nothing else is touched.
LEMMA StartInv ==
    ASSUME KeysInv, NEW r \in Slots, NEW p \in Procs, NEW t \in Tenants,
           EncryptCold(r, p, t) \/ StartRotate(r, p, t)
    PROVE  KeysInv'
<1> DEFINE x(pc) == [NoCall EXCEPT !.pc = pc, !.proc = p, !.tenant = t]
<1>1. \A pc \in {"find", "rotSelect"} :
         x(pc) \in Call /\ x(pc).pc # "commit" /\ CallOK(x(pc))
  <2> SUFFICES ASSUME NEW pc \in {"find", "rotSelect"}
               PROVE  x(pc) \in Call /\ x(pc).pc # "commit" /\ CallOK(x(pc))
    OBVIOUS
  <2>1. pc \in CallPC
    BY DEF CallPC
  <2>2. /\ x(pc) \in Call
        /\ x(pc).pc = pc /\ x(pc).proc = p /\ x(pc).tenant = t /\ x(pc).version = 0
    BY <2>1, NoCallOK DEF Call
  <2> HIDE DEF x
  <2> QED BY <2>2 DEF CallOK
<1>2. At(r, "idle") /\ ~At(r, "commit") /\ UNCHANGED <<tableVars, dekCache, written, lost>>
  BY DEF EncryptCold, StartRotate, At, cacheVars
<1>3. \E pc \in {"find", "rotSelect"} : Become(r, x(pc))
  BY DEF EncryptCold, StartRotate
<1> HIDE DEF x
<1>4. CallsKept
  BY <1>1, <1>2, <1>3, QuietStep DEF CallsKept, tableVars
<1>5. ActiveCacheOK'
  <2>1. CASE TouchActive(p, t)
    <3>1. 1 \in Version
      BY KeysAssumption DEF Version
    <3> QED BY <2>1, <3>1, ActiveKept
  <2>2. CASE UNCHANGED activeVersionCache
    BY <2>2 DEF KeysInv, KeysTypeOK, ActiveCacheOK
  <2> QED BY <2>1, <2>2 DEF EncryptCold, StartRotate, cacheVars
<1>6. DekCacheOK' /\ Coherent'
  <2>1. \A q \in Procs : Entries(dekCache'[q]) \subseteq Entries(dekCache[q])
    BY <1>2
  <2>2. DekCacheOK'
    BY <1>2 DEF KeysInv, KeysTypeOK, DekCacheOK
  <2> QED BY <1>4, <2>1, <2>2, StillCoherent DEF CallsKept
<1>7. written' \subseteq Ciphertext /\ RecoverableOnceCommitted'
  BY <1>2, <1>4, StillRecoverableIdle DEF CallsKept
<1> QED BY <1>2, <1>4, <1>5, <1>6, <1>7, QuietInv

\* decryptEmail starts, or ends at once on a cached DEK.
LEMMA DecryptInv ==
    ASSUME KeysInv, NEW r \in Slots, NEW p \in Procs, NEW c \in written,
           DecryptCached(r, p, c) \/ DecryptUncached(r, p, c)
    PROVE  KeysInv'
<1>1. c \in Ciphertext
  BY DEF KeysInv, KeysTypeOK
<1>2. CASE DecryptCached(r, p, c)
  <2>1. TouchDek(p, c.tenant, c.version)
        /\ UNCHANGED <<tableVars, activeVersionCache, call, written, lost>>
    BY <1>2 DEF DecryptCached
  <2>2. CallsKept
    BY <2>1, IdleStep DEF CallsKept, tableVars
  <2>3. DekCacheOK' /\ \A q \in Procs : Entries(dekCache'[q]) \subseteq Entries(dekCache[q])
    BY <2>1, DekTouched
  <2>4. ActiveCacheOK'
    BY <2>1 DEF KeysInv, KeysTypeOK, ActiveCacheOK
  <2>5. Coherent'
    BY <2>2, <2>3, StillCoherent DEF CallsKept
  <2>6. written' \subseteq Ciphertext /\ RecoverableOnceCommitted'
    BY <2>1, <2>2, StillRecoverableIdle DEF CallsKept
  <2> QED BY <2>1, <2>2, <2>3, <2>4, <2>5, <2>6, QuietInv
<1>3. CASE DecryptUncached(r, p, c)
  <2> DEFINE x == [NoCall EXCEPT !.pc = "read", !.proc = p, !.tenant = c.tenant,
                                 !.version = c.version]
  <2>1. x \in Call /\ x.pc # "commit" /\ CallOK(x)
    <3>1. "read" \in CallPC
      BY DEF CallPC
    <3>2. c.tenant \in Tenants /\ c.version \in Version /\ c.version \in 0..MaxDeks
      BY <1>1 DEF Ciphertext, Version
    <3>3. /\ x \in Call
          /\ x.pc = "read" /\ x.proc = p /\ x.tenant = c.tenant /\ x.version = c.version
      BY <3>1, <3>2, NoCallOK DEF Call
    <3> HIDE DEF x
    <3> QED BY <3>2, <3>3 DEF CallOK
  <2>2. Become(r, x) /\ ~At(r, "commit") /\ UNCHANGED <<tableVars, cacheVars, written, lost>>
    BY <1>3 DEF DecryptUncached, At
  <2> HIDE DEF x
  <2>3. CallsKept
    BY <2>1, <2>2, QuietStep DEF CallsKept, tableVars
  <2> QED BY <2>2, <2>3, CallOnlyInv
<1> QED BY <1>2, <1>3

\* A call reads the table, waits for a row's lock, or gives up: its own state
\* is all that changes.
LEMMA ReadInv ==
    ASSUME KeysInv, NEW r \in Slots,
           FindActive(r) \/ RotateSelect(r) \/ RotateRetire(r) \/ RotateConflict(r)
    PROVE  KeysInv'
<1>1. call[r] \in Call /\ CallOK(call[r]) /\ ~At(r, "commit")
      /\ UNCHANGED <<tableVars, cacheVars, written, lost>>
  BY DEF KeysInv, KeysTypeOK, CallsOK, FindActive, RotateSelect, RotateRetire,
         RotateConflict, At
<1>2. {"provision", "rotInsert", "rotRetire", "found"} \subseteq CallPC
  BY DEF CallPC
<1>3. Version \subseteq 0..MaxDeks
  BY DEF Version
<1>4. \E x \in Call : x.pc # "commit" /\ CallOK(x) /\ Become(r, x)
  <2>1. CASE Return(r)
    BY <2>1, NoCallOK DEF Return
  <2>2. CASE \E v \in ActiveVersions(call[r].tenant) :
               /\ call[r].pc \in {"find", "findAgain"}
               /\ Become(r, [call[r] EXCEPT !.pc = "found", !.version = v,
                                            !.dek = dek[call[r].tenant][v]])
    <3>1. PICK v \in ActiveVersions(call[r].tenant) :
               /\ call[r].pc \in {"find", "findAgain"}
               /\ Become(r, [call[r] EXCEPT !.pc = "found", !.version = v,
                                            !.dek = dek[call[r].tenant][v]])
      BY <2>2
    <3> DEFINE d == dek[call[r].tenant][v]
               x == [call[r] EXCEPT !.pc = "found", !.version = v, !.dek = d]
    <3>2. /\ v \in Version /\ status[call[r].tenant][v] = "active"
          /\ call[r].tenant \in Tenants /\ call[r].proc \in Procs
      BY <1>1, <3>1 DEF ActiveVersions, CallOK
    <3>3. d \in 0..MaxDeks
      BY <3>2 DEF KeysInv, KeysTypeOK
    <3>4. x \in Call
      BY <1>1, <1>2, <1>3, <3>2, <3>3 DEF Call
    <3>5. /\ x.pc = "found" /\ x.version = v /\ x.dek = d
          /\ x.tenant = call[r].tenant /\ x.proc = call[r].proc
      BY <1>1 DEF Call
    <3> HIDE DEF x
    <3>6. CallOK(x)
      BY <3>2, <3>5 DEF CallOK, RowHas
    <3> QED BY <3>1, <3>4, <3>5, <3>6 DEF x
  <2>3. CASE At(r, "find") /\ Become(r, [call[r] EXCEPT !.pc = "provision"])
    <3> DEFINE x == [call[r] EXCEPT !.pc = "provision"]
    <3>1. x \in Call /\ x.pc = "provision" /\ x.tenant = call[r].tenant
          /\ x.proc = call[r].proc
      BY <1>1, <1>2 DEF Call
    <3> HIDE DEF x
    <3>2. CallOK(x)
      BY <1>1, <2>3, <3>1 DEF CallOK, At
    <3> QED BY <2>3, <3>1, <3>2 DEF x
  <2>4. CASE \E v \in ActiveVersions(call[r].tenant) :
               /\ At(r, "rotSelect")
               /\ Become(r, [call[r] EXCEPT !.pc = "rotRetire", !.version = v])
    <3>1. PICK v \in ActiveVersions(call[r].tenant) :
               /\ At(r, "rotSelect")
               /\ Become(r, [call[r] EXCEPT !.pc = "rotRetire", !.version = v])
      BY <2>4
    <3> DEFINE x == [call[r] EXCEPT !.pc = "rotRetire", !.version = v]
    <3>2. v \in Version /\ status[call[r].tenant][v] = "active"
      BY <3>1 DEF ActiveVersions
    <3>3. x \in Call /\ x.pc = "rotRetire" /\ x.version = v /\ x.tenant = call[r].tenant
          /\ x.proc = call[r].proc
      BY <1>1, <1>2, <1>3, <3>2 DEF Call
    <3> HIDE DEF x
    <3>4. CallOK(x)
      BY <1>1, <3>1, <3>2, <3>3 DEF CallOK, At
    <3> QED BY <3>1, <3>3, <3>4 DEF x
  <2>5. CASE /\ At(r, "rotSelect") \/ At(r, "rotRetire")
             /\ Become(r, [call[r] EXCEPT !.pc = "rotInsert"])
    <3> DEFINE x == [call[r] EXCEPT !.pc = "rotInsert"]
    <3>1. x \in Call /\ x.pc = "rotInsert" /\ x.version = call[r].version
          /\ x.tenant = call[r].tenant /\ x.proc = call[r].proc
      BY <1>1, <1>2 DEF Call
    <3> HIDE DEF x
    <3>2. CallOK(x)
      BY <1>1, <2>5, <3>1 DEF CallOK, At
    <3> QED BY <2>5, <3>1, <3>2 DEF x
  <2> QED BY <2>1, <2>2, <2>3, <2>4, <2>5
          DEF FindActive, RotateSelect, RotateRetire, RotateConflict
<1>5. CallsKept
  BY <1>1, <1>4, QuietStep DEF CallsKept, tableVars
<1> QED BY <1>1, <1>5, CallOnlyInv

\* unwrapAndCache of a row's DEK: the DEK that is used is a safe one, and the
\* cache stays within its bound and coherent.
LEMMA UnwrapKept ==
    ASSUME KeysInv, SafeKept, NEW p \in Procs, NEW t \in Tenants, NEW v \in Version,
           NEW d \in Dek, RowHas(t, v, d), UnwrapAndCache(p, t, v, d)
    PROVE  /\ DekCacheOK' /\ Coherent'
           /\ \E e \in Dek : e = Unwrapped(p, t, v, d) /\ Safe(t, v, e)'
<1>1. Safe(t, v, d)
  BY DEF RowHas, Safe, Backed
<1>2. CASE LruHas(dekCache[p], <<t, v>>)
  <2>1. dekCache[p] \in Seq([key : DekKey, value : Dek])
    BY DEF KeysInv, KeysTypeOK
  <2>2. PICK e \in Dek : /\ e = LruValue(dekCache[p], <<t, v>>)
                         /\ LruEntry(<<t, v>>, e) \in Entries(dekCache[p])
    BY <1>2, <2>1, LruValueFound
  <2>3. /\ LruEntry(<<t, v>>, e).key[1] = t
        /\ LruEntry(<<t, v>>, e).key[2] = v
        /\ LruEntry(<<t, v>>, e).value = e
    BY DEF LruEntry
  <2>4. Safe(t, v, e)
    BY <2>2, <2>3 DEF KeysInv, Coherent
  <2>5. Safe(t, v, e)'
    BY <2>4 DEF SafeKept
  <2>6. TouchDek(p, t, v) /\ e = Unwrapped(p, t, v, d)
    BY <1>2, <2>2 DEF UnwrapAndCache, Unwrapped
  <2>7. DekCacheOK' /\ \A q \in Procs : Entries(dekCache'[q]) \subseteq Entries(dekCache[q])
    BY <2>6, DekTouched
  <2> QED BY <2>5, <2>6, <2>7, StillCoherent
<1>3. CASE ~LruHas(dekCache[p], <<t, v>>)
  <2>1. RememberDek(p, t, v, d) /\ d = Unwrapped(p, t, v, d)
    BY <1>3 DEF UnwrapAndCache, Unwrapped
  <2>2. Safe(t, v, d)'
    BY <1>1 DEF SafeKept
  <2>3. /\ DekCacheOK'
        /\ \A q \in Procs : Entries(dekCache'[q]) \subseteq
                                Entries(dekCache[q]) \cup {LruEntry(<<t, v>>, d)}
    BY <2>1, DekRemembered
  <2> QED BY <2>1, <2>2, <2>3, StillCoherentWith
<1> QED BY <1>2, <1>3

\* The reply to findActiveRow.
LEMMA FoundInv ==
    ASSUME KeysInv, NEW r \in Slots, Found(r)
    PROVE  KeysInv'
<1> DEFINE c == call[r]
<1>1. c \in Call /\ CallOK(c) /\ c.pc = "found"
  BY DEF KeysInv, KeysTypeOK, CallsOK, Found, At
<1>2. PICK p \in Procs, t \in Tenants, v \in Version, d \in Dek :
         /\ p = c.proc /\ t = c.tenant /\ v = c.version /\ d = c.dek
         /\ RowHas(t, v, d)
  BY <1>1 DEF CallOK, RowHas, KeysInv, TableOK
<1>3. /\ RememberActive(p, t, v) /\ UnwrapAndCache(p, t, v, d) /\ Return(r)
      /\ written' = written \cup Sealed(t, v, Unwrapped(p, t, v, d))
      /\ UNCHANGED <<tableVars, lost>>
  BY <1>2 DEF Found
<1>4. CallsKept
  BY <1>1, <1>3, ReturnKept DEF At, tableVars
<1>5. ActiveCacheOK'
  BY <1>3, ActiveKept
<1>6. SafeKept
  BY <1>4 DEF CallsKept
<1>7. /\ DekCacheOK' /\ Coherent'
      /\ \E e \in Dek : e = Unwrapped(p, t, v, d) /\ Safe(t, v, e)'
  BY <1>2, <1>3, <1>6, UnwrapKept
<1>8. written' \subseteq Ciphertext /\ RecoverableOnceCommitted'
  <2>1. PICK e \in Dek : e = Unwrapped(p, t, v, d) /\ Safe(t, v, e)'
    BY <1>7
  <2>2. written' = written \cup Sealed(t, v, e)
    BY <1>3, <2>1
  <2> QED BY <1>6, <2>1, <2>2, StillRecoverable
<1> QED BY <1>3, <1>4, <1>5, <1>7, <1>8, QuietInv

\* The reply to the INSERT of provisionActiveKey.
LEMMA ProvisionedInv ==
    ASSUME KeysInv, NEW r \in Slots, Provisioned(r)
    PROVE  KeysInv'
<1> DEFINE c == call[r]
<1>1. c \in Call /\ CallOK(c) /\ c.pc = "provisioned"
  BY DEF KeysInv, KeysTypeOK, CallsOK, Provisioned, At
<1>2. 1 \in Version
  BY KeysAssumption DEF Version
<1>3. PICK p \in Procs, t \in Tenants, d \in Dek :
         p = c.proc /\ t = c.tenant /\ d = c.dek /\ RowHas(t, 1, d)
  BY <1>1, <1>2 DEF CallOK, RowHas, KeysInv, TableOK
<1>4. /\ RememberDek(p, t, 1, d) /\ RememberActive(p, t, 1) /\ Return(r)
      /\ written' = written \cup Sealed(t, 1, d)
      /\ UNCHANGED <<tableVars, lost>>
  BY <1>3 DEF Provisioned
<1>5. CallsKept
  BY <1>1, <1>4, ReturnKept DEF At, tableVars
<1>6. SafeKept
  BY <1>5 DEF CallsKept
<1>7. Safe(t, 1, d)'
  <2>1. Safe(t, 1, d)
    BY <1>2, <1>3 DEF RowHas, Safe, Backed
  <2> QED BY <1>2, <1>6, <2>1 DEF SafeKept
<1>8. ActiveCacheOK'
  BY <1>2, <1>4, ActiveKept
<1>9. DekCacheOK' /\ Coherent'
  <2>1. /\ DekCacheOK'
        /\ \A q \in Procs : Entries(dekCache'[q]) \subseteq
                                Entries(dekCache[q]) \cup {LruEntry(<<t, 1>>, d)}
    BY <1>2, <1>4, DekRemembered
  <2> QED BY <1>2, <1>6, <1>7, <2>1, StillCoherentWith
<1>10. written' \subseteq Ciphertext /\ RecoverableOnceCommitted'
  BY <1>2, <1>4, <1>6, <1>7, StillRecoverable
<1> QED BY <1>4, <1>5, <1>8, <1>9, <1>10, QuietInv

\* getDekForVersion on a miss.
LEMMA ReadVersionInv ==
    ASSUME KeysInv, NEW r \in Slots, ReadVersion(r)
    PROVE  KeysInv'
<1> DEFINE c == call[r]
<1>1. c \in Call /\ CallOK(c) /\ c.pc = "read"
  BY DEF KeysInv, KeysTypeOK, CallsOK, ReadVersion, At
<1>2. PICK p \in Procs, t \in Tenants, v \in Version :
         p = c.proc /\ t = c.tenant /\ v = c.version
  BY <1>1 DEF CallOK
<1>3. Return(r) /\ UNCHANGED <<tableVars, activeVersionCache, written, lost>>
  BY DEF ReadVersion
<1>4. CallsKept
  BY <1>1, <1>3, ReturnKept DEF At, tableVars
<1>5. SafeKept
  BY <1>4 DEF CallsKept
<1>6. DekCacheOK' /\ Coherent'
  <2>1. CASE status[t][v] # "none"
    <3>1. PICK d \in Dek : d = dek[t][v]
      BY <2>1 DEF KeysInv, TableOK
    <3>2. RowHas(t, v, d) /\ UnwrapAndCache(p, t, v, d)
      BY <1>2, <2>1, <3>1 DEF ReadVersion, RowHas
    <3> QED BY <1>5, <3>2, UnwrapKept
  <2>2. CASE status[t][v] = "none"
    <3>1. UNCHANGED dekCache
      BY <1>2, <2>2 DEF ReadVersion
    <3>2. DekCacheOK'
      BY <3>1 DEF KeysInv, KeysTypeOK, DekCacheOK
    <3>3. \A q \in Procs : Entries(dekCache'[q]) \subseteq Entries(dekCache[q])
      BY <3>1
    <3> QED BY <1>5, <3>2, <3>3, StillCoherent
  <2> QED BY <2>1, <2>2
<1>7. ActiveCacheOK'
  BY <1>3 DEF KeysInv, KeysTypeOK, ActiveCacheOK
<1>8. written' \subseteq Ciphertext /\ RecoverableOnceCommitted'
  BY <1>3, <1>5, StillRecoverableIdle
<1> QED BY <1>3, <1>4, <1>6, <1>7, <1>8, QuietInv

-----------------------------------------------------------------------------
(* The steps that write the table, or are about to.                        *)

\* Row (t, n + 1), where n is the newest version, is added with DEK d; every
\* other row keeps its DEK, and no commit of t is left.
RowAdded(t, n, d) ==
    /\ n + 1 \in Version /\ d \in Dek /\ Shape(t, n)
    /\ Shape(t, n + 1)'
    /\ dek' = [dek EXCEPT ![t][n + 1] = d]
    /\ status' \in [Tenants -> [Version -> {"none", "active", "retired"}]]
    /\ \A u \in Tenants \ {t} : status'[u] = status[u]

\* Rows that are there keep their DEK when a row is added.
LEMMA RowsKept ==
    ASSUME KeysInv, NEW t \in Tenants, NEW n \in 0..MaxDeks, NEW d, RowAdded(t, n, d)
    PROVE  /\ dek' \in [Tenants -> [Version -> 0..MaxDeks]]
           /\ TableOK'
           /\ RowHas(t, n + 1, d)'
           /\ \A u \in Tenants, v \in Version :
                 status[u][v] # "none" => status'[u][v] # "none" /\ dek'[u][v] = dek[u][v]
           /\ \A u \in Tenants \ {t} : \A m : Shape(u, m)' <=> Shape(u, m)
<1>1. /\ status \in [Tenants -> [Version -> {"none", "active", "retired"}]]
      /\ dek \in [Tenants -> [Version -> 0..MaxDeks]]
  BY DEF KeysInv, KeysTypeOK
<1>2. d \in 0..MaxDeks /\ n + 1 \in 0..MaxDeks /\ n + 1 \in Version
  BY DEF RowAdded, Dek, Version
<1>3. dek' \in [Tenants -> [Version -> 0..MaxDeks]]
  BY <1>1, <1>2 DEF RowAdded
<1>4. /\ \A u \in Tenants \ {t} : dek'[u] = dek[u]
      /\ \A v \in Version : dek'[t][v] = IF v = n + 1 THEN d ELSE dek[t][v]
  BY <1>1, <1>2 DEF RowAdded
<1>5. \A v \in Version : status[t][v] # "none" => v <= n
  BY DEF RowAdded, Shape, Version
<1>6. \A v \in Version : status'[t][v] # "none" <=> v <= n + 1
  BY <1>2 DEF RowAdded, Shape, Version
<1>7. RowHas(t, n + 1, d)'
  BY <1>2, <1>4, <1>6 DEF RowHas
<1>8. \A u \in Tenants, v \in Version :
         status[u][v] # "none" => status'[u][v] # "none" /\ dek'[u][v] = dek[u][v]
  <2> SUFFICES ASSUME NEW u \in Tenants, NEW v \in Version, status[u][v] # "none"
               PROVE  status'[u][v] # "none" /\ dek'[u][v] = dek[u][v]
    OBVIOUS
  <2>1. CASE u = t
    <3>1. v <= n /\ v # n + 1 /\ v <= n + 1
      BY <1>5, <2>1 DEF Version
    <3> QED BY <1>4, <1>6, <2>1, <3>1
  <2>2. CASE u # t
    BY <1>4, <2>2 DEF RowAdded
  <2> QED BY <2>1, <2>2
<1>9. \A u \in Tenants \ {t} : \A m : Shape(u, m)' <=> Shape(u, m)
  BY DEF Shape, RowAdded
<1>10. TableOK'
  <2> SUFFICES ASSUME NEW u \in Tenants
               PROVE  /\ \E m \in 0..MaxDeks : Shape(u, m)'
                      /\ \A v \in Version : status'[u][v] # "none" => dek'[u][v] \in Dek
    BY DEF TableOK
  <2>1. CASE u = t
    <3>1. \E m \in 0..MaxDeks : Shape(u, m)'
      BY <1>2, <2>1 DEF RowAdded
    <3>2. ASSUME NEW v \in Version, status'[u][v] # "none" PROVE dek'[u][v] \in Dek
      <4>1. CASE v = n + 1
        BY <1>4, <2>1, <4>1 DEF RowAdded
      <4>2. CASE v # n + 1
        <5>1. v <= n
          BY <1>6, <2>1, <3>2, <4>2 DEF Version
        <5>2. status[t][v] # "none"
          BY <5>1 DEF RowAdded, Shape, Version
        <5>3. dek[t][v] \in Dek
          BY <5>2 DEF KeysInv, TableOK
        <5> QED BY <1>4, <2>1, <4>2, <5>3
      <4> QED BY <4>1, <4>2
    <3> QED BY <3>1, <3>2
  <2>2. CASE u # t
    <3>1. status'[u] = status[u] /\ dek'[u] = dek[u]
      BY <1>4, <2>2 DEF RowAdded
    <3>2. \E m \in 0..MaxDeks : Shape(u, m)
      BY DEF KeysInv, TableOK
    <3> QED BY <1>9, <2>2, <3>1, <3>2 DEF KeysInv, TableOK
  <2> QED BY <2>1, <2>2
<1> QED BY <1>3, <1>7, <1>8, <1>9, <1>10

\* A row is added by call r, after which no transaction of its tenant is past
\* its INSERT: the invariant survives.
LEMMA RowAddedInv ==
    ASSUME KeysInv, NEW r \in Slots, NEW t \in Tenants, NEW n \in 0..MaxDeks, NEW d \in Dek,
           RowAdded(t, n, d), NEW x \in Call, x.pc # "commit", CallOK(x)', Become(r, x),
           At(r, "commit") => call[r].tenant = t /\ call[r].version = n /\ call[r].dek = d,
           \A q \in Slots \ {r} : At(q, "commit") => call[q].tenant # t,
           generated' \in 0..MaxDeks, UNCHANGED <<cacheVars, written, lost>>
    PROVE  KeysInv'
<1>1. call \in [Slots -> Call]
  BY DEF KeysInv, KeysTypeOK
<1>2. call' \in [Slots -> Call] /\ call'[r] = x /\ \A q \in Slots \ {r} : call'[q] = call[q]
  BY <1>1 DEF Become
<1>3. /\ dek' \in [Tenants -> [Version -> 0..MaxDeks]]
      /\ TableOK'
      /\ RowHas(t, n + 1, d)'
      /\ \A u \in Tenants, v \in Version :
            status[u][v] # "none" => status'[u][v] # "none" /\ dek'[u][v] = dek[u][v]
      /\ \A u \in Tenants \ {t} : \A m : Shape(u, m)' <=> Shape(u, m)
  BY RowsKept
<1>4. ASSUME NEW q \in Slots \ {r} PROVE CallOK(call[q])'
  <2> DEFINE c == call[q]
  <2>1. c \in Call /\ CallOK(c) /\ c.version \in 0..MaxDeks /\ call'[q] = c
    BY <1>1, <1>2 DEF KeysInv, CallsOK, Call
  <2>2. c.pc = "commit" => c.tenant # t
    BY DEF At
  <2>3. 1 \in Version /\ \A v \in 0..MaxDeks : v = 0 \/ v \in Version
    BY KeysAssumption DEF Version
  <2> HIDE DEF c
  <2>4. CallOK(c)'
    BY <1>3, <2>1, <2>2, <2>3 DEF CallOK, RowHas, c
  <2> QED BY <2>1, <2>4 DEF c
<1>5. CallsOK'
  BY <1>2, <1>4 DEF CallsOK
<1>6. CommitsOK'
  BY <1>2 DEF KeysInv, CommitsOK, At
<1>7. SafeKept
  <2> SUFFICES ASSUME NEW u \in Tenants, NEW v \in Version, NEW e \in Dek, Safe(u, v, e)
               PROVE  Safe(u, v, e)'
    BY DEF SafeKept
  <2>1. CASE e \in lost
    BY <2>1 DEF Safe
  <2>2. CASE status[u][v] # "none" /\ dek[u][v] = e
    BY <1>3, <2>2 DEF Safe, Backed
  <2>3. CASE \E q \in Slots : /\ At(q, "commit") /\ call[q].tenant = u
                              /\ NextVersion(q) = v /\ call[q].dek = e
    <3>1. PICK q \in Slots : /\ At(q, "commit") /\ call[q].tenant = u
                             /\ NextVersion(q) = v /\ call[q].dek = e
      BY <2>3
    <3>2. CASE q = r
      <4>1. u = t /\ v = n + 1 /\ e = d
        BY <3>1, <3>2 DEF NextVersion
      <4> QED BY <1>3, <4>1 DEF Safe, Backed, RowHas
    <3>3. CASE q # r
      BY <1>2, <3>1, <3>3 DEF Safe, Backed, At, NextVersion
    <3> QED BY <3>2, <3>3
  <2> QED BY <2>1, <2>2, <2>3 DEF Safe, Backed
<1>8. DekCacheOK' /\ ActiveCacheOK'
  BY DEF KeysInv, KeysTypeOK, DekCacheOK, ActiveCacheOK, cacheVars
<1>9. Coherent'
  <2>1. \A q \in Procs : Entries(dekCache'[q]) \subseteq Entries(dekCache[q])
    BY DEF cacheVars
  <2> QED BY <1>7, <2>1, StillCoherent
<1>10. written' \subseteq Ciphertext /\ RecoverableOnceCommitted'
  BY <1>7, StillRecoverableIdle
<1>11. KeysTypeOK'
  BY <1>2, <1>3, <1>8, <1>10
     DEF KeysInv, KeysTypeOK, DekCacheOK, ActiveCacheOK, RowAdded
<1> QED BY <1>3, <1>5, <1>6, <1>9, <1>10, <1>11 DEF KeysInv

\* provisionActiveKey, whoever wins.
LEMMA ProvisionInv ==
    ASSUME KeysInv, NEW r \in Slots, Provision(r)
    PROVE  KeysInv'
<1> DEFINE c == call[r]
<1>0. PICK t \in Tenants : t = c.tenant
  BY DEF KeysInv, CallsOK, CallOK, Provision, At
<1>1. c \in Call /\ CallOK(c) /\ c.pc = "provision" /\ c.proc \in Procs
  BY DEF KeysInv, KeysTypeOK, CallsOK, CallOK, Provision, At
<1>2. ~InsertPending(t, 1) /\ UNCHANGED <<cacheVars, written, lost>>
  BY <1>0 DEF Provision
<1>3. 1 \in Version /\ 0 \in 0..MaxDeks /\ {"provisioned", "findAgain"} \subseteq CallPC
  BY KeysAssumption DEF Version, CallPC
<1>4. CASE status[t][1] = "none"
  <2>1. PICK d \in Dek : d = generated + 1 /\ generated' = d
    BY <1>0, <1>4, KeysAssumption DEF Provision, KeysInv, KeysTypeOK, Dek
  <2>2. /\ status' = [status EXCEPT ![t][1] = "active"]
        /\ dek' = [dek EXCEPT ![t][1] = d]
        /\ Become(r, [c EXCEPT !.pc = "provisioned", !.dek = d])
    BY <1>0, <1>4, <2>1 DEF Provision
  <2>3. Shape(t, 0)
    BY <1>1, <1>3, <1>4, NewestIs
  <2>4. RowAdded(t, 0, d)
    <3>1. status \in [Tenants -> [Version -> {"none", "active", "retired"}]]
      BY DEF KeysInv, KeysTypeOK
    <3>2. status' \in [Tenants -> [Version -> {"none", "active", "retired"}]]
      BY <1>1, <1>3, <2>2, <3>1
    <3>3. /\ \A u \in Tenants \ {t} : status'[u] = status[u]
          /\ \A v \in Version : status'[t][v] = IF v = 1 THEN "active" ELSE status[t][v]
      BY <1>1, <1>3, <2>2, <3>1
    <3>4. \A v \in Version : status'[t][v] = IF v < 1 THEN "retired"
                                             ELSE IF v = 1 THEN "active" ELSE "none"
      BY <2>3, <3>3 DEF Shape, Version
    <3>5. Shape(t, 0 + 1)'
      BY <3>4 DEF Shape
    <3> QED BY <1>3, <2>2, <2>3, <3>2, <3>3, <3>5 DEF RowAdded
  <2>5. \A q \in Slots : At(q, "commit") => call[q].tenant # t
    <3> SUFFICES ASSUME NEW q \in Slots, At(q, "commit"), call[q].tenant = t PROVE FALSE
      OBVIOUS
    <3>1. /\ call[q] \in Call /\ call[q].version \in 0..MaxDeks
          /\ Shape(t, call[q].version)
      BY DEF KeysInv, KeysTypeOK, CallsOK, CallOK, Call, At
    <3>2. call[q].version = 0
      BY <1>1, <1>3, <2>3, <3>1, OneShape
    <3> QED BY <1>2, <3>2 DEF InsertPending
  <2> DEFINE x == [c EXCEPT !.pc = "provisioned", !.dek = d]
  <2>6. /\ x \in Call /\ x.pc = "provisioned" /\ x.dek = d
        /\ x.tenant = t /\ x.proc = c.proc
    <3>1. d \in 0..MaxDeks
      BY DEF Dek
    <3> QED BY <1>0, <1>1, <1>3, <3>1 DEF Call
  <2>7. PICK y \in Call : y = x
    BY <2>6
  <2> HIDE DEF x
  <2>8. CallOK(y)'
    <3>1. RowHas(t, 0 + 1, d)'
      BY <1>3, <2>4, RowsKept
    <3> QED BY <1>1, <2>6, <2>7, <3>1 DEF CallOK
  <2>9. generated' \in 0..MaxDeks
    BY <2>1 DEF Dek
  <2>10. ~At(r, "commit") /\ Become(r, y) /\ y.pc # "commit"
    BY <1>1, <2>2, <2>6, <2>7 DEF At, x
  <2> QED BY <1>2, <1>3, <2>4, <2>5, <2>8, <2>9, <2>10, RowAddedInv
<1>5. CASE status[t][1] # "none"
  <2> DEFINE x == [c EXCEPT !.pc = "findAgain"]
  <2>1. x \in Call /\ x.pc = "findAgain" /\ x.tenant = t /\ x.proc = c.proc
    BY <1>0, <1>1, <1>3 DEF Call
  <2>2. Become(r, x) /\ UNCHANGED tableVars /\ ~At(r, "commit")
    BY <1>0, <1>1, <1>5 DEF Provision, At
  <2> HIDE DEF x
  <2>3. CallOK(x)
    BY <1>1, <1>5, <2>1 DEF CallOK
  <2>4. CallsKept
    BY <1>2, <2>1, <2>2, <2>3, QuietStep DEF CallsKept, tableVars
  <2> QED BY <1>2, <2>2, <2>4, CallOnlyInv
<1> QED BY <1>4, <1>5

\* The INSERT of rotateTenantKey, with the cache writes that follow it.
LEMMA RotateInsertInv ==
    ASSUME KeysInv, NEW r \in Slots, RotateInsert(r)
    PROVE  KeysInv'
<1> DEFINE c == call[r]
<1>1. c \in Call /\ CallOK(c) /\ c.pc = "rotInsert"
  BY DEF KeysInv, KeysTypeOK, CallsOK, RotateInsert, At
<1>2. PICK p \in Procs, t \in Tenants, n \in 0..MaxDeks, v \in Version :
         p = c.proc /\ t = c.tenant /\ n = c.version /\ v = n + 1
  BY <1>1 DEF CallOK, Call, RotateInsert, NextVersion
<1>3. PICK d \in Dek : d = generated + 1 /\ generated' = d
  BY KeysAssumption DEF RotateInsert, KeysInv, KeysTypeOK, Dek
<1>4. /\ status[t][v] = "none" /\ ~InsertPending(t, v)
      /\ RememberDek(p, t, v, d) /\ RememberActive(p, t, v)
      /\ Become(r, [c EXCEPT !.pc = "commit", !.dek = d])
      /\ UNCHANGED <<status, dek, written, lost>>
  BY <1>2, <1>3 DEF RotateInsert, NextVersion
<1>5. Shape(t, n)
  BY <1>1, <1>2, <1>4, NewestIs DEF CallOK
<1>6. \A q \in Slots : At(q, "commit") => call[q].tenant # t
  <2> SUFFICES ASSUME NEW q \in Slots, At(q, "commit"), call[q].tenant = t PROVE FALSE
    OBVIOUS
  <2>1. /\ call[q].version \in 0..MaxDeks
        /\ Shape(t, call[q].version)
    BY DEF KeysInv, KeysTypeOK, CallsOK, CallOK, Call, At
  <2>2. call[q].version = n
    BY <1>5, <2>1, OneShape
  <2> QED BY <1>2, <1>4, <2>2 DEF InsertPending
<1> DEFINE x == [c EXCEPT !.pc = "commit", !.dek = d]
<1>7. "commit" \in CallPC
  BY DEF CallPC
<1>8. PICK y \in Call : y = x /\ y.pc = "commit" /\ y.dek = d /\ y.tenant = t
                        /\ y.proc = p /\ y.version = n
  <2>1. d \in 0..MaxDeks
    BY DEF Dek
  <2>2. /\ x \in Call /\ x.pc = "commit" /\ x.dek = d /\ x.tenant = t
        /\ x.proc = p /\ x.version = n
    BY <1>1, <1>2, <1>7, <2>1 DEF Call
  <2> HIDE DEF x
  <2> QED BY <2>2
<1>9. call \in [Slots -> Call]
  BY DEF KeysInv, KeysTypeOK
<1>10. call' \in [Slots -> Call] /\ call'[r] = y /\ \A q \in Slots \ {r} : call'[q] = call[q]
  BY <1>4, <1>8, <1>9 DEF Become
<1> HIDE DEF x
<1>11. \A u, m : Shape(u, m)' <=> Shape(u, m)
  BY <1>4 DEF Shape
<1>12. TableOK'
  BY <1>4, <1>11 DEF KeysInv, TableOK
<1>13. CallsOK'
  <2>1. \A z : CallOK(z)' <=> CallOK(z)
    BY <1>4, <1>11 DEF CallOK, RowHas
  <2>2. CallOK(y)
    BY <1>2, <1>5, <1>8 DEF CallOK
  <2> QED BY <1>10, <2>1, <2>2 DEF KeysInv, CallsOK
<1>14. CommitsOK'
  <2> SUFFICES ASSUME NEW i \in Slots, NEW j \in Slots, At(i, "commit")', At(j, "commit")',
                      call'[i].tenant = call'[j].tenant
               PROVE  i = j
    BY DEF CommitsOK
  <2>1. CASE i # r /\ j # r
    BY <1>10, <2>1 DEF KeysInv, CommitsOK, At
  <2>2. CASE i = r /\ j # r
    BY <1>6, <1>8, <1>10, <2>2 DEF At
  <2>3. CASE i # r /\ j = r
    BY <1>6, <1>8, <1>10, <2>3 DEF At
  <2> QED BY <2>1, <2>2, <2>3
<1>15. SafeKept
  <2> SUFFICES ASSUME NEW u \in Tenants, NEW w \in Version, NEW e \in Dek, Safe(u, w, e)
               PROVE  Safe(u, w, e)'
    BY DEF SafeKept
  <2>1. \A q \in Slots : At(q, "commit") => call'[q] = call[q]
    BY <1>1, <1>10 DEF At
  <2> QED BY <1>4, <2>1 DEF Safe, Backed, At, NextVersion
<1>16. Safe(t, v, d)'
  <2>1. At(r, "commit")' /\ call'[r].tenant = t /\ call'[r].dek = d
        /\ call'[r].version + 1 = v
    BY <1>2, <1>8, <1>10 DEF At
  <2> QED BY <2>1 DEF Safe, Backed, NextVersion
<1>17. DekCacheOK' /\ Coherent'
  <2>1. /\ DekCacheOK'
        /\ \A q \in Procs : Entries(dekCache'[q]) \subseteq
                                Entries(dekCache[q]) \cup {LruEntry(<<t, v>>, d)}
    BY <1>4, DekRemembered
  <2> QED BY <1>15, <1>16, <2>1, StillCoherentWith
<1>18. ActiveCacheOK'
  BY <1>4, ActiveKept
<1>19. written' \subseteq Ciphertext /\ RecoverableOnceCommitted'
  BY <1>4, <1>15, StillRecoverableIdle
<1>20. KeysTypeOK'
  <2>1. generated' \in 0..MaxDeks
    BY <1>3 DEF Dek
  <2> QED BY <1>4, <1>10, <1>17, <1>18, <1>19, <2>1
          DEF KeysInv, KeysTypeOK, DekCacheOK, ActiveCacheOK
<1> QED BY <1>12, <1>13, <1>14, <1>17, <1>19, <1>20 DEF KeysInv

\* COMMIT: both rows of the rotation become visible.
LEMMA CommitInv ==
    ASSUME KeysInv, NEW r \in Slots, Commit(r)
    PROVE  KeysInv'
<1> DEFINE c == call[r]
<1>1. c \in Call /\ CallOK(c) /\ c.pc = "commit"
  BY DEF KeysInv, KeysTypeOK, CallsOK, Commit, At
<1>2. PICK t \in Tenants, n \in 0..MaxDeks, d \in Dek :
         /\ t = c.tenant /\ n = c.version /\ d = c.dek
         /\ n + 1 \in Version /\ Shape(t, n)
  BY <1>1 DEF CallOK, Call
<1>3. /\ status' = [status EXCEPT ![t] =
                      [v \in Version |-> CASE v = n -> "retired"
                                           [] v = n + 1 -> "active"
                                           [] OTHER -> status[t][v]]]
      /\ dek' = [dek EXCEPT ![t][n + 1] = d]
      /\ Return(r) /\ UNCHANGED <<generated, cacheVars, written, lost>>
  BY <1>2 DEF Commit, NextVersion
<1>4. RowAdded(t, n, d)
  <2>1. status \in [Tenants -> [Version -> {"none", "active", "retired"}]]
    BY DEF KeysInv, KeysTypeOK
  <2>2. /\ DOMAIN status' = Tenants
        /\ \A u \in Tenants \ {t} : status'[u] = status[u]
        /\ status'[t] = [v \in Version |-> CASE v = n -> "retired"
                                             [] v = n + 1 -> "active"
                                             [] OTHER -> status[t][v]]
    BY <1>3, <2>1
  <2>3. \A v \in Version : status'[t][v] = IF v = n THEN "retired"
                                           ELSE IF v = n + 1 THEN "active" ELSE status[t][v]
    <3>1. n # n + 1
      OBVIOUS
    <3> QED BY <2>2, <3>1
  <2>4. Shape(t, n + 1)'
    BY <1>2, <2>3 DEF Shape, Version
  <2>5. status'[t] \in [Version -> {"none", "active", "retired"}]
    <3>1. \A v \in Version : status[t][v] \in {"none", "active", "retired"}
      BY <2>1
    <3> QED BY <2>2, <2>3, <3>1
  <2>6. status' \in [Tenants -> [Version -> {"none", "active", "retired"}]]
    BY <1>3, <2>1, <2>2, <2>5
  <2> QED BY <1>2, <1>3, <2>2, <2>4, <2>6 DEF RowAdded
<1>5. \A q \in Slots \ {r} : At(q, "commit") => call[q].tenant # t
  BY <1>1, <1>2 DEF KeysInv, CommitsOK, At
<1>6. NoCall \in Call /\ NoCall.pc # "commit" /\ CallOK(NoCall)'
  BY NoCallOK DEF CallOK
<1>7. Become(r, NoCall)
  BY <1>3 DEF Return
<1>8. generated' \in 0..MaxDeks
  BY <1>3 DEF KeysInv, KeysTypeOK
<1> QED BY <1>2, <1>3, <1>4, <1>5, <1>6, <1>7, <1>8, RowAddedInv

\* Calls end and DEKs that were about to be committed are lost with them.
LEMMA LostInv ==
    ASSUME KeysInv, UNCHANGED <<tableVars, written>>,
           call' \in [Slots -> Call],
           \A q \in Slots : call'[q] = call[q] \/ call'[q] = NoCall,
           \A q \in Slots : At(q, "commit") => call'[q] = call[q] \/ call[q].dek \in lost',
           lost \subseteq lost', lost' \subseteq Dek,
           DekCacheOK', ActiveCacheOK',
           \A q \in Procs : Entries(dekCache'[q]) \subseteq Entries(dekCache[q])
    PROVE  KeysInv'
<1>1. \A t, n : Shape(t, n)' <=> Shape(t, n)
  BY DEF Shape, tableVars
<1>2. TableOK'
  BY <1>1 DEF KeysInv, TableOK, tableVars
<1>3. CallsOK'
  <2>1. \A z : CallOK(z)' <=> CallOK(z)
    BY <1>1 DEF CallOK, RowHas, tableVars
  <2> QED BY <2>1, NoCallOK DEF KeysInv, CallsOK
<1>4. CommitsOK'
  BY NoCallOK DEF KeysInv, CommitsOK, At
<1>5. SafeKept
  <2> SUFFICES ASSUME NEW t \in Tenants, NEW v \in Version, NEW d \in Dek, Safe(t, v, d)
               PROVE  Safe(t, v, d)'
    BY DEF SafeKept
  <2>1. CASE d \in lost
    BY <2>1 DEF Safe
  <2>2. CASE status[t][v] # "none" /\ dek[t][v] = d
    BY <2>2 DEF Safe, Backed, tableVars
  <2>3. CASE \E q \in Slots : /\ At(q, "commit") /\ call[q].tenant = t
                              /\ NextVersion(q) = v /\ call[q].dek = d
    BY <2>3 DEF Safe, Backed, At, NextVersion
  <2> QED BY <2>1, <2>2, <2>3 DEF Safe, Backed
<1>6. Coherent'
  BY <1>5, StillCoherent
<1>7. written' \subseteq Ciphertext /\ RecoverableOnceCommitted'
  BY <1>5, StillRecoverableIdle
<1>8. KeysTypeOK'
  BY <1>7 DEF KeysInv, KeysTypeOK, DekCacheOK, ActiveCacheOK, tableVars
<1> QED BY <1>2, <1>3, <1>4, <1>6, <1>7, <1>8 DEF KeysInv

\* A COMMIT that does not happen.
LEMMA CommitFailsInv ==
    ASSUME KeysInv, NEW r \in Slots, CommitFails(r)
    PROVE  KeysInv'
<1>1. call \in [Slots -> Call] /\ lost \subseteq Dek
  BY DEF KeysInv, KeysTypeOK
<1>2. call[r].dek \in Dek
  BY DEF KeysInv, CallsOK, CallOK, CommitFails, At
<1>3. call' = [call EXCEPT ![r] = NoCall] /\ lost' = lost \cup {call[r].dek}
      /\ UNCHANGED <<tableVars, cacheVars, written>>
  BY DEF CommitFails, Return, Become
<1>4. call' \in [Slots -> Call] /\ call'[r] = NoCall
      /\ \A q \in Slots \ {r} : call'[q] = call[q]
  BY <1>1, <1>3, NoCallOK
<1>5. lost \subseteq lost' /\ lost' \subseteq Dek /\ call[r].dek \in lost'
  BY <1>1, <1>2, <1>3
<1>6. DekCacheOK' /\ ActiveCacheOK'
  BY <1>3 DEF KeysInv, KeysTypeOK, DekCacheOK, ActiveCacheOK, cacheVars
<1>7. \A q \in Procs : Entries(dekCache'[q]) \subseteq Entries(dekCache[q])
  BY <1>3 DEF cacheVars
<1> QED BY <1>3, <1>4, <1>5, <1>6, <1>7, LostInv

\* A process dies with its calls and its caches.
LEMMA CrashInv ==
    ASSUME KeysInv, NEW p \in Procs, Crash(p)
    PROVE  KeysInv'
<1>1. call \in [Slots -> Call] /\ lost \subseteq Dek
  BY DEF KeysInv, KeysTypeOK
<1>2. UNCHANGED <<tableVars, written>>
  BY DEF Crash
<1>3. call' \in [Slots -> Call]
      /\ \A q \in Slots : call'[q] = IF call[q].proc = p THEN NoCall ELSE call[q]
  BY <1>1, NoCallOK DEF Crash
<1>4. lost' = lost \cup {call[q].dek : q \in {z \in Slots : call[z].proc = p
                                                         /\ At(z, "commit")}}
  BY DEF Crash
<1>5. \A q \in Slots : At(q, "commit") => call[q].dek \in Dek
  BY DEF KeysInv, CallsOK, CallOK, At
<1>6. lost \subseteq lost' /\ lost' \subseteq Dek
  BY <1>1, <1>4, <1>5
<1>7. \A q \in Slots : At(q, "commit") => call'[q] = call[q] \/ call[q].dek \in lost'
  BY <1>3, <1>4
<1>8. \A q \in Procs : dekCache'[q] = IF q = p THEN <<>> ELSE dekCache[q]
  BY DEF Crash, LruEmpty, KeysInv, KeysTypeOK
<1>9. DekCacheOK'
  <2>1. dekCache' \in [Procs -> Seq([key : DekKey, value : Dek])]
    <3> DEFINE E == [key : DekKey, value : Dek]
    <3>1. dekCache \in [Procs -> Seq(E)]
      BY DEF KeysInv, KeysTypeOK
    <3>2. dekCache' = [dekCache EXCEPT ![p] = <<>>]
      BY DEF Crash, LruEmpty
    <3> HIDE DEF E
    <3>3. <<>> \in Seq(E)
      OBVIOUS
    <3>4. dekCache' \in [Procs -> Seq(E)]
      BY <3>1, <3>2, <3>3
    <3> QED BY <3>4 DEF E
  <2>2. \A q \in Procs : Len(dekCache'[q]) <= MaxCached
    BY <1>8, KeysAssumption DEF KeysInv, KeysTypeOK
  <2> QED BY <2>1, <2>2 DEF DekCacheOK
<1>10. ActiveCacheOK'
  <2>1. activeVersionCache' \in [Procs -> Seq([key : Tenants, value : Version])]
    <3> DEFINE E == [key : Tenants, value : Version]
    <3>1. activeVersionCache \in [Procs -> Seq(E)]
      BY DEF KeysInv, KeysTypeOK
    <3>2. activeVersionCache' = [activeVersionCache EXCEPT ![p] = <<>>]
      BY DEF Crash, LruEmpty
    <3> HIDE DEF E
    <3>3. <<>> \in Seq(E)
      OBVIOUS
    <3>4. activeVersionCache' \in [Procs -> Seq(E)]
      BY <3>1, <3>2, <3>3
    <3> QED BY <3>4 DEF E
  <2>2. \A q \in Procs : activeVersionCache'[q] =
                            IF q = p THEN <<>> ELSE activeVersionCache[q]
    BY DEF Crash, LruEmpty, KeysInv, KeysTypeOK
  <2>3. \A q \in Procs : Len(activeVersionCache'[q]) <= MaxCached
    BY <2>2, KeysAssumption DEF KeysInv, KeysTypeOK
  <2> QED BY <2>1, <2>3 DEF ActiveCacheOK
<1>11. \A q \in Procs : Entries(dekCache'[q]) \subseteq Entries(dekCache[q])
  BY <1>8 DEF Entries
<1> QED BY <1>2, <1>3, <1>6, <1>7, <1>9, <1>10, <1>11, LostInv

-----------------------------------------------------------------------------
(* The theorems.                                                           *)

\* Every step of every call, and every failure, preserves the invariant.
LEMMA KeysNextInv == KeysInv /\ [KeysNext]_keysVars => KeysInv'
<1> SUFFICES ASSUME KeysInv, [KeysNext]_keysVars PROVE KeysInv'
  OBVIOUS
<1>1. ASSUME NEW r \in Slots, CallStart(r) PROVE KeysInv'
  BY <1>1, EncryptWarmInv, StartInv, DecryptInv DEF CallStart
<1>2. ASSUME NEW r \in Slots, CallStep(r) PROVE KeysInv'
  BY <1>2, ReadInv, FoundInv, ProvisionedInv, ReadVersionInv, CommitInv DEF CallStep
<1>3. ASSUME NEW r \in Slots, LockStep(r) PROVE KeysInv'
  BY <1>3, ProvisionInv, ReadInv, RotateInsertInv DEF LockStep
<1>4. ASSUME UNCHANGED keysVars PROVE KeysInv'
  <2>1. UNCHANGED <<tableVars, cacheVars, written, lost>>
        /\ UNCHANGED <<status, dek, lost, call>>
    BY <1>4 DEF keysVars, tableVars
  <2>2. CallsKept
    BY <2>1, IdleStep DEF CallsKept
  <2> QED BY <2>1, <2>2, CallOnlyInv
<1> QED BY <1>1, <1>2, <1>3, <1>4, CommitFailsInv, CrashInv DEF KeysNext

\* The inductive invariant holds in every reachable state: a tenant's versions
\* are a run of retired keys under one active key, a rotation past its INSERT
\* builds on the newest of them and is alone in doing so, and what a call read
\* from the table is still there when it fills the caches.
THEOREM KeysInvariance == KeysSpec => []KeysInv
BY KeysInitInv, KeysNextInv, PTL DEF KeysSpec

\* KeysTypeOK: the caches of every process hold well-formed entries and never
\* more than MAX_CACHED_DEKS of them.
THEOREM KeysTyping == KeysSpec => []KeysTypeOK
<1>1. KeysInv => KeysTypeOK
  BY DEF KeysInv
<1> QED BY KeysInvariance, <1>1, PTL

\* OneActiveKey: provisionActiveKey and rotateTenantKey, raced, rolled back or
\* cut off by a crash, leave one active key, the newest, and the throw at the
\* end of provisionActiveKey is unreachable.
THEOREM OneKeyIsActive == KeysSpec => []OneActiveKey
<1>1. KeysInv => OneActiveKey
  <2> SUFFICES ASSUME KeysInv PROVE OneActiveKey
    OBVIOUS
  <2>1. ASSUME NEW t \in Tenants, NEW n \in 0..MaxDeks, Shape(t, n)
        PROVE  \/ \A v \in Version : status[t][v] = "none"
               \/ /\ n \in Version
                  /\ \A v \in Version :
                        status[t][v] = IF v < n THEN "retired"
                                       ELSE IF v = n THEN "active" ELSE "none"
    <3>1. n = 0 \/ n \in Version
      BY DEF Version
    <3>2. n = 0 => \A v \in Version : ~(v < n) /\ v # n
      BY DEF Version
    <3> QED BY <2>1, <3>1, <3>2 DEF Shape
  <2>2. \A t \in Tenants :
          \/ \A v \in Version : status[t][v] = "none"
          \/ \E n \in Version :
                \A v \in Version :
                    status[t][v] = IF v < n THEN "retired"
                                   ELSE IF v = n THEN "active" ELSE "none"
    BY <2>1 DEF KeysInv, TableOK
  <2>3. ASSUME NEW r \in Slots, At(r, "findAgain")
        PROVE  ActiveVersions(call[r].tenant) # {}
    <3> DEFINE t == call[r].tenant
    <3>1. t \in Tenants /\ status[t][1] # "none" /\ 1 \in Version
      BY <2>3, KeysAssumption DEF KeysInv, CallsOK, CallOK, At, Version
    <3> HIDE DEF t
    <3>2. PICK n \in Version :
             \A v \in Version :
                 status[t][v] = IF v < n THEN "retired"
                                ELSE IF v = n THEN "active" ELSE "none"
      BY <2>2, <3>1
    <3>3. status[t][n] = "active"
      BY <3>2 DEF Version
    <3> QED BY <3>3 DEF ActiveVersions, t
  <2> QED BY <2>2, <2>3 DEF OneActiveKey
<1> QED BY KeysInvariance, <1>1, PTL

\* CacheCoherent: a cached DEK is that of its row, or is about to be, or is one
\* whose COMMIT failed after the cache was filled.
THEOREM CachesFollowTheTable == KeysSpec => []CacheCoherent
<1>1. KeysInv => CacheCoherent
  <2> SUFFICES ASSUME KeysInv, NEW p \in Procs, NEW i \in DOMAIN dekCache[p]
               PROVE  /\ LET e == dekCache[p][i]
                         IN  Backed(e.key[1], e.key[2], e.value) \/ e.value \in lost
    BY DEF CacheCoherent
  <2>1. dekCache[p][i] \in Entries(dekCache[p])
    BY DEF Entries
  <2> QED BY <2>1 DEF KeysInv, Coherent, Safe
<1> QED BY KeysInvariance, <1>1, PTL

\* RecoverableOnceCommitted: every e-mail ciphertext stays decryptable, except
\* under a DEK whose COMMIT failed.
THEOREM CiphertextsStayReadable == KeysSpec => []RecoverableOnceCommitted
<1>1. KeysInv => RecoverableOnceCommitted
  BY DEF KeysInv
<1> QED BY KeysInvariance, <1>1, PTL

=============================================================================
