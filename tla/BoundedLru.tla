----------------------------- MODULE BoundedLru -----------------------------
(***************************************************************************)
(* The bounded LRU cache of tenantKey.service.ts: a Map whose iteration    *)
(* order is the order of last use.  The Map is the sequence of its         *)
(* entries, the oldest first; a key has at most one entry.                 *)
(***************************************************************************)
EXTENDS Naturals, Sequences

LruEntry(k, v) == [key |-> k, value |-> v]

LruEmpty == <<>>

LruHas(c, k) == \E i \in DOMAIN c : c[i].key = k

LruPlace(c, k) == CHOOSE i \in DOMAIN c : c[i].key = k

LruValue(c, k) == c[LruPlace(c, k)].value

\* Map.delete: the later entries close up.
LruDelete(c, k) ==
    IF LruHas(c, k)
      THEN [i \in 1..(Len(c) - 1) |-> IF i < LruPlace(c, k) THEN c[i] ELSE c[i + 1]]
      ELSE c

\* The cache after get(k).
LruGet(c, k) ==
    IF LruHas(c, k)
      THEN Append(LruDelete(c, k), LruEntry(k, LruValue(c, k)))
      ELSE c

\* A defect: the bound is off by one.
LruTrim_OffByOne(c, max) == IF Len(c) > max + 1 THEN Tail(c) ELSE c

LruTrim(c, max) == IF Len(c) > max THEN Tail(c) ELSE c

\* The cache after set(k, v).
LruSet(c, k, v, max) == LruTrim(Append(LruDelete(c, k), LruEntry(k, v)), max)

=============================================================================
