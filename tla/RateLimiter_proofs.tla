------------------------- MODULE RateLimiter_proofs -------------------------
(***************************************************************************)
(* Proofs about RateLimiter, for any clients, any number of requests in    *)
(* flight, any window and limit, and with or without failing Redis calls.  *)
(*                                                                         *)
(* LimiterInv relates every counter to the set of requests INCR has        *)
(* counted; it needs the requests of a client to be told apart.  ServedInv *)
(* does the same for the requests let through that INCR counted before     *)
(* their window ended.                                                     *)
(***************************************************************************)
EXTENDS RateLimiter, FiniteSetTheorems, FunctionTheorems, TLAPS

-----------------------------------------------------------------------------
(* Windows.                                                                *)

\* What division by Window is.
LEMMA Division ==
    ASSUME NEW a \in Nat
    PROVE  /\ WindowOf(a) \in Nat
           /\ WindowOf(a) * Window <= a
           /\ a < WindowOf(a) * Window + Window
BY LimiterAssumption DEF WindowOf

\* Windows follow each other in time.
LEMMA WindowsAscend ==
    ASSUME NEW a \in Nat, NEW b \in Nat, a <= b
    PROVE  WindowOf(a) <= WindowOf(b)
<1> DEFINE x == WindowOf(a)
           y == WindowOf(b)
<1>1. /\ x \in Nat /\ y \in Nat
      /\ x * Window <= a
      /\ b < y * Window + Window
  BY Division
<1> HIDE DEF x, y
<1>2. x * Window < (y + 1) * Window
  BY <1>1, LimiterAssumption
<1>3. x < y + 1
  BY <1>1, <1>2, LimiterAssumption
<1> QED BY <1>1, <1>3 DEF x, y

\* A TTL of windowMs ends in a later window.
LEMMA NextWindow ==
    ASSUME NEW a \in Nat
    PROVE  WindowOf(a) < WindowOf(a + Window)
<1> DEFINE x == WindowOf(a)
           y == WindowOf(a + Window)
<1>1. /\ x \in Nat /\ y \in Nat
      /\ x * Window <= a
      /\ a + Window < y * Window + Window
  BY Division, LimiterAssumption
<1> HIDE DEF x, y
<1>2. x * Window < y * Window
  BY <1>1, LimiterAssumption
<1>3. x < y
  BY <1>1, <1>2, LimiterAssumption
<1> QED BY <1>3 DEF x, y

\* The window of a time of the behaviour is one of its windows.
LEMMA WindowInRange ==
    ASSUME NEW a \in 0..MaxTime
    PROVE  WindowOf(a) \in Windows
<1>1. a \in Nat /\ MaxTime \in Nat /\ a <= MaxTime
  BY LimiterAssumption
<1> QED BY <1>1, Division, WindowsAscend DEF Windows

-----------------------------------------------------------------------------
(* Requests, told apart by their client and number.                        *)

Unique(S) == \A p, q \in S : p.ip = q.ip /\ p.n = q.n => p = q

\* A client's requests of one window are finitely many, at most MaxSeen.
LEMMA WindowIsFinite ==
    ASSUME NEW S \in SUBSET Visitor, Unique(S), NEW i, NEW w
    PROVE  /\ IsFiniteSet(OfWindow(S, i, w))
           /\ Cardinality(OfWindow(S, i, w)) \in Nat
           /\ Cardinality(OfWindow(S, i, w)) <= MaxSeen
<1> DEFINE T == OfWindow(S, i, w)
           f == [p \in T |-> p.n]
<1>1. \A p \in T : p \in S /\ p.ip = i /\ p.n \in 1..MaxSeen
  BY DEF OfWindow, Visitor
<1>2. \A p, q \in T : p.n = q.n => p = q
  BY <1>1 DEF Unique
<1> HIDE DEF T
<1>3. f \in Injection(T, 1..MaxSeen)
  BY <1>1, <1>2 DEF Injection, IsInjective
<1>4. IsFiniteSet(1..MaxSeen) /\ Cardinality(1..MaxSeen) = MaxSeen
  BY FS_Interval, LimiterAssumption
<1>5. IsFiniteSet(T) /\ Cardinality(T) <= Cardinality(1..MaxSeen)
  BY <1>3, <1>4, FS_Injection
<1>6. Cardinality(T) \in Nat
  BY <1>5, FS_CardinalityType
<1> QED BY <1>4, <1>5, <1>6 DEF T

\* A request counted for the first time adds one to its own window's requests
\* and none to the others'.
LEMMA OneMore ==
    ASSUME NEW S \in SUBSET Visitor, Unique(S), NEW x, x \notin S, NEW i, NEW w
    PROVE  Cardinality(OfWindow(S \cup {x}, i, w)) =
               IF x.ip = i /\ WindowOf(x.at) = w THEN Cardinality(OfWindow(S, i, w)) + 1
                                                 ELSE Cardinality(OfWindow(S, i, w))
<1> DEFINE T == OfWindow(S, i, w)
<1>1. IsFiniteSet(T)
  BY WindowIsFinite
<1>2. CASE x.ip = i /\ WindowOf(x.at) = w
  <2>1. OfWindow(S \cup {x}, i, w) = T \cup {x} /\ x \notin T
    BY <1>2 DEF OfWindow
  <2>2. Cardinality(T \cup {x}) = Cardinality(T) + 1
    BY <1>1, <2>1, FS_AddElement
  <2> QED BY <1>2, <2>1, <2>2
<1>3. CASE ~(x.ip = i /\ WindowOf(x.at) = w)
  <2>1. OfWindow(S \cup {x}, i, w) = T
    BY <1>3 DEF OfWindow
  <2> QED BY <1>3, <2>1
<1> QED BY <1>2, <1>3

-----------------------------------------------------------------------------
(* The inductive invariant.                                                *)

\* What is known of a request under way: its number is its own, INCR has
\* counted it exactly when it is past it, and PEXPIRE follows a reply of 1.
ArrivalOK(r) ==
    LET a == arrival[r]
    IN  /\ a.pc # "idle" => a.ip \in Ips /\ a.n \in 1..seen[a.ip] /\ a.at <= now
        /\ a.pc \in {"pexpire", "decide"} => Who(r) \in counted
        /\ a.pc = "incr" => \A p \in counted \cup served : p.ip = a.ip => p.n # a.n
        /\ a.pc = "pexpire" => NeedsTtl(a.count)

ArrivalsOK == \A r \in Slots : ArrivalOK(r)

NumbersDiffer ==
    \A r, q \in Slots :
        /\ arrival[r].pc # "idle" /\ arrival[q].pc # "idle"
        /\ arrival[r].ip = arrival[q].ip /\ arrival[r].n = arrival[q].n
        => r = q

CountedOK == Unique(counted) /\ \A p \in counted \cup served : p.n <= seen[p.ip]

\* The requests INCR has counted on a counter.
Hits(i, w) == Cardinality(OfWindow(counted, i, w))

\* A counter, and the reply of any INCR on it, is at most the number of requests
\* counted there, unless a Redis call on it has failed.
CountsOK ==
    /\ \A i \in Ips, w \in Windows :
          /\ count[i][w] <= 2 * Hits(i, w)
          /\ <<i, w>> \notin spoilt => count[i][w] <= Hits(i, w)
    /\ \A r \in Slots :
          arrival[r].pc \in {"pexpire", "decide"} /\ Counter(r) \notin spoilt
              => arrival[r].count <= Hits(arrival[r].ip, WindowStart(r))

LimiterInv ==
    /\ LimiterTypeOK
    /\ ArrivalsOK
    /\ NumbersDiffer
    /\ CountedOK
    /\ CountsOK
    /\ NoOrphanCounter

-----------------------------------------------------------------------------
(* The requests a window lets through.                                     *)

\* The requests INCR counted in time that were let through or still will be.
Holders(i, w) ==
    OfWindow(served \cap timely, i, w) \cup
    {Who(r) : r \in {q \in Slots : /\ arrival[q].pc \in {"pexpire", "decide"}
                                   /\ Counter(q) = <<i, w>>
                                   /\ Who(q) \in timely
                                   /\ ~OverLimit(arrival[q].count)}}

\* A counter outlives its window, and until then has counted its holders.
ServedInv ==
    \A i \in Ips, w \in Windows :
        /\ expiry[i][w] # Never => w < WindowOf(expiry[i][w])
        /\ Cardinality(Holders(i, w)) <= MaxRequests
        /\ WindowOf(now) <= w => Cardinality(Holders(i, w)) <= count[i][w]

-----------------------------------------------------------------------------
(* LimiterInv is inductive.                                                *)

LEMMA NoArrivalOK == NoArrival \in Arrival /\ NoArrival.pc = "idle"
BY LimiterAssumption DEF NoArrival, Arrival

\* The counter of a request under way is one of the counters.
LEMMA CounterInRange ==
    ASSUME LimiterInv, NEW r \in Slots, arrival[r].pc # "idle"
    PROVE  arrival[r].ip \in Ips /\ WindowStart(r) \in Windows /\ arrival[r].at \in 0..MaxTime
<1>1. arrival[r] \in Arrival /\ arrival[r].ip \in Ips
  BY DEF LimiterInv, LimiterTypeOK, ArrivalsOK, ArrivalOK
<1>2. arrival[r].at \in 0..MaxTime
  BY <1>1 DEF Arrival
<1> QED BY <1>1, <1>2, WindowInRange DEF WindowStart

\* A request under way is one of its client's.
LEMMA VisitorUnderWay ==
    ASSUME LimiterInv, NEW r \in Slots, arrival[r].pc # "idle"
    PROVE  Who(r) \in Visitor
<1>1. PICK i \in Ips : i = arrival[r].ip
  BY CounterInRange
<1>2. arrival[r].n \in 1..seen[i] /\ seen[i] \in 0..MaxSeen /\ arrival[r].at \in 0..MaxTime
  BY <1>1, CounterInRange DEF LimiterInv, LimiterTypeOK, ArrivalsOK, ArrivalOK
<1>3. arrival[r].n \in 1..MaxSeen
  BY <1>2, LimiterAssumption
<1> QED BY <1>1, <1>2, <1>3 DEF Who, Visitor

\* The number of requests counted on a counter is a number.
LEMMA HitsType ==
    ASSUME LimiterInv, NEW i, NEW w
    PROVE  Hits(i, w) \in Nat /\ Hits(i, w) <= MaxSeen
BY WindowIsFinite DEF LimiterInv, LimiterTypeOK, CountedOK, Hits

LEMMA LimiterInitInv == LimiterInit => LimiterInv
<1> SUFFICES ASSUME LimiterInit PROVE LimiterInv
  OBVIOUS
<1>1. \A r \in Slots : arrival[r] = NoArrival
  BY DEF LimiterInit
<1>2. LimiterTypeOK
  <2>1. arrival \in [Slots -> Arrival]
    BY NoArrivalOK DEF LimiterInit
  <2>2. 0 \in 0..MaxTime /\ 0 \in 0..(2 * MaxSeen) /\ Never \in Never..(MaxTime + Window)
        /\ 0 \in 0..MaxSeen
    BY LimiterAssumption DEF Never
  <2>3. count \in [Ips -> [Windows -> 0..(2 * MaxSeen)]]
    BY <2>2 DEF LimiterInit
  <2>4. expiry \in [Ips -> [Windows -> Never..(MaxTime + Window)]]
    BY <2>2 DEF LimiterInit
  <2> QED BY <2>1, <2>2, <2>3, <2>4 DEF LimiterInit, LimiterTypeOK
<1>3. ArrivalsOK
  BY <1>1, NoArrivalOK DEF ArrivalsOK, ArrivalOK
<1>4. NumbersDiffer
  BY <1>1, NoArrivalOK DEF NumbersDiffer
<1>5. CountedOK
  BY DEF LimiterInit, CountedOK, Unique
<1>6. CountsOK
  <2>1. \A i, w : Hits(i, w) = 0
    <3> SUFFICES ASSUME NEW i, NEW w PROVE Hits(i, w) = 0
      OBVIOUS
    <3>1. OfWindow(counted, i, w) = {}
      BY DEF LimiterInit, OfWindow
    <3> QED BY <3>1, FS_EmptySet DEF Hits
  <2>2. \A i \in Ips, w \in Windows : count[i][w] = 0
    BY DEF LimiterInit
  <2> QED BY <1>1, <2>1, <2>2, NoArrivalOK DEF CountsOK
<1>7. NoOrphanCounter
  BY DEF LimiterInit, NoOrphanCounter
<1> QED BY <1>2, <1>3, <1>4, <1>5, <1>6, <1>7 DEF LimiterInv

\* A request enters: it gets a number no request of its client has had.
LEMMA EnterInv ==
    ASSUME LimiterInv, NEW r \in Slots, NEW i \in Ips, Enter(r, i)
    PROVE  LimiterInv'
<1> DEFINE x == [NoArrival EXCEPT !.pc = "incr", !.ip = i, !.at = now, !.n = seen[i] + 1]
<1>1. /\ arrival \in [Slots -> Arrival] /\ seen \in [Ips -> 0..MaxSeen] /\ now \in 0..MaxTime
      /\ MaxSeen \in Nat /\ MaxTime \in Nat
  BY LimiterAssumption DEF LimiterInv, LimiterTypeOK
<1>2. /\ arrival[r].pc = "idle" /\ seen[i] < MaxSeen
      /\ seen' = [seen EXCEPT ![i] = @ + 1]
      /\ arrival' = [arrival EXCEPT ![r] = x]
      /\ UNCHANGED <<now, count, expiry, counted, timely, served, spoilt>>
  BY DEF Enter, Go
<1>3. seen[i] + 1 \in 0..MaxSeen /\ seen[i] + 1 \in 1..(seen[i] + 1)
  BY <1>1, <1>2
<1>4. x \in Arrival /\ x.pc = "incr" /\ x.ip = i /\ x.at = now /\ x.n = seen[i] + 1
  BY <1>1, <1>3, NoArrivalOK DEF Arrival
<1> HIDE DEF x
<1>5. /\ arrival' \in [Slots -> Arrival] /\ arrival'[r] = x
      /\ \A q \in Slots \ {r} : arrival'[q] = arrival[q]
  BY <1>1, <1>2, <1>4
<1>6. /\ seen' \in [Ips -> 0..MaxSeen]
      /\ \A j \in Ips : seen'[j] = IF j = i THEN seen[i] + 1 ELSE seen[j]
  BY <1>1, <1>2, <1>3
<1>7. \A j \in Ips : seen[j] \in Nat /\ seen'[j] \in Nat /\ seen[j] <= seen'[j]
  BY <1>1, <1>6
<1>8. LimiterTypeOK'
  BY <1>2, <1>5, <1>6 DEF LimiterInv, LimiterTypeOK
<1>9. \A p \in counted \cup served : p.ip \in Ips /\ p.n \in Nat /\ p.n <= seen[p.ip]
  BY DEF LimiterInv, LimiterTypeOK, CountedOK, Visitor
<1>10. ArrivalsOK'
  <2> SUFFICES ASSUME NEW q \in Slots PROVE ArrivalOK(q)'
    BY DEF ArrivalsOK
  <2>1. CASE q = r
    <3>1. \A p \in counted \cup served : p.ip = i => p.n # seen[i] + 1
      BY <1>7, <1>9
    <3>2. x.n \in 1..seen'[i] /\ now <= now
      BY <1>1, <1>3, <1>4, <1>6
    <3> QED BY <1>2, <1>4, <1>5, <2>1, <3>1, <3>2 DEF ArrivalOK
  <2>2. CASE q # r
    <3>1. arrival'[q] = arrival[q] /\ ArrivalOK(q)
      BY <1>5, <2>2 DEF LimiterInv, ArrivalsOK
    <3>2. \A j \in Ips : \A n : n \in 1..seen[j] => n \in 1..seen'[j]
      BY <1>7
    <3> QED BY <1>2, <3>1, <3>2 DEF ArrivalOK, Who
  <2> QED BY <2>1, <2>2
<1>11. NumbersDiffer'
  <2>1. \A q \in Slots : arrival[q].pc # "idle" /\ arrival[q].ip = i => arrival[q].n # seen[i] + 1
    <3> SUFFICES ASSUME NEW q \in Slots, arrival[q].pc # "idle", arrival[q].ip = i
                 PROVE  arrival[q].n # seen[i] + 1
      OBVIOUS
    <3>1. arrival[q].n \in 1..seen[i]
      BY DEF LimiterInv, ArrivalsOK, ArrivalOK
    <3> QED BY <1>7, <3>1
  <2> QED BY <1>4, <1>5, <2>1 DEF LimiterInv, NumbersDiffer
<1>12. CountedOK'
  BY <1>2, <1>7, <1>9 DEF LimiterInv, CountedOK
<1>13. CountsOK'
  <2>1. \A j, w : Hits(j, w)' = Hits(j, w)
    BY <1>2 DEF Hits
  <2>2. \A q \in Slots : arrival'[q].pc \in {"pexpire", "decide"} =>
           arrival'[q] = arrival[q] /\ Counter(q)' = Counter(q)
           /\ WindowStart(q)' = WindowStart(q)
    BY <1>4, <1>5 DEF Counter, WindowStart
  <2> QED BY <1>2, <2>1, <2>2 DEF LimiterInv, CountsOK
<1>14. NoOrphanCounter'
  <2>1. \A q \in Slots : arrival[q].pc = "pexpire" =>
           arrival'[q] = arrival[q] /\ Counter(q)' = Counter(q)
    BY <1>2, <1>5 DEF Counter, WindowStart
  <2> QED BY <1>2, <2>1 DEF LimiterInv, NoOrphanCounter
<1> QED BY <1>8, <1>10, <1>11, <1>12, <1>13, <1>14 DEF LimiterInv

\* A request past INCR moves on or ends; what it leaves behind is a TTL, or a
\* counter that is known to be spoilt.
LEMMA MovesOn ==
    ASSUME LimiterInv, NEW r \in Slots, NEW x \in Arrival, arrival[r].pc # "idle", Go(r, x),
           \/ x.pc = "idle"
           \/ /\ arrival[r].pc = "pexpire" /\ x.pc = "decide"
              /\ x.ip = arrival[r].ip /\ x.at = arrival[r].at /\ x.n = arrival[r].n
              /\ x.count = arrival[r].count,
           UNCHANGED <<now, count, seen, counted, timely>>, served' \subseteq served \cup {Who(r)},
           expiry' \in [Ips -> [Windows -> Never..(MaxTime + Window)]],
           \A i \in Ips, w \in Windows : expiry[i][w] # Never => expiry'[i][w] # Never,
           spoilt \subseteq spoilt', spoilt' \subseteq Ips \X Windows,
           arrival[r].pc = "pexpire" =>
              Counter(r) \in spoilt' \/ expiry'[arrival[r].ip][WindowStart(r)] # Never
    PROVE  LimiterInv'
<1>1. arrival \in [Slots -> Arrival]
  BY DEF LimiterInv, LimiterTypeOK
<1>2. /\ arrival' \in [Slots -> Arrival] /\ arrival'[r] = x
      /\ \A q \in Slots \ {r} : arrival'[q] = arrival[q]
  BY <1>1 DEF Go
<1>3. LimiterTypeOK'
  BY <1>2, VisitorUnderWay DEF LimiterInv, LimiterTypeOK
<1>4. ArrivalsOK'
  <2> SUFFICES ASSUME NEW q \in Slots PROVE ArrivalOK(q)'
    BY DEF ArrivalsOK
  <2>1. ArrivalOK(q)
    BY DEF LimiterInv, ArrivalsOK
  <2>2. q # r /\ arrival[q].pc = "incr" /\ arrival[q].ip = Who(r).ip => arrival[q].n # Who(r).n
    BY DEF LimiterInv, NumbersDiffer, Who
  <2>3. \A p \in counted \cup served' : p \in counted \cup served \/ p = Who(r)
    OBVIOUS
  <2>4. CASE q = r
    BY <1>2, <2>1, <2>4 DEF ArrivalOK, Who
  <2>5. CASE q # r
    <3>1. arrival'[q] = arrival[q] /\ Who(q)' = Who(q)
      BY <1>2, <2>5 DEF Who
    <3>2. arrival[q].pc = "incr" =>
             \A p \in counted \cup served' : p.ip = arrival[q].ip => p.n # arrival[q].n
      BY <2>1, <2>2, <2>3, <2>5 DEF ArrivalOK
    <3> QED BY <2>1, <3>1, <3>2 DEF ArrivalOK
  <2> QED BY <2>4, <2>5
<1>5. NumbersDiffer'
  BY <1>2 DEF LimiterInv, NumbersDiffer
<1>6. CountedOK'
  <2>1. Who(r).n <= seen[Who(r).ip]
    <3>1. PICK i \in Ips : i = arrival[r].ip
      BY CounterInRange
    <3>2. arrival[r].n \in 1..seen[i] /\ seen[i] \in 0..MaxSeen
      BY <3>1 DEF LimiterInv, LimiterTypeOK, ArrivalsOK, ArrivalOK
    <3> QED BY <3>1, <3>2, LimiterAssumption DEF Who
  <2>2. \A p \in counted \cup served' : p \in counted \cup served \/ p = Who(r)
    OBVIOUS
  <2> QED BY <2>1, <2>2 DEF LimiterInv, CountedOK
<1>7. CountsOK'
  <2>1. \A j, w : Hits(j, w)' = Hits(j, w)
    BY DEF Hits
  <2>2. \A q \in Slots : arrival'[q].pc \in {"pexpire", "decide"} =>
           /\ arrival[q].pc \in {"pexpire", "decide"}
           /\ Counter(q)' = Counter(q) /\ WindowStart(q)' = WindowStart(q)
           /\ arrival'[q].ip = arrival[q].ip /\ arrival'[q].count = arrival[q].count
    BY <1>2 DEF Counter, WindowStart
  <2> QED BY <2>1, <2>2 DEF LimiterInv, CountsOK
<1>8. NoOrphanCounter'
  <2> SUFFICES ASSUME NEW i \in Ips, NEW w \in Windows, count'[i][w] # 0,
                      expiry'[i][w] = Never, <<i, w>> \notin spoilt'
               PROVE  \E q \in Slots : arrival'[q].pc = "pexpire" /\ Counter(q)' = <<i, w>>
    BY DEF NoOrphanCounter
  <2>1. PICK q \in Slots : arrival[q].pc = "pexpire" /\ Counter(q) = <<i, w>>
    BY DEF LimiterInv, NoOrphanCounter
  <2>2. q # r
    BY <2>1 DEF Counter
  <2> QED BY <1>2, <2>1, <2>2 DEF Counter, WindowStart
<1> QED BY <1>3, <1>4, <1>5, <1>6, <1>7, <1>8 DEF LimiterInv

\* PEXPIRE.
LEMMA PexpireInv ==
    ASSUME LimiterInv, NEW r \in Slots, Pexpire(r)
    PROVE  LimiterInv'
<1> DEFINE x == [arrival[r] EXCEPT !.pc = "decide"]
           i == arrival[r].ip
           w == WindowStart(r)
<1>1. arrival[r].pc = "pexpire" /\ arrival[r].pc # "idle"
  BY DEF Pexpire
<1>2. i \in Ips /\ w \in Windows
  BY <1>1, CounterInRange
<1>3. arrival[r] \in Arrival
  BY DEF LimiterInv, LimiterTypeOK
<1>4. /\ x \in Arrival /\ x.pc = "decide"
      /\ x.ip = arrival[r].ip /\ x.at = arrival[r].at /\ x.n = arrival[r].n
      /\ x.count = arrival[r].count
  BY <1>3 DEF Arrival
<1>5. /\ expiry \in [Ips -> [Windows -> Never..(MaxTime + Window)]]
      /\ now + Window \in Never..(MaxTime + Window) /\ now + Window # Never
  BY LimiterAssumption DEF LimiterInv, LimiterTypeOK, Never
<1>6. /\ expiry' = [expiry EXCEPT ![i][w] = now + Window]
      /\ Go(r, x)
      /\ UNCHANGED <<now, count, seen, counted, timely, served, spoilt>>
  BY DEF Pexpire
<1> HIDE DEF x, i, w
<1>7. /\ expiry' \in [Ips -> [Windows -> Never..(MaxTime + Window)]]
      /\ expiry'[i][w] = now + Window
      /\ \A j \in Ips, v \in Windows : expiry'[j][v] = expiry[j][v] \/ expiry'[j][v] = now + Window
  BY <1>2, <1>5, <1>6
<1>8. served' \subseteq served \cup {Who(r)} /\ spoilt' \subseteq Ips \X Windows
  BY <1>6 DEF LimiterInv, LimiterTypeOK
<1>9. expiry'[arrival[r].ip][WindowStart(r)] # Never
  BY <1>5, <1>7 DEF i, w
<1>10. \A j \in Ips, v \in Windows : expiry[j][v] # Never => expiry'[j][v] # Never
  BY <1>5, <1>7
<1> QED BY <1>1, <1>4, <1>6, <1>7, <1>8, <1>9, <1>10, MovesOn

\* 429, or on to the next handler.
LEMMA DecideInv ==
    ASSUME LimiterInv, NEW r \in Slots, Decide(r)
    PROVE  LimiterInv'
<1>1. /\ arrival[r].pc = "decide" /\ Go(r, NoArrival)
      /\ served' \subseteq served \cup {Who(r)}
      /\ UNCHANGED <<now, count, expiry, seen, counted, timely, spoilt>>
  BY DEF Decide
<1>2. Who(r) \in counted
  BY <1>1 DEF LimiterInv, ArrivalsOK, ArrivalOK
<1>3. /\ served' \subseteq served \cup {Who(r)} /\ spoilt' \subseteq Ips \X Windows
      /\ expiry' \in [Ips -> [Windows -> Never..(MaxTime + Window)]]
  BY <1>1, <1>2 DEF LimiterInv, LimiterTypeOK
<1> QED BY <1>1, <1>3, NoArrivalOK, MovesOn

\* A Redis call rejects.
LEMMA FailOpenInv ==
    ASSUME LimiterInv, NEW r \in Slots, FailOpen(r)
    PROVE  LimiterInv'
<1>1. /\ arrival[r].pc \in {"incr", "pexpire"} /\ Go(r, NoArrival)
      /\ served' = served \cup {Who(r)} /\ spoilt' = spoilt \cup {Counter(r)}
      /\ UNCHANGED <<now, count, expiry, seen, counted, timely>>
  BY DEF FailOpen
<1>2. Counter(r) \in Ips \X Windows /\ Who(r) \in Visitor
  BY <1>1, CounterInRange, VisitorUnderWay DEF Counter
<1>3. /\ served' \subseteq served \cup {Who(r)} /\ spoilt' \subseteq Ips \X Windows
      /\ spoilt \subseteq spoilt' /\ Counter(r) \in spoilt'
      /\ expiry' \in [Ips -> [Windows -> Never..(MaxTime + Window)]]
  BY <1>1, <1>2 DEF LimiterInv, LimiterTypeOK
<1> QED BY <1>1, <1>3, NoArrivalOK, MovesOn

\* INCR, once or, its reply lost, twice.
LEMMA IncrementedInv ==
    ASSUME LimiterInv, NEW r \in Slots, NEW k \in {1, 2}, Incremented(r, k),
           \/ k = 1 /\ UNCHANGED spoilt
           \/ spoilt' = spoilt \cup {Counter(r)}
    PROVE  LimiterInv'
<1>1. arrival[r].pc = "incr"
  BY DEF Incremented
<1>2. PICK i \in Ips, w \in Windows : i = arrival[r].ip /\ w = WindowStart(r)
  BY <1>1, CounterInRange
<1>3. /\ arrival \in [Slots -> Arrival]
      /\ count \in [Ips -> [Windows -> 0..(2 * MaxSeen)]]
      /\ counted \in SUBSET Visitor /\ Unique(counted) /\ MaxSeen \in Nat
  BY LimiterAssumption DEF LimiterInv, LimiterTypeOK, CountedOK
<1>4. PICK c : c = count[i][w] + k
  OBVIOUS
<1>5. PICK x : x = [arrival[r] EXCEPT !.pc = IF NeedsTtl(c) THEN "pexpire" ELSE "decide",
                                      !.count = c]
  OBVIOUS
<1>6. /\ count' = [count EXCEPT ![i][w] = c]
      /\ counted' = counted \cup {Who(r)}
      /\ arrival' = [arrival EXCEPT ![r] = x]
      /\ timely' \subseteq timely \cup {Who(r)}
      /\ UNCHANGED <<now, expiry, seen, served>>
  BY <1>2, <1>4, <1>5 DEF Incremented, Go
<1>7. PICK v \in Visitor : /\ v = Who(r) /\ v.ip = i /\ v.at = arrival[r].at
                           /\ v.n = arrival[r].n /\ WindowOf(v.at) = w
  <2>1. arrival[r].at \in 0..MaxTime /\ arrival[r].n \in 1..MaxSeen
    <3>1. arrival[r] \in Arrival /\ arrival[r].n \in 1..seen[i] /\ seen[i] \in 0..MaxSeen
      BY <1>1, <1>2 DEF LimiterInv, LimiterTypeOK, ArrivalsOK, ArrivalOK
    <3> QED BY <1>3, <3>1 DEF Arrival
  <2>2. /\ Who(r) \in Visitor /\ Who(r).ip = i /\ Who(r).at = arrival[r].at
        /\ Who(r).n = arrival[r].n
    BY <1>2, <2>1 DEF Who, Visitor
  <2>3. WindowOf(Who(r).at) = w
    BY <1>2, <2>2 DEF WindowStart
  <2> QED BY <2>2, <2>3
<1>8. \A p \in counted \cup served : p.ip = i => p.n # v.n
  BY <1>1, <1>2, <1>7 DEF LimiterInv, ArrivalsOK, ArrivalOK
<1>9. v \notin counted
  BY <1>7, <1>8
<1>10. counted' \in SUBSET Visitor /\ Unique(counted')
  BY <1>3, <1>6, <1>7, <1>8 DEF Unique
<1>11. \A j, u : Hits(j, u)' = IF j = i /\ u = w THEN Hits(i, w) + 1 ELSE Hits(j, u)
  <2> SUFFICES ASSUME NEW j, NEW u
               PROVE  Hits(j, u)' = IF j = i /\ u = w THEN Hits(i, w) + 1 ELSE Hits(j, u)
    OBVIOUS
  <2>1. Hits(j, u)' = Cardinality(OfWindow(counted \cup {v}, j, u))
    BY <1>6, <1>7 DEF Hits
  <2>2. Cardinality(OfWindow(counted \cup {v}, j, u)) =
           IF v.ip = j /\ WindowOf(v.at) = u THEN Cardinality(OfWindow(counted, j, u)) + 1
                                             ELSE Cardinality(OfWindow(counted, j, u))
    BY <1>3, <1>9, OneMore
  <2> QED BY <1>7, <2>1, <2>2 DEF Hits
<1>12. \A j, u : Hits(j, u) \in Nat /\ Hits(j, u)' \in Nat /\ Hits(j, u)' <= MaxSeen
                 /\ Hits(j, u) <= Hits(j, u)'
  <2>1. \A j, u : Hits(j, u) \in Nat
    BY HitsType
  <2>2. \A j, u : Hits(j, u)' \in Nat /\ Hits(j, u)' <= MaxSeen
    BY <1>10, WindowIsFinite DEF Hits
  <2> QED BY <1>11, <2>1, <2>2
<1>13. c \in 0..(2 * MaxSeen) /\ c <= 2 * (Hits(i, w) + 1)
       /\ (k = 1 /\ <<i, w>> \notin spoilt => c <= Hits(i, w) + 1)
  <2>1. /\ count[i][w] \in 0..(2 * MaxSeen) /\ count[i][w] <= 2 * Hits(i, w)
        /\ <<i, w>> \notin spoilt => count[i][w] <= Hits(i, w)
    BY <1>3 DEF LimiterInv, CountsOK
  <2>2. Hits(i, w) \in Nat /\ Hits(i, w) + 1 <= MaxSeen
    BY <1>11, <1>12
  <2> QED BY <1>3, <1>4, <2>1, <2>2
<1>14. /\ x \in Arrival /\ x.pc = (IF NeedsTtl(c) THEN "pexpire" ELSE "decide")
       /\ x.ip = arrival[r].ip /\ x.at = arrival[r].at /\ x.n = arrival[r].n /\ x.count = c
  BY <1>3, <1>5, <1>13 DEF Arrival
<1>15. /\ arrival' \in [Slots -> Arrival] /\ arrival'[r] = x
       /\ \A q \in Slots \ {r} : arrival'[q] = arrival[q]
  BY <1>3, <1>6, <1>14
<1>16. /\ count' \in [Ips -> [Windows -> 0..(2 * MaxSeen)]]
       /\ count'[i][w] = c
       /\ \A j \in Ips, u \in Windows : <<j, u>> # <<i, w>> => count'[j][u] = count[j][u]
  BY <1>3, <1>6, <1>13
<1>17. /\ spoilt \subseteq spoilt' /\ spoilt' \subseteq Ips \X Windows
       /\ (k = 1 /\ UNCHANGED spoilt) \/ <<i, w>> \in spoilt'
  BY <1>2 DEF LimiterInv, LimiterTypeOK, Counter
<1>18. LimiterTypeOK'
  BY <1>6, <1>10, <1>15, <1>16, <1>17 DEF LimiterInv, LimiterTypeOK
<1>19. ArrivalsOK'
  <2> SUFFICES ASSUME NEW q \in Slots PROVE ArrivalOK(q)'
    BY DEF ArrivalsOK
  <2>1. ArrivalOK(q)
    BY DEF LimiterInv, ArrivalsOK
  <2>2. CASE q = r
    <3>1. arrival'[q].ip = arrival[q].ip /\ arrival'[q].n = arrival[q].n
          /\ arrival'[q].at = arrival[q].at /\ arrival'[q].pc # "incr"
          /\ (arrival'[q].pc = "pexpire" => NeedsTtl(arrival'[q].count))
      BY <1>14, <1>15, <2>2
    <3>2. Who(q)' \in counted'
      BY <1>6, <2>2, <3>1 DEF Who
    <3> QED BY <1>1, <1>6, <2>1, <2>2, <3>1, <3>2 DEF ArrivalOK
  <2>3. CASE q # r
    <3>1. arrival'[q] = arrival[q] /\ Who(q)' = Who(q) /\ counted \subseteq counted'
      BY <1>6, <1>15, <2>3 DEF Who
    <3>2. arrival[q].pc = "incr" /\ arrival[q].ip = i => arrival[q].n # v.n
      BY <1>1, <1>2, <1>7, <2>3 DEF LimiterInv, NumbersDiffer
    <3>3. arrival[q].pc = "incr" =>
             \A p \in counted' \cup served' : p.ip = arrival[q].ip => p.n # arrival[q].n
      BY <1>6, <1>7, <2>1, <3>2 DEF ArrivalOK
    <3> QED BY <1>6, <2>1, <3>1, <3>3 DEF ArrivalOK
  <2> QED BY <2>2, <2>3
<1>20. NumbersDiffer'
  BY <1>1, <1>14, <1>15 DEF LimiterInv, NumbersDiffer
<1>21. CountedOK'
  <2>1. v.n <= seen[v.ip]
    <3>1. arrival[r].n \in 1..seen[i] /\ seen[i] \in 0..MaxSeen
      BY <1>1, <1>2 DEF LimiterInv, LimiterTypeOK, ArrivalsOK, ArrivalOK
    <3> QED BY <1>7, <3>1
  <2> QED BY <1>6, <1>7, <1>10, <2>1 DEF LimiterInv, CountedOK
<1>22. CountsOK'
  <2>1. ASSUME NEW j \in Ips, NEW u \in Windows
        PROVE  /\ count'[j][u] <= 2 * Hits(j, u)'
               /\ <<j, u>> \notin spoilt' => count'[j][u] <= Hits(j, u)'
    <3>1. CASE j = i /\ u = w
      BY <1>11, <1>13, <1>16, <1>17, <3>1
    <3>2. CASE ~(j = i /\ u = w)
      <4>1. count'[j][u] = count[j][u] /\ Hits(j, u)' = Hits(j, u)
        BY <1>11, <1>16, <3>2
      <4> QED BY <1>17, <4>1 DEF LimiterInv, CountsOK
    <3> QED BY <3>1, <3>2
  <2>2. ASSUME NEW q \in Slots, arrival'[q].pc \in {"pexpire", "decide"},
               Counter(q)' \notin spoilt'
        PROVE  (arrival[q].count <= Hits(arrival[q].ip, WindowStart(q)))'
    <3>1. CASE q = r
      <4>1. arrival'[q].count = c /\ arrival'[q].ip = i /\ WindowStart(q)' = w
            /\ Counter(q)' = <<i, w>>
        BY <1>2, <1>14, <1>15, <3>1 DEF WindowStart, Counter
      <4> QED BY <1>11, <1>13, <1>17, <2>2, <4>1
    <3>2. CASE q # r
      <4>1. arrival'[q] = arrival[q] /\ Counter(q)' = Counter(q)
            /\ WindowStart(q)' = WindowStart(q)
        BY <1>15, <3>2 DEF Counter, WindowStart
      <4>2. arrival[q].count <= Hits(arrival[q].ip, WindowStart(q))
        BY <1>17, <2>2, <4>1 DEF LimiterInv, CountsOK
      <4>3. arrival[q].count \in Nat
        BY <1>3 DEF Arrival
      <4>4. /\ Hits(arrival[q].ip, WindowStart(q)) \in Nat
            /\ Hits(arrival[q].ip, WindowStart(q)) + 1 \in Nat
        BY <1>12
      <4>5. Hits(arrival[q].ip, WindowStart(q))' \in
               {Hits(arrival[q].ip, WindowStart(q)), Hits(arrival[q].ip, WindowStart(q)) + 1}
        BY <1>11, <4>1
      <4> QED BY <4>1, <4>2, <4>3, <4>4, <4>5
    <3> QED BY <3>1, <3>2
  <2> QED BY <2>1, <2>2 DEF CountsOK
<1>23. NoOrphanCounter'
  <2> SUFFICES ASSUME NEW j \in Ips, NEW u \in Windows, count'[j][u] # 0,
                      expiry'[j][u] = Never, <<j, u>> \notin spoilt'
               PROVE  \E q \in Slots : arrival'[q].pc = "pexpire" /\ Counter(q)' = <<j, u>>
    BY DEF NoOrphanCounter
  <2>1. CASE count[j][u] # 0
    <3>1. PICK q \in Slots : arrival[q].pc = "pexpire" /\ Counter(q) = <<j, u>>
      BY <1>6, <1>17, <2>1 DEF LimiterInv, NoOrphanCounter
    <3> QED BY <1>1, <1>15, <3>1 DEF Counter, WindowStart
  <2>2. CASE count[j][u] = 0
    <3>1. j = i /\ u = w
      BY <1>16, <2>2
    <3>2. c = 1
      BY <1>4, <1>17, <2>2, <3>1
    <3>3. arrival'[r].pc = "pexpire" /\ Counter(r)' = <<j, u>>
      BY <1>2, <1>14, <1>15, <3>1, <3>2 DEF NeedsTtl, Counter, WindowStart
    <3> QED BY <3>3
  <2> QED BY <2>1, <2>2
<1> QED BY <1>18, <1>19, <1>20, <1>21, <1>22, <1>23 DEF LimiterInv

\* A counter's TTL runs out.
LEMMA ExpiresInv ==
    ASSUME LimiterInv, NEW i \in Ips, NEW w \in Windows, CounterExpires(i, w)
    PROVE  LimiterInv'
<1>1. /\ count' = [count EXCEPT ![i][w] = 0]
      /\ expiry' = [expiry EXCEPT ![i][w] = Never]
      /\ UNCHANGED <<now, arrival, seen, counted, timely, served, spoilt>>
  BY DEF CounterExpires
<1>2. /\ count \in [Ips -> [Windows -> 0..(2 * MaxSeen)]]
      /\ expiry \in [Ips -> [Windows -> Never..(MaxTime + Window)]]
  BY DEF LimiterInv, LimiterTypeOK
<1>3. 0 \in 0..(2 * MaxSeen) /\ Never \in Never..(MaxTime + Window)
  BY LimiterAssumption DEF Never
<1>4. /\ count' \in [Ips -> [Windows -> 0..(2 * MaxSeen)]]
      /\ \A j \in Ips, u \in Windows :
            count'[j][u] = IF j = i /\ u = w THEN 0 ELSE count[j][u]
  BY <1>1, <1>2, <1>3
<1>5. /\ expiry' \in [Ips -> [Windows -> Never..(MaxTime + Window)]]
      /\ \A j \in Ips, u \in Windows :
            expiry'[j][u] = IF j = i /\ u = w THEN Never ELSE expiry[j][u]
  BY <1>1, <1>2, <1>3
<1>6. LimiterTypeOK'
  BY <1>1, <1>4, <1>5 DEF LimiterInv, LimiterTypeOK
<1>7. ArrivalsOK' /\ NumbersDiffer' /\ CountedOK'
  BY <1>1 DEF LimiterInv, ArrivalsOK, ArrivalOK, Who, NumbersDiffer, CountedOK
<1>8. CountsOK'
  <2>1. \A j, u : Hits(j, u)' = Hits(j, u) /\ Hits(j, u) \in Nat
    BY <1>1, HitsType DEF Hits
  <2>2. \A j \in Ips, u \in Windows :
           /\ count'[j][u] <= 2 * Hits(j, u)'
           /\ <<j, u>> \notin spoilt' => count'[j][u] <= Hits(j, u)'
    <3> SUFFICES ASSUME NEW j \in Ips, NEW u \in Windows
                 PROVE  /\ count'[j][u] <= 2 * Hits(j, u)'
                        /\ <<j, u>> \notin spoilt' => count'[j][u] <= Hits(j, u)'
      OBVIOUS
    <3>1. /\ count[j][u] <= 2 * Hits(j, u)
          /\ <<j, u>> \notin spoilt => count[j][u] <= Hits(j, u)
      BY DEF LimiterInv, CountsOK
    <3>2. Hits(j, u)' = Hits(j, u) /\ Hits(j, u) \in Nat
      BY <2>1
    <3>3. count'[j][u] = 0 \/ count'[j][u] = count[j][u]
      BY <1>4
    <3> QED BY <1>1, <3>1, <3>2, <3>3
  <2>3. \A q \in Slots : Counter(q)' = Counter(q) /\ WindowStart(q)' = WindowStart(q)
    BY <1>1 DEF Counter, WindowStart
  <2> QED BY <1>1, <2>1, <2>2, <2>3 DEF LimiterInv, CountsOK
<1>9. NoOrphanCounter'
  <2>1. \A q \in Slots : Counter(q)' = Counter(q)
    BY <1>1 DEF Counter, WindowStart
  <2> QED BY <1>1, <1>4, <1>5, <2>1 DEF LimiterInv, NoOrphanCounter
<1> QED BY <1>6, <1>7, <1>8, <1>9 DEF LimiterInv

\* Time passes, or nothing happens.
LEMMA ClockInv ==
    ASSUME LimiterInv, ClockTicks \/ UNCHANGED limiterVars
    PROVE  LimiterInv'
<1>1. /\ UNCHANGED <<count, expiry, arrival, seen, counted, timely, served, spoilt>>
      /\ now' \in 0..MaxTime /\ now <= now' /\ now \in 0..MaxTime
  BY LimiterAssumption DEF ClockTicks, limiterVars, LimiterInv, LimiterTypeOK
<1>2. LimiterTypeOK'
  BY <1>1 DEF LimiterInv, LimiterTypeOK
<1>3. ArrivalsOK'
  <2> SUFFICES ASSUME NEW q \in Slots PROVE ArrivalOK(q)'
    BY DEF ArrivalsOK
  <2>1. ArrivalOK(q) /\ arrival[q] \in Arrival
    BY DEF LimiterInv, LimiterTypeOK, ArrivalsOK
  <2>2. arrival[q].at \in 0..MaxTime
    BY <2>1 DEF Arrival
  <2>3. arrival[q].at <= now => arrival[q].at <= now'
    BY <1>1, <2>2
  <2> QED BY <1>1, <2>1, <2>3 DEF ArrivalOK, Who
<1>4. NumbersDiffer' /\ CountedOK'
  BY <1>1 DEF LimiterInv, NumbersDiffer, CountedOK
<1>5. CountsOK' /\ NoOrphanCounter'
  <2>1. \A q \in Slots : Counter(q)' = Counter(q) /\ WindowStart(q)' = WindowStart(q)
    BY <1>1 DEF Counter, WindowStart
  <2>2. \A j, u : Hits(j, u)' = Hits(j, u)
    BY <1>1 DEF Hits
  <2> QED BY <1>1, <2>1, <2>2 DEF LimiterInv, CountsOK, NoOrphanCounter
<1> QED BY <1>2, <1>3, <1>4, <1>5 DEF LimiterInv

LEMMA LimiterNextInv == LimiterInv /\ [LimiterNext]_limiterVars => LimiterInv'
<1> SUFFICES ASSUME LimiterInv, [LimiterNext]_limiterVars PROVE LimiterInv'
  OBVIOUS
<1>1. ASSUME NEW r \in Slots, Incr(r) PROVE LimiterInv'
  BY <1>1, IncrementedInv DEF Incr
<1>2. ASSUME NEW r \in Slots, IncrResent(r) PROVE LimiterInv'
  BY <1>2, IncrementedInv DEF IncrResent
<1> QED BY <1>1, <1>2, ClockInv, ExpiresInv, EnterInv, PexpireInv, DecideInv, FailOpenInv
        DEF LimiterNext

-----------------------------------------------------------------------------
(* ServedInv is inductive.                                                 *)

\* The requests a counter lets through are among those it has counted.
LEMMA HoldersFinite ==
    ASSUME LimiterInv, NEW i, NEW w
    PROVE  IsFiniteSet(Holders(i, w)) /\ Cardinality(Holders(i, w)) \in Nat
<1>1. ASSUME NEW q \in Slots, arrival[q].pc \in {"pexpire", "decide"}, Counter(q) = <<i, w>>
      PROVE  Who(q) \in OfWindow(counted, i, w)
  <2>1. Who(q) \in counted
    BY <1>1 DEF LimiterInv, ArrivalsOK, ArrivalOK
  <2>2. Who(q).ip = i /\ WindowOf(Who(q).at) = w
    BY <1>1 DEF Counter, WindowStart, Who
  <2> QED BY <2>1, <2>2 DEF OfWindow
<1>2. OfWindow(served \cap timely, i, w) \subseteq OfWindow(counted, i, w)
  BY DEF LimiterInv, LimiterTypeOK, OfWindow
<1>3. Holders(i, w) \in SUBSET OfWindow(counted, i, w)
  BY <1>1, <1>2 DEF Holders
<1>4. IsFiniteSet(OfWindow(counted, i, w))
  BY WindowIsFinite DEF LimiterInv, LimiterTypeOK, CountedOK
<1>5. IsFiniteSet(Holders(i, w))
  BY <1>3, <1>4, FS_Subset
<1> QED BY <1>5, FS_CardinalityType

\* A step after which no counter has more holders than before.
LEMMA NoMoreHolders ==
    ASSUME LimiterInv, ServedInv, now' \in 0..MaxTime, now <= now',
           \A i \in Ips, w \in Windows :
              /\ Holders(i, w)' \subseteq Holders(i, w)
              /\ expiry'[i][w] # Never => w < WindowOf(expiry'[i][w])
              /\ WindowOf(now') <= w => count'[i][w] = count[i][w]
    PROVE  ServedInv'
<1> SUFFICES ASSUME NEW i \in Ips, NEW w \in Windows
             PROVE  /\ Cardinality(Holders(i, w)') <= MaxRequests
                    /\ WindowOf(now') <= w => Cardinality(Holders(i, w)') <= count'[i][w]
  BY DEF ServedInv
<1>1. PICK T : T = Holders(i, w)' /\ T \in SUBSET Holders(i, w)
  OBVIOUS
<1>2. /\ IsFiniteSet(Holders(i, w)) /\ Cardinality(Holders(i, w)) \in Nat
  BY HoldersFinite
<1>3. IsFiniteSet(T) /\ Cardinality(T) <= Cardinality(Holders(i, w))
  BY <1>1, <1>2, FS_Subset
<1>4. Cardinality(T) \in Nat
  BY <1>3, FS_CardinalityType
<1>5. /\ Cardinality(Holders(i, w)) <= MaxRequests
      /\ WindowOf(now) <= w => Cardinality(Holders(i, w)) <= count[i][w]
  BY DEF ServedInv
<1>6. WindowOf(now) <= WindowOf(now') /\ WindowOf(now) \in Nat /\ WindowOf(now') \in Nat
  <2>1. now \in Nat /\ now' \in Nat
    BY LimiterAssumption DEF LimiterInv, LimiterTypeOK
  <2> QED BY <2>1, WindowsAscend, Division
<1>7. w \in Nat /\ count[i][w] \in Nat /\ MaxRequests \in Nat
  <2>1. count[i][w] \in 0..(2 * MaxSeen) /\ MaxSeen \in Nat
    BY LimiterAssumption DEF LimiterInv, LimiterTypeOK
  <2>2. w \in Nat
    BY DEF Windows
  <2> QED BY <2>1, <2>2, LimiterAssumption
<1> QED BY <1>1, <1>2, <1>3, <1>4, <1>5, <1>6, <1>7

\* Request r ends, moves on or enters, without being counted.
LEMMA HoldersOfOthers ==
    ASSUME LimiterInv, NEW r \in Slots, NEW x, Go(r, x), UNCHANGED <<served, timely>>,
           \/ x.pc \notin {"pexpire", "decide"}
           \/ /\ arrival[r].pc \in {"pexpire", "decide"}
              /\ x.ip = arrival[r].ip /\ x.at = arrival[r].at /\ x.n = arrival[r].n
              /\ x.count = arrival[r].count,
           NEW i, NEW w
    PROVE  Holders(i, w)' \subseteq Holders(i, w)
<1>1. /\ arrival'[r] = x
      /\ \A q \in Slots \ {r} : arrival'[q] = arrival[q]
  BY DEF LimiterInv, LimiterTypeOK, Go
<1>2. ASSUME NEW q \in Slots, arrival'[q].pc \in {"pexpire", "decide"},
             Counter(q)' = <<i, w>>, Who(q)' \in timely', ~OverLimit(arrival'[q].count)
      PROVE  /\ arrival[q].pc \in {"pexpire", "decide"}
             /\ Counter(q) = <<i, w>> /\ ~OverLimit(arrival[q].count)
             /\ Who(q)' = Who(q) /\ Who(q) \in timely
  BY <1>1, <1>2 DEF Counter, WindowStart, Who
<1> QED BY <1>2 DEF Holders

\* Request r ends.  It goes on only within the limit: a reply of 1, which is what
\* a failing PEXPIRE leaves, is within any limit, and a request whose INCR was
\* rejected was not counted.
LEMMA HoldersOfDone ==
    ASSUME LimiterInv, NEW r \in Slots, Decide(r) \/ FailOpen(r), NEW i, NEW w
    PROVE  Holders(i, w)' \subseteq Holders(i, w)
<1>1. /\ arrival[r].pc # "idle" /\ Go(r, NoArrival) /\ UNCHANGED timely
      /\ served' \subseteq served \cup {Who(r)}
  BY DEF Decide, FailOpen
<1>2. /\ arrival'[r] = NoArrival
      /\ \A q \in Slots \ {r} : arrival'[q] = arrival[q]
  BY <1>1 DEF Go, LimiterInv, LimiterTypeOK
<1>3. ASSUME NEW q \in Slots, arrival'[q].pc \in {"pexpire", "decide"},
             Counter(q)' = <<i, w>>, Who(q)' \in timely', ~OverLimit(arrival'[q].count)
      PROVE  /\ arrival[q].pc \in {"pexpire", "decide"}
             /\ Counter(q) = <<i, w>> /\ ~OverLimit(arrival[q].count)
             /\ Who(q)' = Who(q) /\ Who(q) \in timely
  BY <1>1, <1>2, <1>3, NoArrivalOK DEF Counter, WindowStart, Who
<1>4. ASSUME Who(r) \in served' \ served, Who(r) \in timely
      PROVE  arrival[r].pc \in {"pexpire", "decide"} /\ ~OverLimit(arrival[r].count)
  <2>1. CASE Decide(r)
    BY <1>4, <2>1 DEF Decide
  <2>2. CASE FailOpen(r)
    <3>1. arrival[r].pc \in {"incr", "pexpire"} /\ Who(r) \in counted
      BY <1>4, <2>2 DEF FailOpen, LimiterInv, LimiterTypeOK
    <3>2. arrival[r].pc # "incr"
      BY <3>1 DEF LimiterInv, ArrivalsOK, ArrivalOK, Who
    <3>3. arrival[r].count = 1
      BY <3>1, <3>2 DEF LimiterInv, ArrivalsOK, ArrivalOK, NeedsTtl
    <3> QED BY <3>1, <3>2, <3>3, LimiterAssumption DEF OverLimit
  <2> QED BY <2>1, <2>2
<1>5. OfWindow(served' \cap timely', i, w) \subseteq Holders(i, w)
  <2>1. ASSUME Who(r) \in served' \ served, Who(r) \in timely,
               Who(r).ip = i, WindowOf(Who(r).at) = w
        PROVE  Who(r) \in Holders(i, w)
    <3>1. Counter(r) = <<i, w>>
      BY <2>1 DEF Counter, WindowStart, Who
    <3> QED BY <1>4, <2>1, <3>1 DEF Holders
  <2> QED BY <1>1, <2>1 DEF OfWindow, Holders
<1> QED BY <1>3, <1>5 DEF Holders

LEMMA ServedInit == ASSUME LimiterInit PROVE ServedInv
<1>1. \A r \in Slots : arrival[r].pc = "idle"
  BY NoArrivalOK DEF LimiterInit
<1>2. ASSUME NEW i, NEW w PROVE Cardinality(Holders(i, w)) = 0
  <2>1. Holders(i, w) = {}
    BY <1>1 DEF Holders, OfWindow, LimiterInit
  <2> QED BY <2>1, FS_EmptySet
<1>3. \A i \in Ips, w \in Windows : expiry[i][w] = Never /\ count[i][w] = 0
  BY DEF LimiterInit
<1> QED BY <1>1, <1>2, <1>3, LimiterAssumption DEF ServedInv

\* INCR while the window is open: if the reply is within the limit there is room
\* for one more holder.  Afterwards it adds no holder.
LEMMA IncrementedServed ==
    ASSUME LimiterInv, ServedInv, NEW r \in Slots, NEW k \in {1, 2}, Incremented(r, k)
    PROVE  ServedInv'
<1>1. arrival[r].pc = "incr" /\ arrival[r].pc # "idle"
  BY DEF Incremented
<1>2. PICK i \in Ips, w \in Windows : i = arrival[r].ip /\ w = WindowStart(r)
  BY <1>1, CounterInRange
<1>3. /\ arrival \in [Slots -> Arrival]
      /\ count \in [Ips -> [Windows -> 0..(2 * MaxSeen)]]
      /\ MaxRequests \in Nat
  BY LimiterAssumption DEF LimiterInv, LimiterTypeOK
<1>4. PICK c \in Nat : c = count[i][w] + k /\ count[i][w] \in Nat
  BY <1>3, LimiterAssumption
<1>5. PICK x : x = [arrival[r] EXCEPT !.pc = IF NeedsTtl(c) THEN "pexpire" ELSE "decide",
                                      !.count = c]
  OBVIOUS
<1>6. /\ count' = [count EXCEPT ![i][w] = c]
      /\ arrival' = [arrival EXCEPT ![r] = x]
      /\ timely' = timely \cup {p \in {Who(r)} : WindowOf(now) = w}
      /\ UNCHANGED <<now, expiry, served>>
  BY <1>2, <1>4, <1>5 DEF Incremented, Go
<1>7. /\ x.pc \in {"pexpire", "decide"} /\ x.ip = arrival[r].ip /\ x.at = arrival[r].at
      /\ x.n = arrival[r].n /\ x.count = c
  BY <1>3, <1>5 DEF Arrival
<1>8. /\ arrival'[r] = x
      /\ \A q \in Slots \ {r} : arrival'[q] = arrival[q]
  BY <1>3, <1>6
<1>9. /\ count'[i][w] = c
      /\ \A j \in Ips, u \in Windows : <<j, u>> # <<i, w>> => count'[j][u] = count[j][u]
  BY <1>3, <1>6
<1>10. /\ Who(r) \notin counted \cup served /\ Who(r) \notin timely
       /\ Who(r)' = Who(r) /\ Counter(r)' = <<i, w>> /\ arrival'[r].count = c
  BY <1>1, <1>2, <1>7, <1>8
     DEF LimiterInv, LimiterTypeOK, ArrivalsOK, ArrivalOK, Who, Counter, WindowStart
<1>11. ASSUME NEW j \in Ips, NEW u \in Windows
       PROVE  /\ Holders(j, u)' \subseteq Holders(j, u) \cup {Who(r)}
              /\ <<j, u>> # <<i, w>> \/ OverLimit(c) \/ WindowOf(now) # w
                     => Holders(j, u)' \subseteq Holders(j, u)
  <2>1. OfWindow(served' \cap timely', j, u) = OfWindow(served \cap timely, j, u)
    BY <1>6, <1>10 DEF OfWindow
  <2>2. ASSUME NEW q \in Slots, arrival'[q].pc \in {"pexpire", "decide"},
               Counter(q)' = <<j, u>>, Who(q)' \in timely', ~OverLimit(arrival'[q].count), q # r
        PROVE  /\ arrival[q].pc \in {"pexpire", "decide"}
               /\ Counter(q) = <<j, u>> /\ ~OverLimit(arrival[q].count)
               /\ Who(q)' = Who(q) /\ Who(q) \in timely
    <3>1. arrival'[q] = arrival[q] /\ Who(q)' = Who(q) /\ Counter(q)' = Counter(q)
      BY <1>8, <2>2 DEF Counter, WindowStart, Who
    <3>2. Who(q) \in counted
      BY <2>2, <3>1 DEF LimiterInv, ArrivalsOK, ArrivalOK
    <3> QED BY <1>6, <1>10, <2>2, <3>1, <3>2
  <2>3. Counter(r)' = <<j, u>> /\ Who(r)' \in timely' /\ ~OverLimit(arrival'[r].count)
           => ~(<<j, u>> # <<i, w>> \/ OverLimit(c) \/ WindowOf(now) # w)
    BY <1>6, <1>10
  <2> QED BY <1>10, <2>1, <2>2, <2>3 DEF Holders
<1>12. ASSUME NEW j \in Ips, NEW u \in Windows
       PROVE  /\ Cardinality(Holders(j, u)') <= MaxRequests
              /\ WindowOf(now) <= u => Cardinality(Holders(j, u)') <= count'[j][u]
  <2>1. PICK S, T : S = Holders(j, u) /\ T = Holders(j, u)'
    OBVIOUS
  <2>2. IsFiniteSet(S) /\ Cardinality(S) \in Nat
    BY <2>1, HoldersFinite
  <2>3. Cardinality(S) <= MaxRequests /\ (WindowOf(now) <= u => Cardinality(S) <= count[j][u])
    BY <2>1 DEF ServedInv
  <2>4. count[j][u] \in Nat
    BY <1>3, LimiterAssumption
  <2>5. CASE <<j, u>> # <<i, w>> \/ OverLimit(c) \/ WindowOf(now) # w
    <3>1. IsFiniteSet(T) /\ Cardinality(T) <= Cardinality(S)
      BY <1>11, <2>1, <2>2, <2>5, FS_Subset
    <3>2. Cardinality(T) \in Nat
      BY <3>1, FS_CardinalityType
    <3>3. count'[j][u] \in Nat /\ count[j][u] <= count'[j][u]
      BY <1>4, <1>9, <2>4
    <3> QED BY <1>3, <2>1, <2>2, <2>3, <2>4, <3>1, <3>2, <3>3
  <2>6. CASE j = i /\ u = w /\ ~OverLimit(c) /\ WindowOf(now) = w
    <3> DEFINE U == S \cup {Who(r)}
    <3>1. IsFiniteSet(U) /\ Cardinality(U) \in {Cardinality(S), Cardinality(S) + 1}
      BY <2>2, FS_AddElement
    <3>2. T \in SUBSET U
      BY <1>11, <2>1
    <3> HIDE DEF U
    <3>3. IsFiniteSet(T) /\ Cardinality(T) <= Cardinality(U)
      BY <3>1, <3>2, FS_Subset
    <3>4. Cardinality(T) \in Nat /\ Cardinality(T) <= Cardinality(S) + 1
      BY <2>2, <3>1, <3>3, FS_CardinalityType
    <3>5. Cardinality(S) <= count[i][w]
      BY <2>3, <2>6 DEF Windows
    <3>6. c <= MaxRequests
      BY <1>3, <1>4, <2>6 DEF OverLimit
    <3> QED BY <1>3, <1>4, <1>9, <2>1, <2>2, <2>6, <3>4, <3>5, <3>6
  <2> QED BY <2>5, <2>6
<1> QED BY <1>6, <1>12 DEF ServedInv

LEMMA ServedNext ==
    ASSUME LimiterInv, ServedInv, [LimiterNext]_limiterVars
    PROVE  ServedInv'
<1>0. now \in 0..MaxTime /\ now <= now /\ now \in Nat
  BY LimiterAssumption DEF LimiterInv, LimiterTypeOK
<1>00. \A i \in Ips, w \in Windows : expiry[i][w] # Never => w < WindowOf(expiry[i][w])
  BY DEF ServedInv
<1>1. CASE UNCHANGED limiterVars
  <2>1. \A i, w : Holders(i, w)' = Holders(i, w)
    BY <1>1 DEF Holders, Who, Counter, WindowStart, limiterVars
  <2> QED BY <1>1, <2>1 DEF ServedInv, limiterVars
<1>2. CASE ClockTicks
  <2>1. \A i, w : Holders(i, w)' = Holders(i, w)
    BY <1>2 DEF ClockTicks, Holders, Who, Counter, WindowStart
  <2>2. now' \in 0..MaxTime /\ now <= now'
    BY <1>0, <1>2, LimiterAssumption DEF ClockTicks
  <2> QED BY <1>00, <1>2, <2>1, <2>2, NoMoreHolders DEF ClockTicks
<1>3. ASSUME NEW i \in Ips, NEW w \in Windows, CounterExpires(i, w) PROVE ServedInv'
  <2>1. \A j, u : Holders(j, u)' = Holders(j, u)
    BY <1>3 DEF CounterExpires, Holders, Who, Counter, WindowStart
  <2>2. /\ count \in [Ips -> [Windows -> 0..(2 * MaxSeen)]]
        /\ expiry \in [Ips -> [Windows -> Never..(MaxTime + Window)]]
    BY DEF LimiterInv, LimiterTypeOK
  <2>3. /\ \A j \in Ips, u \in Windows : <<j, u>> # <<i, w>> => count'[j][u] = count[j][u]
        /\ \A j \in Ips, u \in Windows :
              expiry'[j][u] # Never => expiry'[j][u] = expiry[j][u]
    BY <1>3, <2>2 DEF CounterExpires
  <2>4. w < WindowOf(now)
    <3>1. w < WindowOf(expiry[i][w])
      BY <1>3, <1>00 DEF CounterExpires
    <3>2. expiry[i][w] \in Nat /\ expiry[i][w] <= now
      BY <1>3, <2>2, LimiterAssumption DEF CounterExpires, Never
    <3>3. WindowOf(expiry[i][w]) <= WindowOf(now)
      BY <1>0, <3>2, WindowsAscend
    <3>4. w \in Nat /\ WindowOf(expiry[i][w]) \in Nat /\ WindowOf(now) \in Nat
      BY <1>0, <3>2, Division DEF Windows
    <3> QED BY <3>1, <3>3, <3>4
  <2>5. \A j \in Ips, u \in Windows : WindowOf(now) <= u => count'[j][u] = count[j][u]
    <3>1. ~(WindowOf(now) <= w)
      BY <1>0, <2>4, Division DEF Windows
    <3> QED BY <2>3, <3>1
  <2>6. UNCHANGED <<now, arrival>>
    BY <1>3 DEF CounterExpires
  <2>7. \A j \in Ips, u \in Windows : expiry'[j][u] # Never => u < WindowOf(expiry'[j][u])
    BY <1>00, <2>3
  <2> QED BY <1>0, <2>1, <2>5, <2>6, <2>7, NoMoreHolders
<1>4. ASSUME NEW r \in Slots, NEW i \in Ips, Enter(r, i) PROVE ServedInv'
  <2> DEFINE x == [NoArrival EXCEPT !.pc = "incr", !.ip = i, !.at = now, !.n = seen[i] + 1]
  <2>1. x.pc = "incr"
    BY NoArrivalOK DEF Arrival
  <2>2. Go(r, x) /\ UNCHANGED <<now, count, expiry, served, timely>>
    BY <1>4 DEF Enter
  <2> HIDE DEF x
  <2>3. \A j, u : Holders(j, u)' \subseteq Holders(j, u)
    BY <2>1, <2>2, HoldersOfOthers
  <2> QED BY <1>0, <1>00, <2>2, <2>3, NoMoreHolders
<1>5. ASSUME NEW r \in Slots, Incr(r) \/ IncrResent(r) PROVE ServedInv'
  BY <1>5, IncrementedServed DEF Incr, IncrResent
<1>6. ASSUME NEW r \in Slots, Pexpire(r) PROVE ServedInv'
  <2> DEFINE x == [arrival[r] EXCEPT !.pc = "decide"]
  <2>1. arrival[r].pc = "pexpire" /\ arrival[r] \in Arrival /\ arrival[r].at <= now
    BY <1>6 DEF Pexpire, LimiterInv, LimiterTypeOK, ArrivalsOK, ArrivalOK
  <2>2. /\ x.pc = "decide"
        /\ x.ip = arrival[r].ip /\ x.at = arrival[r].at /\ x.n = arrival[r].n
        /\ x.count = arrival[r].count
    BY <2>1 DEF Arrival
  <2>3. PICK i \in Ips, w \in Windows : i = arrival[r].ip /\ w = WindowStart(r)
    BY <2>1, CounterInRange
  <2>4. /\ Go(r, x) /\ UNCHANGED <<now, count, served, timely>>
        /\ expiry' = [expiry EXCEPT ![i][w] = now + Window]
    BY <1>6, <2>3 DEF Pexpire
  <2> HIDE DEF x
  <2>5. \A j, u : Holders(j, u)' \subseteq Holders(j, u)
    BY <2>1, <2>2, <2>4, HoldersOfOthers
  <2>7. w < WindowOf(now + Window)
    <3>1. arrival[r].at \in Nat
      BY <2>1, LimiterAssumption DEF Arrival
    <3>2. w <= WindowOf(now)
      BY <1>0, <2>1, <2>3, <3>1, WindowsAscend DEF WindowStart
    <3>3. WindowOf(now) < WindowOf(now + Window) /\ WindowOf(now) \in Nat
          /\ WindowOf(now + Window) \in Nat /\ w \in Nat
      BY <1>0, NextWindow, Division, LimiterAssumption DEF Windows
    <3> QED BY <3>2, <3>3
  <2>8. \A j \in Ips, u \in Windows : expiry'[j][u] # Never => u < WindowOf(expiry'[j][u])
    <3>1. \A j \in Ips, u \in Windows :
             expiry'[j][u] = IF j = i /\ u = w THEN now + Window ELSE expiry[j][u]
      BY <2>4 DEF LimiterInv, LimiterTypeOK
    <3> QED BY <1>00, <2>7, <3>1
  <2> QED BY <1>0, <2>4, <2>5, <2>8, NoMoreHolders
<1>7. ASSUME NEW r \in Slots, Decide(r) \/ FailOpen(r) PROVE ServedInv'
  <2>1. UNCHANGED <<now, count, expiry>>
    BY <1>7 DEF Decide, FailOpen
  <2> QED BY <1>0, <1>00, <1>7, <2>1, HoldersOfDone, NoMoreHolders
<1> QED BY <1>1, <1>2, <1>3, <1>4, <1>5, <1>6, <1>7 DEF LimiterNext

-----------------------------------------------------------------------------
(* The theorems.                                                           *)

\* The inductive invariant holds in every reachable state: a counter, and every
\* reply an INCR on it gave, is covered by as many distinct requests of that
\* client and window, unless a Redis call on it failed.
THEOREM LimiterInvariance == LimiterSpec => []LimiterInv
BY LimiterInitInv, LimiterNextInv, PTL DEF LimiterSpec

\* LimiterTypeOK: in particular no counter outgrows twice the requests sent.
THEOREM LimiterTyping == LimiterSpec => []LimiterTypeOK
<1>1. LimiterInv => LimiterTypeOK
  BY DEF LimiterInv
<1> QED BY LimiterInvariance, <1>1, PTL

\* NoOrphanCounter: unless a Redis call fails, a counter without a TTL has the
\* request that created it still on its way to PEXPIRE.
THEOREM CountersGetTheirTtl == LimiterSpec => []NoOrphanCounter
<1>1. LimiterInv => NoOrphanCounter
  BY DEF LimiterInv
<1> QED BY LimiterInvariance, <1>1, PTL

\* NeverRefusesEarly: a request answered 429 comes after MaxRequests others of
\* its own client and window.
THEOREM RefusalsAreDeserved == LimiterSpec => []NeverRefusesEarly
<1>1. LimiterInv => NeverRefusesEarly
  <2> SUFFICES ASSUME LimiterInv, NEW r \in Slots, arrival[r].pc = "decide",
                      OverLimit(arrival[r].count), Counter(r) \notin spoilt
               PROVE  Cardinality(OfWindow(counted, arrival[r].ip, WindowStart(r)) \ {Who(r)})
                          >= MaxRequests
    BY DEF NeverRefusesEarly
  <2> DEFINE S == OfWindow(counted, arrival[r].ip, WindowStart(r))
  <2>1. arrival[r].count <= Cardinality(S)
    BY DEF LimiterInv, CountsOK, Hits
  <2>2. Who(r) \in S
    <3>1. Who(r) \in counted
      BY DEF LimiterInv, ArrivalsOK, ArrivalOK
    <3>2. Who(r).ip = arrival[r].ip /\ WindowOf(Who(r).at) = WindowStart(r)
      BY DEF Who, WindowStart
    <3> QED BY <3>1, <3>2 DEF OfWindow
  <2>3. IsFiniteSet(S) /\ Cardinality(S) \in Nat
    BY WindowIsFinite DEF LimiterInv, LimiterTypeOK, CountedOK
  <2> HIDE DEF S
  <2>4. Cardinality(S \ {Who(r)}) = Cardinality(S) - 1
    BY <2>2, <2>3, FS_RemoveElement
  <2>5. arrival[r].count \in Nat
    BY LimiterAssumption DEF LimiterInv, LimiterTypeOK, Arrival
  <2>6. Cardinality(S \ {Who(r)}) >= MaxRequests
    BY <2>1, <2>3, <2>4, <2>5, LimiterAssumption DEF OverLimit
  <2> QED BY <2>6 DEF S
<1> QED BY LimiterInvariance, <1>1, PTL

\* LimitPerWindow: of the requests of a window that INCR counted before the window
\* ended, no more than MaxRequests go on, however concurrent requests interleave,
\* whichever Redis calls fail or are resent and however late other INCRs are.
THEOREM WindowsAreLimited == LimiterSpec => []LimitPerWindow
<1>1. LimiterInv /\ ServedInv => LimitPerWindow
  <2> SUFFICES ASSUME LimiterInv, ServedInv, NEW i \in Ips, NEW w \in Windows
               PROVE  Cardinality(OfWindow(served \cap timely, i, w)) <= MaxRequests
    BY DEF LimitPerWindow
  <2>1. IsFiniteSet(Holders(i, w)) /\ Cardinality(Holders(i, w)) \in Nat
    BY HoldersFinite
  <2>2. OfWindow(served \cap timely, i, w) \in SUBSET Holders(i, w)
    BY DEF Holders
  <2>3. /\ IsFiniteSet(OfWindow(served \cap timely, i, w))
        /\ Cardinality(OfWindow(served \cap timely, i, w)) <= Cardinality(Holders(i, w))
    BY <2>1, <2>2, FS_Subset
  <2>4. Cardinality(OfWindow(served \cap timely, i, w)) \in Nat
    BY <2>3, FS_CardinalityType
  <2>5. Cardinality(Holders(i, w)) <= MaxRequests /\ MaxRequests \in Nat
    BY LimiterAssumption DEF ServedInv
  <2> QED BY <2>1, <2>3, <2>4, <2>5
<1>2. LimiterInit => ServedInv
  BY ServedInit
<1>3. LimiterInv /\ ServedInv /\ [LimiterNext]_limiterVars => ServedInv'
  BY ServedNext
<1> QED BY LimiterInvariance, <1>1, <1>2, <1>3, PTL DEF LimiterSpec

=============================================================================
