----------------------------- MODULE RateLimiter -----------------------------
(***************************************************************************)
(* The fixed-window rate limiter of rateLimiter.ts: a Redis counter per    *)
(* client and window, incremented by every request and given its TTL by    *)
(* the request that created it.  The window is computed before the first   *)
(* await; INCR and PEXPIRE run whenever they reach Redis.                  *)
(***************************************************************************)
EXTENDS Integers, FiniteSets

CONSTANTS
    Ips,          \* the clients
    Slots,        \* requests that can be in flight together
    Window,       \* windowMs, in ticks
    MaxRequests,  \* maxRequests
    MaxTime,      \* bound: ticks in one behaviour
    MaxSeen,      \* bound: requests of one client in one behaviour
    MayFail,      \* bound: whether Redis calls may reject or be sent again
    NoIp          \* no client

ASSUME LimiterAssumption ==
    /\ Window \in Nat \ {0}
    /\ MaxRequests \in Nat \ {0}
    /\ MaxTime \in Nat
    /\ MaxSeen \in Nat
    /\ MayFail \in BOOLEAN
    /\ NoIp \notin Ips

VARIABLES
    now,      \* the time, in ticks
    count,    \* the counters, per client and window; 0 for no key
    expiry,   \* when a counter's TTL runs out; Never without one
    arrival,  \* the request in each slot
    seen,     \* history: how many requests each client has sent
    counted,  \* history: the requests INCR has counted
    timely,   \* history: those counted while their window was still open
    served,   \* history: the requests that went on to the next handler
    spoilt    \* history: counters a Redis call has failed on

limiterVars == <<now, count, expiry, arrival, seen, counted, timely, served, spoilt>>

Never == -1

WindowOf(time) == time \div Window

Windows == 0..WindowOf(MaxTime)

\* The nth request of a client; its window is that of its arrival.
Visitor == [ip : Ips, at : 0..MaxTime, n : 1..MaxSeen]

Arrival ==
    [pc    : {"idle", "incr", "pexpire", "decide"},
     ip    : Ips \cup {NoIp},
     at    : 0..MaxTime,
     n     : 0..MaxSeen,
     count : 0..(2 * MaxSeen)]   \* what INCR returned

NoArrival == [pc |-> "idle", ip |-> NoIp, at |-> 0, n |-> 0, count |-> 0]

LimiterTypeOK ==
    /\ now \in 0..MaxTime
    /\ count \in [Ips -> [Windows -> 0..(2 * MaxSeen)]]
    /\ expiry \in [Ips -> [Windows -> Never..(MaxTime + Window)]]
    /\ arrival \in [Slots -> Arrival]
    /\ seen \in [Ips -> 0..MaxSeen]
    /\ counted \subseteq Visitor
    /\ timely \subseteq counted
    /\ served \subseteq Visitor
    /\ spoilt \subseteq Ips \X Windows

LimiterInit ==
    /\ now = 0
    /\ count = [i \in Ips |-> [w \in Windows |-> 0]]
    /\ expiry = [i \in Ips |-> [w \in Windows |-> Never]]
    /\ arrival = [r \in Slots |-> NoArrival]
    /\ seen = [i \in Ips |-> 0]
    /\ counted = {}
    /\ timely = {}
    /\ served = {}
    /\ spoilt = {}

Who(r) == [ip |-> arrival[r].ip, at |-> arrival[r].at, n |-> arrival[r].n]

\* windowStart, part of the key from the start to the end of the request.
WindowStart(r) == WindowOf(arrival[r].at)

Go(r, x) == arrival' = [arrival EXCEPT ![r] = x]

-----------------------------------------------------------------------------
(* One request.                                                            *)

Enter(r, i) ==
    /\ arrival[r].pc = "idle"
    /\ seen[i] < MaxSeen
    /\ seen' = [seen EXCEPT ![i] = @ + 1]
    /\ Go(r, [NoArrival EXCEPT !.pc = "incr", !.ip = i, !.at = now, !.n = seen[i] + 1])
    /\ UNCHANGED <<now, count, expiry, counted, timely, served, spoilt>>

\* A defect: the TTL is given to the second request's counter.
NeedsTtl_Second(c) == c = 2

NeedsTtl(c) == c = 1

\* INCR runs k times (k = 2: its first reply was lost and it was sent again).
Incremented(r, k) ==
    LET i == arrival[r].ip
        c == count[i][WindowStart(r)] + k
    IN  /\ arrival[r].pc = "incr"
        /\ count' = [count EXCEPT ![i][WindowStart(r)] = c]
        /\ counted' = counted \cup {Who(r)}
        /\ timely' = timely \cup {p \in {Who(r)} : WindowOf(now) = WindowStart(r)}
        /\ Go(r, [arrival[r] EXCEPT !.pc = IF NeedsTtl(c) THEN "pexpire" ELSE "decide",
                                    !.count = c])
        /\ UNCHANGED <<now, expiry, seen, served>>

Incr(r) == Incremented(r, 1) /\ UNCHANGED spoilt

\* A defect: the TTL is given in the wrong unit.
Pexpire_TwiceAsLong(r) ==
    /\ arrival[r].pc = "pexpire"
    /\ expiry' = [expiry EXCEPT ![arrival[r].ip][WindowStart(r)] = now + 2 * Window]
    /\ Go(r, [arrival[r] EXCEPT !.pc = "decide"])
    /\ UNCHANGED <<now, count, seen, counted, timely, served, spoilt>>

Pexpire(r) ==
    /\ arrival[r].pc = "pexpire"
    /\ expiry' = [expiry EXCEPT ![arrival[r].ip][WindowStart(r)] = now + Window]
    /\ Go(r, [arrival[r] EXCEPT !.pc = "decide"])
    /\ UNCHANGED <<now, count, seen, counted, timely, served, spoilt>>

\* Two defects: one request too many passes, or one too few.
OverLimit_OneMore(c) == c > MaxRequests + 1

OverLimit_OneLess(c) == c >= MaxRequests

OverLimit(c) == c > MaxRequests

\* 429, or on to the next handler.
Decide(r) ==
    /\ arrival[r].pc = "decide"
    /\ served' = IF OverLimit(arrival[r].count) THEN served ELSE served \cup {Who(r)}
    /\ Go(r, NoArrival)
    /\ UNCHANGED <<now, count, expiry, seen, counted, timely, spoilt>>

-----------------------------------------------------------------------------
(* Redis and the clock.                                                    *)

\* The counter whose key request r uses.
Counter(r) == <<arrival[r].ip, WindowStart(r)>>

IncrResent(r) ==
    /\ MayFail
    /\ Incremented(r, 2)
    /\ spoilt' = spoilt \cup {Counter(r)}

\* INCR or PEXPIRE rejects: the limiter fails open with next().
FailOpen(r) ==
    /\ MayFail
    /\ arrival[r].pc \in {"incr", "pexpire"}
    /\ served' = served \cup {Who(r)}
    /\ spoilt' = spoilt \cup {Counter(r)}
    /\ Go(r, NoArrival)
    /\ UNCHANGED <<now, count, expiry, seen, counted, timely>>

CounterExpires(i, w) ==
    /\ count[i][w] # 0
    /\ expiry[i][w] # Never
    /\ expiry[i][w] <= now
    /\ count' = [count EXCEPT ![i][w] = 0]
    /\ expiry' = [expiry EXCEPT ![i][w] = Never]
    /\ UNCHANGED <<now, arrival, seen, counted, timely, served, spoilt>>

\* Bound: the last window ends the behaviour.  A request may be overtaken by
\* the clock at any of its awaits; a counter that is due is gone before the
\* clock moves on.
ClockTicks ==
    /\ now < MaxTime
    /\ \A i \in Ips, w \in Windows : expiry[i][w] = Never \/ expiry[i][w] > now
    /\ now' = now + 1
    /\ UNCHANGED <<count, expiry, arrival, seen, counted, timely, served, spoilt>>

LimiterNext ==
    \/ ClockTicks
    \/ \E i \in Ips, w \in Windows : CounterExpires(i, w)
    \/ \E r \in Slots :
          \/ \E i \in Ips : Enter(r, i)
          \/ Incr(r) \/ Pexpire(r) \/ Decide(r) \/ IncrResent(r) \/ FailOpen(r)

LimiterSpec == LimiterInit /\ [][LimiterNext]_limiterVars

-----------------------------------------------------------------------------

OfWindow(S, i, w) == {p \in S : p.ip = i /\ WindowOf(p.at) = w}

\* Of the requests of a window that INCR counted while the window was open, no
\* more than MaxRequests go on, however concurrent INCRs fall, calls fail or
\* the clock overtakes other requests: a counter outlives its window, also when
\* a late INCR creates it again.  What goes on beyond the limit is a request
\* whose INCR was rejected, or came after the window's end.
LimitPerWindow ==
    \A i \in Ips, w \in Windows :
        Cardinality(OfWindow(served \cap timely, i, w)) <= MaxRequests

\* A request about to be refused is preceded by MaxRequests others of its own
\* window: requests of another window, or of another client, do not count.
NeverRefusesEarly ==
    \A r \in Slots :
        arrival[r].pc = "decide" /\ OverLimit(arrival[r].count) /\ Counter(r) \notin spoilt
            => Cardinality(OfWindow(counted, arrival[r].ip, WindowStart(r)) \ {Who(r)})
                   >= MaxRequests

\* A counter without a TTL has its creator on the way to give it one: unless a
\* Redis call fails, no counter stays behind.
NoOrphanCounter ==
    \A i \in Ips, w \in Windows :
        count[i][w] # 0 /\ expiry[i][w] = Never /\ <<i, w>> \notin spoilt
            => \E r \in Slots : arrival[r].pc = "pexpire" /\ Counter(r) = <<i, w>>

=============================================================================
