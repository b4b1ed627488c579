-------------------------- MODULE Shutdown_proofs --------------------------
(***************************************************************************)
(* Proofs about Shutdown, for any number of connections and of signals.    *)
(*                                                                         *)
(* ShutdownInv says where a run of shutdown can be, given what is still    *)
(* open: a run that has left its drain without a timeout has seen every    *)
(* connection gone, and nothing can bring one back (DrainOK); what has     *)
(* ended has nobody using it (EndedOK); and while there is one run only,   *)
(* its place tells the state of the pool and of Redis (OneRunOK).          *)
(***************************************************************************)
EXTENDS Shutdown, TLAPS

-----------------------------------------------------------------------------
(* The inductive invariant.                                                *)

Quiet == \A c \in Conns : conn[c] = "none"

\* The run has got past its drain.
PastDrain(g) == run[g] \notin {"none", "drain", "drainAgain"}

DrainOK ==
    /\ server = "starting" => Quiet
    /\ ~timedOut
         => /\ failed = {}
            /\ exit # "running" => Quiet
            /\ \A g \in Signals : PastDrain(g) => Quiet
            /\ \A d \in Resource :
                  resource[d] # "open" => \E g \in Signals : PastDrain(g)

EndedOK ==
    /\ resource["pool"] = "ended"
         => \A c \in Conns : handler[c] \notin {"pool", "audit"}
    /\ resource["redis"] = "ended" => \A c \in Conns : handler[c] # "redis"

\* What the pool and Redis are while the only run is at pc.
PoolAt(pc) ==
    IF pc \in {"redis", "redisQuit", "exit"} THEN "ended"
    ELSE IF pc = "poolEnd" THEN "ending" ELSE "open"

RedisAt(pc) ==
    IF pc = "exit" THEN "ended" ELSE IF pc = "redisQuit" THEN "ending" ELSE "open"

OneRunOK ==
    /\ \A g \in Signals :
          OneSignal /\ run[g] # "none"
              => /\ resource["pool"] = PoolAt(run[g])
                 /\ resource["redis"] = RedisAt(run[g])
    /\ (\A g \in Signals : run[g] = "none")
         => resource["pool"] = "open" /\ resource["redis"] = "open"
    /\ exit = "0" => \E g \in Signals : run[g] = "exit"

ShutdownInv == ShutdownTypeOK /\ DrainOK /\ EndedOK /\ OneRunOK

-----------------------------------------------------------------------------

LEMMA ShutdownInitInv == ShutdownInit => ShutdownInv
<1> SUFFICES ASSUME ShutdownInit PROVE ShutdownInv
  OBVIOUS
<1> USE DEF ShutdownInit
<1>1. ShutdownTypeOK
  BY DEF ShutdownTypeOK, Resource
<1>2. DrainOK
  BY DEF DrainOK, Quiet, Resource
<1>3. EndedOK
  BY DEF EndedOK
<1>4. OneRunOK
  BY DEF OneRunOK, Resource
<1> QED
  BY <1>1, <1>2, <1>3, <1>4 DEF ShutdownInv

\* The server's own steps.
LEMMA ListenInv ==
    ASSUME ShutdownInv, Running, Listen \/ ListenFails
    PROVE  ShutdownInv'
BY DEF ShutdownInv, ShutdownTypeOK, DrainOK, EndedOK, OneRunOK, OneSignal, Quiet,
       PastDrain, Running, Listen, ListenFails, trafficVars

\* The steps of a request.
LEMMA TrafficInv ==
    ASSUME ShutdownInv, Running, NEW c \in Conns, Traffic(c) \/ CallReturns(c)
    PROVE  ShutdownInv'
<1> USE DEF ShutdownInv, Running
<1>1. /\ UNCHANGED <<server, resource, run, exit, timedOut>>
      /\ OneRunOK'
  BY DEF Traffic, Arrive, Answer, Disconnect, HandlerEnds, Call, CallReturns,
         OneRunOK, OneSignal, PoolAt, RedisAt
<1>2. ShutdownTypeOK'
  <2>1. conn' \in [Conns -> {"none", "idle", "waiting"}]
    BY DEF Traffic, Arrive, Answer, Disconnect, HandlerEnds, Call, CallReturns,
           ShutdownTypeOK
  <2>2. handler' \in [Conns -> {"none", "busy", "audit"} \cup Resource]
    BY DEF Traffic, Arrive, Answer, Disconnect, HandlerEnds, Call, CallReturns,
           ShutdownTypeOK
  <2>3. failed' \subseteq Conns
    BY DEF Traffic, Arrive, Answer, Disconnect, HandlerEnds, Call, CallReturns,
           ShutdownTypeOK
  <2> QED
    BY <1>1, <2>1, <2>2, <2>3 DEF ShutdownTypeOK
<1>3. EndedOK'
  <2>1. /\ \A x \in Conns \ {c} : handler'[x] = handler[x]
        /\ handler'[c] \in Resource /\ handler'[c] # handler[c]
             => resource[handler'[c]] = "open"
        /\ handler'[c] = "audit" /\ handler[c] # "audit" => resource["pool"] = "open"
    BY DEF Traffic, Arrive, Answer, Disconnect, HandlerEnds, Call, CallReturns,
           ShutdownTypeOK, Resource
  <2> QED
    BY <1>1, <2>1 DEF EndedOK, Resource
<1>4. DrainOK'
  BY <1>1 DEF Traffic, Arrive, Answer, Disconnect, HandlerEnds, Call, CallReturns,
         ShutdownTypeOK, DrainOK, Quiet, PastDrain, Resource
<1> QED
  BY <1>1, <1>2, <1>3, <1>4

LEMMA SignalInv ==
    ASSUME ShutdownInv, Running, NEW g \in Signals, Signal(g)
    PROVE  ShutdownInv'
<1> USE DEF ShutdownInv, Running, Signal, Move
<1>1. ShutdownTypeOK'
  BY DEF ShutdownTypeOK
<1>2. DrainOK'
  BY DEF ShutdownTypeOK, DrainOK, Quiet, PastDrain
<1>3. EndedOK'
  BY DEF EndedOK
<1>4. OneRunOK'
  BY DEF ShutdownTypeOK, OneRunOK, OneSignal, PoolAt, RedisAt
<1> QED
  BY <1>1, <1>2, <1>3, <1>4

LEMMA ClosedInv ==
    ASSUME ShutdownInv, Running, Closed
    PROVE  ShutdownInv'
<1> USE DEF ShutdownInv, Running, Closed, ShutdownRejects, trafficVars
<1>1. ShutdownTypeOK'
  BY DEF ShutdownTypeOK
<1>2. DrainOK'
  BY DEF ShutdownTypeOK, DrainOK, Quiet, PastDrain
<1>3. EndedOK'
  BY DEF EndedOK
<1>4. OneRunOK'
  BY DEF ShutdownTypeOK, OneRunOK, OneSignal, PoolAt, RedisAt
<1> QED
  BY <1>1, <1>2, <1>3, <1>4

\* The steps of one run of shutdown after the signal that started it.
RunStep(g) ==
    \/ Timeout(g) \/ EndPool(g) \/ PoolEnds(g) \/ QuitRedis(g) \/ RedisQuits(g)
    \/ Exit(g)

LEMMA RunInv ==
    ASSUME ShutdownInv, Running, NEW g \in Signals, RunStep(g)
    PROVE  ShutdownInv'
<1> USE DEF ShutdownInv, Running, RunStep, Timeout, EndPool, PoolEnds, QuitRedis,
            RedisQuits, Exit, Move, trafficVars
<1>1. ShutdownTypeOK'
  <2>1. /\ run' \in [Signals -> {"none", "drain", "drainAgain", "pool", "poolEnd",
                                  "redis", "redisQuit", "exit"}]
        /\ resource' \in [Resource -> {"open", "ending", "ended"}]
    BY DEF ShutdownTypeOK, Resource
  <2>2. run[g] # "none" /\ run'[g] # "none" /\ \A h \in Signals \ {g} : run'[h] = run[h]
    BY DEF ShutdownTypeOK
  <2>3. UNCHANGED <<server, conn, handler, failed>>
    OBVIOUS
  <2>4. (server = "closing")' <=> \E h \in Signals : run'[h] # "none"
    BY <2>2, <2>3 DEF ShutdownTypeOK
  <2>5. exit' \in {"running", "0", "1"} /\ timedOut' \in BOOLEAN
    BY DEF ShutdownTypeOK
  <2> QED
    BY <2>1, <2>3, <2>4, <2>5 DEF ShutdownTypeOK
<1>2. DrainOK'
  BY DEF ShutdownTypeOK, DrainOK, Quiet, PastDrain, Resource
<1>3. EndedOK'
  BY DEF ShutdownTypeOK, EndedOK, Resource
<1>4. OneRunOK'
  BY DEF ShutdownTypeOK, OneRunOK, OneSignal, PoolAt, RedisAt, Resource
<1> QED
  BY <1>1, <1>2, <1>3, <1>4

LEMMA ShutdownStutter == ShutdownInv /\ UNCHANGED shutdownVars => ShutdownInv'
BY DEF ShutdownInv, ShutdownTypeOK, DrainOK, EndedOK, OneRunOK, OneSignal, Quiet,
       PastDrain, shutdownVars, trafficVars

\* The inductive invariant holds in every reachable state: who has been drained
\* and what has ended follows from where the runs of shutdown are.
THEOREM ShutdownInvariance == ShutdownSpec => []ShutdownInv
<1>1. ShutdownInv /\ [ShutdownNext]_shutdownVars => ShutdownInv'
  <2> SUFFICES ASSUME ShutdownInv, ShutdownNext PROVE ShutdownInv'
    BY ShutdownStutter
  <2>1. CASE Running /\ (Listen \/ ListenFails \/ Closed)
    BY <2>1, ListenInv, ClosedInv
  <2>2. ASSUME NEW c \in Conns, (Running /\ Traffic(c)) \/ Returns(c)
        PROVE  ShutdownInv'
    BY <2>2, TrafficInv DEF Returns
  <2>3. ASSUME NEW g \in Signals, (Running /\ Signal(g)) \/ Times(g) \/ Proceeds(g)
        PROVE  ShutdownInv'
    BY <2>3, SignalInv, RunInv DEF Times, Proceeds, RunStep
  <2> QED
    BY <2>1, <2>2, <2>3 DEF ShutdownNext
<1> QED
  BY <1>1, ShutdownInitInv, PTL DEF ShutdownSpec

-----------------------------------------------------------------------------
(* The theorems.                                                           *)

\* The variables of the process keep their types, and the server is closing
\* exactly when a signal has been received.
THEOREM ShutdownTyping == ShutdownSpec => []ShutdownTypeOK
BY ShutdownInvariance, PTL DEF ShutdownInv

\* However many connections and signals there are: unless a drain runs out of
\* its 10 s, no waiting client meets a closed pool or Redis, and none is cut
\* off by the exit.
THEOREM DrainCutsNobodyOff == ShutdownSpec => []NobodyCutOff
<1>1. ShutdownInv => NobodyCutOff
  BY DEF ShutdownInv, DrainOK, Quiet, NobodyCutOff
<1> QED
  BY <1>1, ShutdownInvariance, PTL

\* An exit with 0 after one signal leaves nothing open and nothing in use.
THEOREM OneSignalExitsClean == ShutdownSpec => []CleanExit
<1>1. ShutdownInv => CleanExit
  <2> SUFFICES ASSUME ShutdownInv, exit = "0", OneSignal
               PROVE  /\ \A d \in Resource : resource[d] = "ended"
                      /\ \A c \in Conns : handler[c] \in {"none", "busy"}
    BY DEF CleanExit
  <2>1. resource["pool"] = "ended" /\ resource["redis"] = "ended"
    BY DEF ShutdownInv, OneRunOK, PoolAt, RedisAt
  <2> QED
    BY <2>1 DEF ShutdownInv, ShutdownTypeOK, EndedOK, Resource
<1> QED
  BY <1>1, ShutdownInvariance, PTL

=============================================================================
