------------------------------ MODULE Shutdown ------------------------------
(***************************************************************************)
(* The life of one gateway process (index.ts): it listens, serves requests *)
(* that use the Postgres pool and Redis, and on SIGTERM or SIGINT runs     *)
(* shutdown: server.close, then pool.end, then redis.quit, then exit.      *)
(* Every signal starts a run of its own.                                   *)
(*                                                                         *)
(* A handler does not end with its connection.  It goes on when its client *)
(* has left, and the proxy writes an audit entry after its response has    *)
(* ended.  Node's server, the pool and the Redis client are external:      *)
(* close waits for the connections and calls back with an error when the   *)
(* server was closed before; end and quit wait for the calls in progress   *)
(* and refuse those that come after.                                       *)
(***************************************************************************)
CONSTANTS
    Conns,   \* connections that can be open together
    Signals  \* signals the process may receive

VARIABLES
    server,    \* 'starting', 'listening' or 'closing'
    conn,      \* each connection: 'none', 'idle' or 'waiting' for an answer
    handler,   \* what the connection's last request is doing
    resource,  \* the pool and Redis: 'open', 'ending' or 'ended'
    run,       \* where the run of shutdown that each signal started is
    exit,      \* 'running', or how the process ended
    timedOut,  \* history: whether a 10 s timer ended a drain
    failed     \* history: clients whose request met a closed resource

trafficVars == <<conn, handler, failed>>
shutdownVars == <<server, trafficVars, resource, run, exit, timedOut>>

Resource == {"pool", "redis"}

ShutdownTypeOK ==
    /\ server \in {"starting", "listening", "closing"}
    /\ conn \in [Conns -> {"none", "idle", "waiting"}]
    /\ handler \in [Conns -> {"none", "busy", "audit"} \cup Resource]
    /\ resource \in [Resource -> {"open", "ending", "ended"}]
    /\ run \in [Signals -> {"none", "drain", "drainAgain", "pool", "poolEnd",
                            "redis", "redisQuit", "exit"}]
    /\ exit \in {"running", "0", "1"}
    /\ timedOut \in BOOLEAN
    /\ failed \subseteq Conns
    /\ (server = "closing") <=> \E g \in Signals : run[g] # "none"

ShutdownInit ==
    /\ server = "starting"
    /\ conn = [c \in Conns |-> "none"]
    /\ handler = [c \in Conns |-> "none"]
    /\ resource = [d \in Resource |-> "open"]
    /\ run = [g \in Signals |-> "none"]
    /\ exit = "running"
    /\ timedOut = FALSE
    /\ failed = {}

-----------------------------------------------------------------------------
(* server.listen and its 'error' event.                                    *)

Listen ==
    /\ server = "starting"
    /\ server' = "listening"
    /\ UNCHANGED <<trafficVars, resource, run, exit, timedOut>>

ListenFails ==
    /\ server = "starting"
    /\ exit' = "1"
    /\ UNCHANGED <<server, trafficVars, resource, run, timedOut>>

-----------------------------------------------------------------------------
(* Requests.                                                               *)

\* A request on a new connection, or on one kept alive, also while draining.
Arrive(c) ==
    /\ handler[c] = "none"
    /\ conn[c] = "idle" \/ (conn[c] = "none" /\ server = "listening")
    /\ conn' = [conn EXCEPT ![c] = "waiting"]
    /\ handler' = [handler EXCEPT ![c] = "busy"]
    /\ UNCHANGED <<server, failed, resource, run, exit, timedOut>>

\* The handler queries the pool or Redis, which refuse once they are ending.
Call(c, d) ==
    /\ handler[c] = "busy"
    /\ IF resource[d] = "open"
         THEN handler' = [handler EXCEPT ![c] = d] /\ UNCHANGED failed
         ELSE /\ failed' = failed \cup {x \in {c} : conn[x] = "waiting"}
              /\ UNCHANGED handler
    /\ UNCHANGED <<server, conn, resource, run, exit, timedOut>>

CallReturns(c) ==
    /\ handler[c] \in Resource \cup {"audit"}
    /\ handler' = [handler EXCEPT ![c] = IF @ = "audit" THEN "none" ELSE "busy"]
    /\ UNCHANGED <<server, conn, failed, resource, run, exit, timedOut>>

\* The response ends, and with it the handler or all but its audit entry.
Answer(c) ==
    /\ handler[c] = "busy"
    /\ conn[c] = "waiting"
    /\ conn' = [conn EXCEPT ![c] = "idle"]
    /\ \E h \in {"none"} \cup {a \in {"audit"} : resource["pool"] = "open"} :
          handler' = [handler EXCEPT ![c] = h]
    /\ UNCHANGED <<server, failed, resource, run, exit, timedOut>>

\* The client leaves, or an idle connection reaches keepAliveTimeout.
Disconnect(c) ==
    /\ conn[c] # "none"
    /\ conn' = [conn EXCEPT ![c] = "none"]
    /\ UNCHANGED <<server, handler, failed, resource, run, exit, timedOut>>

\* A handler without a client comes to its end.
HandlerEnds(c) ==
    /\ handler[c] = "busy"
    /\ conn[c] = "none"
    /\ handler' = [handler EXCEPT ![c] = "none"]
    /\ UNCHANGED <<server, conn, failed, resource, run, exit, timedOut>>

-----------------------------------------------------------------------------
(* shutdown.                                                               *)

Move(g, here, next) == run[g] = here /\ run' = [run EXCEPT ![g] = next]

\* A defect: the server goes on listening.
Signal_KeepsListening(g) ==
    /\ Move(g, "none", "drain")
    /\ UNCHANGED <<server, trafficVars, resource, exit, timedOut>>

\* A defect: the promise of server.close is not awaited.
Signal_NotAwaited(g) ==
    /\ Move(g, "none", "pool")
    /\ server' = "closing"
    /\ UNCHANGED <<trafficVars, resource, exit, timedOut>>

\* server.close, also before the 'listening' event, which then never comes: idle
\* connections are closed at once.
Signal(g) ==
    /\ Move(g, "none", IF server = "closing" THEN "drainAgain" ELSE "drain")
    /\ server' = "closing"
    /\ conn' = [c \in Conns |-> IF conn[c] = "idle" THEN "none" ELSE conn[c]]
    /\ UNCHANGED <<handler, failed, resource, exit, timedOut>>

\* handleSignal's catch: the process ends with 1, wherever the other run is.
ShutdownRejects == exit' = "1" /\ UNCHANGED run

\* The 'close' event: the first run goes on, any other is told that the server
\* was not running and rejects.
Closed ==
    /\ \A c \in Conns : conn[c] = "none"
    /\ \E g \in Signals : run[g] \in {"drain", "drainAgain"}
    /\ IF \E g \in Signals : run[g] = "drainAgain"
         THEN ShutdownRejects
         ELSE /\ run' = [g \in Signals |-> IF run[g] = "drain" THEN "pool" ELSE run[g]]
              /\ UNCHANGED exit
    /\ UNCHANGED <<server, trafficVars, resource, timedOut>>

\* A defect: there is no timer.
Timeout_Never(g) == FALSE /\ UNCHANGED shutdownVars

\* The run's 10 s are over: it goes on as if the server had closed.
Timeout(g) ==
    /\ Move(g, "drain", "pool") \/ Move(g, "drainAgain", "pool")
    /\ timedOut' = TRUE
    /\ UNCHANGED <<server, trafficVars, resource, exit>>

\* A defect: the promise of pool.end is not awaited.
EndPool_NotAwaited(g) ==
    /\ Move(g, "pool", "redis")
    /\ resource' = [resource EXCEPT !["pool"] = "ending"]
    /\ UNCHANGED <<server, trafficVars, exit, timedOut>>

\* db.$client.end(): a second call rejects, which is caught.
EndPool(g) ==
    /\ Move(g, "pool", IF resource["pool"] = "open" THEN "poolEnd" ELSE "redis")
    /\ resource' = [resource EXCEPT !["pool"] = IF @ = "open" THEN "ending" ELSE @]
    /\ UNCHANGED <<server, trafficVars, exit, timedOut>>

PoolEnds(g) ==
    /\ \A c \in Conns : handler[c] \notin {"pool", "audit"}
    /\ Move(g, "poolEnd", "redis")
    /\ resource' = [resource EXCEPT !["pool"] = "ended"]
    /\ UNCHANGED <<server, trafficVars, exit, timedOut>>

\* redis.quit(): QUIT comes after the commands that were sent before it.
QuitRedis(g) ==
    /\ Move(g, "redis", "redisQuit")
    /\ resource' = [resource EXCEPT !["redis"] = IF @ = "open" THEN "ending" ELSE @]
    /\ UNCHANGED <<server, trafficVars, exit, timedOut>>

RedisQuits(g) ==
    /\ \A c \in Conns : handler[c] # "redis"
    /\ Move(g, "redisQuit", "exit")
    /\ resource' = [resource EXCEPT !["redis"] = "ended"]
    /\ UNCHANGED <<server, trafficVars, exit, timedOut>>

Exit(g) ==
    /\ run[g] = "exit"
    /\ exit' = "0"
    /\ UNCHANGED <<server, trafficVars, resource, run, timedOut>>

-----------------------------------------------------------------------------

Running == exit = "running"

Returns(c) == Running /\ CallReturns(c)

Times(g) == Running /\ Timeout(g)

Proceeds(g) ==
    /\ Running
    /\ EndPool(g) \/ PoolEnds(g) \/ QuitRedis(g) \/ RedisQuits(g) \/ Exit(g)

Traffic(c) ==
    \/ Arrive(c) \/ Answer(c) \/ Disconnect(c) \/ HandlerEnds(c)
    \/ \E d \in Resource : Call(c, d)

ShutdownNext ==
    \/ Running /\ (Listen \/ ListenFails \/ Closed)
    \/ \E c \in Conns : (Running /\ Traffic(c)) \/ Returns(c)
    \/ \E g \in Signals : (Running /\ Signal(g)) \/ Times(g) \/ Proceeds(g)

ShutdownSpec == ShutdownInit /\ [][ShutdownNext]_shutdownVars

\* Timers fire, the event loop runs continuations, and statements and commands
\* come back.  Clients and upstreams may take for ever.
ShutdownFairSpec ==
    /\ ShutdownSpec
    /\ \A c \in Conns : WF_shutdownVars(Returns(c))
    /\ \A g \in Signals : WF_shutdownVars(Times(g)) /\ WF_shutdownVars(Proceeds(g))

-----------------------------------------------------------------------------
(* Properties.                                                             *)

\* Unless a drain has run out of its 10 s, and however many signals arrive, no
\* client that waits for an answer has its request run into a closed pool or
\* Redis, or its connection cut by the end of the process.
NobodyCutOff ==
    ~timedOut => /\ failed = {}
                 /\ exit # "running" => \A c \in Conns : conn[c] # "waiting"

\* At most one signal has been received.
OneSignal == \A g, h \in Signals : run[g] # "none" /\ run[h] # "none" => g = h

\* A process that received one signal and exits with 0 has ended the pool and
\* Redis, and cuts off no statement or command, also after a timeout.
CleanExit ==
    exit = "0" /\ OneSignal
        => /\ \A d \in Resource : resource[d] = "ended"
           /\ \A c \in Conns : handler[c] \in {"none", "busy"}

\* A process that was told to stop stops, though clients never leave and
\* upstreams never answer, provided its statements come back.
ShutdownEnds == (server = "closing") ~> (exit # "running")

=============================================================================
