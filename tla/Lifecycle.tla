----------------------------- MODULE Lifecycle -----------------------------
(***************************************************************************)
(* The life of the gateway process (cmd/gateway/main.go): main loads the   *)
(* configuration, starts one goroutine for the RPC server and one for the  *)
(* metrics server, and waits for a signal to shut both down.  The RPC      *)
(* server's goroutine starts the routers and with them the health check    *)
(* manager of HealthCheckManager, and only then listens for requests.      *)
(*                                                                         *)
(* main reads the pointers that the two goroutines assign without waiting  *)
(* for them.  net/http is external: Shutdown marks its server, which ends  *)
(* ListenAndServe with ErrServerClosed, now or whenever it is called, and  *)
(* then waits for the requests that are being served, with no deadline.    *)
(***************************************************************************)
EXTENDS HealthCheckManager

VARIABLES
    main,           \* where the main goroutine is
    signal,         \* signalChannel, of capacity one
    rpcServer,      \* the goroutine of each server: nothing assigned yet,
    metricsServer,  \*   assigned, started, listening, closed or failed
    inShutdown,     \* the servers whose Shutdown has been called
    emitter         \* the goroutine that emits system stats

mainVars == <<main, signal>>
serverVars == <<rpcServer, metricsServer, inShutdown, emitter>>
lifeVars == <<mainVars, serverVars>>
vars == <<managerVars, lifeVars>>

ServerStates == {"none", "assigned", "started", "listening", "closed", "failed"}

TypeOK ==
    /\ ManagerTypeOK
    /\ main \in {"load", "start", "wait", "stopRPC", "awaitRPC", "stopStats",
                 "stopMetrics"}
    /\ signal \in BOOLEAN
    /\ rpcServer \in ServerStates
    /\ metricsServer \in ServerStates
    /\ inShutdown \subseteq {"rpc", "metrics"}
    /\ emitter \in {"none", "select", "emit", "done"}

Init ==
    /\ ManagerInit
    /\ main = "load"
    /\ signal = FALSE
    /\ rpcServer = "none"
    /\ metricsServer = "none"
    /\ inShutdown = {}
    /\ emitter = "none"

\* All but the process of what the manager changes.
checkVars == <<initVars, manager, roundVars, tick, requestVars>>

InFlight == {r \in Requests : request[r] \in {"lookup", "found"}}

-----------------------------------------------------------------------------
(* main.                                                                   *)

\* LoadConfig; an invalid file is fatal.  Then the two go statements.
LoadConfig ==
    /\ Alive
    /\ main = "load"
    /\ \/ main' = "start" /\ UNCHANGED process
       \/ process' = "fatal" /\ UNCHANGED main
    /\ UNCHANGED <<checkVars, signal, serverVars>>

\* signal.Notify.
Notify ==
    /\ Alive
    /\ main = "start"
    /\ main' = "wait"
    /\ UNCHANGED <<managerVars, signal, serverVars>>

\* The operator sends SIGTERM.  Before Notify it kills the process; later it
\* is kept in the channel, or dropped when one is there already.
Terminate ==
    /\ Alive
    /\ IF main \in {"load", "start"}
       THEN process' = "killed" /\ UNCHANGED signal
       ELSE signal' = TRUE /\ UNCHANGED process
    /\ UNCHANGED <<checkVars, main, serverVars>>

ReceiveSignal ==
    /\ Alive
    /\ main = "wait"
    /\ signal
    /\ signal' = FALSE
    /\ main' = "stopRPC"
    /\ UNCHANGED <<managerVars, serverVars>>

\* rpcServer.Shutdown begins: through a nil pointer, unless it is assigned.
ShutdownRPC ==
    /\ Alive
    /\ main = "stopRPC"
    /\ IF rpcServer = "none"
       THEN process' = "nilServer" /\ UNCHANGED <<main, inShutdown>>
       ELSE /\ inShutdown' = inShutdown \cup {"rpc"}
            /\ main' = "awaitRPC"
            /\ UNCHANGED process
    /\ UNCHANGED <<checkVars, signal, rpcServer, metricsServer, emitter>>

\* Mutant: http.Server.Close, which does not wait for requests.
CloseRPC ==
    /\ Alive
    /\ main = "awaitRPC"
    /\ main' = "stopStats"
    /\ UNCHANGED <<managerVars, signal, serverVars>>

\* ... and returns when no request is being served.
AwaitRPC ==
    /\ Alive
    /\ main = "awaitRPC"
    /\ InFlight = {}
    /\ main' = "stopStats"
    /\ UNCHANGED <<managerVars, signal, serverVars>>

\* metricsServer.Shutdown: stop the emitter if it is listening ...
StopStats ==
    /\ Alive
    /\ main = "stopStats"
    /\ IF metricsServer = "none"
       THEN process' = "nilServer" /\ UNCHANGED <<main, emitter>>
       ELSE /\ emitter' = IF emitter = "select" THEN "done" ELSE emitter
            /\ main' = "stopMetrics"
            /\ UNCHANGED process
    /\ UNCHANGED <<checkVars, signal, rpcServer, metricsServer, inShutdown>>

\* ... and then the server.  main returns, and the process exits.
ShutdownMetrics ==
    /\ Alive
    /\ main = "stopMetrics"
    /\ inShutdown' = inShutdown \cup {"metrics"}
    /\ process' = "exited"
    /\ UNCHANGED <<checkVars, main, signal, rpcServer, metricsServer, emitter>>

-----------------------------------------------------------------------------
(* The goroutine of the RPC server.                                        *)

\* WireDependenciesForAllChains, and the assignment main may read.
WireRPC ==
    /\ Alive
    /\ main # "load"
    /\ rpcServer = "none"
    /\ rpcServer' = "assigned"
    /\ UNCHANGED <<managerVars, mainVars, metricsServer, inShutdown, emitter>>

\* RouterCollection.Start.
StartRouters ==
    /\ Alive
    /\ rpcServer = "assigned"
    /\ rpcServer' = "started"
    /\ UNCHANGED <<managerVars, mainVars, metricsServer, inShutdown, emitter>>

\* http.Server.ListenAndServe of the server named: ErrServerClosed after its
\* Shutdown, else it listens; any other error, a port in use, is fatal.
ListenAndServe(name, server) ==
    \/ /\ server' = IF name \in inShutdown THEN "closed" ELSE "listening"
       /\ UNCHANGED process
    \/ /\ name \notin inShutdown
       /\ server' = "failed"
       /\ process' = "fatal"

ListenRPC ==
    /\ Alive
    /\ rpcServer = "started"
    /\ ListenAndServe("rpc", rpcServer)
    /\ UNCHANGED <<checkVars, mainVars, metricsServer, inShutdown, emitter>>

\* Mutant: main does not except ErrServerClosed.
ServeReturnsFatal ==
    /\ Alive
    /\ rpcServer = "listening"
    /\ "rpc" \in inShutdown
    /\ rpcServer' = "closed"
    /\ process' = "fatal"
    /\ UNCHANGED <<checkVars, mainVars, metricsServer, inShutdown, emitter>>

\* ListenAndServe returns ErrServerClosed as soon as Shutdown has begun, and
\* the goroutine ends, while main is still in Shutdown.
ServeReturns ==
    /\ Alive
    /\ rpcServer = "listening"
    /\ "rpc" \in inShutdown
    /\ rpcServer' = "closed"
    /\ UNCHANGED <<managerVars, mainVars, metricsServer, inShutdown, emitter>>

-----------------------------------------------------------------------------
(* The goroutine of the metrics server, and the one it starts.             *)

NewMetricsServer ==
    /\ Alive
    /\ main # "load"
    /\ metricsServer = "none"
    /\ metricsServer' = "assigned"
    /\ UNCHANGED <<managerVars, mainVars, rpcServer, inShutdown, emitter>>

StartEmittingSystemStats ==
    /\ Alive
    /\ metricsServer = "assigned"
    /\ metricsServer' = "started"
    /\ emitter' = "select"
    /\ UNCHANGED <<managerVars, mainVars, rpcServer, inShutdown>>

ListenMetrics ==
    /\ Alive
    /\ metricsServer = "started"
    /\ ListenAndServe("metrics", metricsServer)
    /\ UNCHANGED <<checkVars, mainVars, rpcServer, inShutdown, emitter>>

\* The minute is over: the emitter does not listen to the channel meanwhile.
EmitStats ==
    /\ Alive
    /\ \/ emitter = "select" /\ emitter' = "emit"
       \/ emitter = "emit" /\ emitter' = "select"
    /\ UNCHANGED <<managerVars, mainVars, rpcServer, metricsServer, inShutdown>>

-----------------------------------------------------------------------------
(* The routers, and the requests.                                          *)

\* The manager runs once the routers have started.
RunManager ==
    /\ rpcServer \notin {"none", "assigned"}
    /\ ManagerNext
    /\ UNCHANGED lifeVars

\* The ticker runs as soon as the dependencies are wired.
RunTicker ==
    /\ rpcServer # "none"
    /\ Tick
    /\ UNCHANGED lifeVars

\* Mutant: Shutdown leaves the listener open.
AcceptAlways(r) ==
    /\ rpcServer \in {"listening", "closed"}
    /\ Arrive(r)
    /\ UNCHANGED lifeVars

\* The server accepts a request.
Accept(r) ==
    /\ rpcServer = "listening"
    /\ "rpc" \notin inShutdown
    /\ Arrive(r)
    /\ UNCHANGED lifeVars

ServeRequest(r) == Serve(r) /\ UNCHANGED lifeVars

MainNext ==
    \/ LoadConfig \/ Notify \/ ReceiveSignal
    \/ ShutdownRPC \/ AwaitRPC \/ StopStats \/ ShutdownMetrics

RPCServerNext == WireRPC \/ StartRouters \/ ListenRPC \/ ServeReturns

MetricsServerNext ==
    NewMetricsServer \/ StartEmittingSystemStats \/ ListenMetrics

Next ==
    \/ MainNext
    \/ Terminate
    \/ RPCServerNext
    \/ MetricsServerNext
    \/ EmitStats
    \/ RunManager
    \/ RunTicker
    \/ \E r \in Requests : Accept(r) \/ ServeRequest(r)

Spec == Init /\ [][Next]_vars

(***************************************************************************)
(* The goroutines of main, of the servers and of the manager run, and the  *)
(* ticker ticks.  The constructors and RunCheck return: their calls have   *)
(* timeouts.  A request that is served ends: that is an assumption on the  *)
(* upstreams, as the client that calls them has no timeout.                *)
(***************************************************************************)
FairSpec ==
    /\ Spec
    /\ WF_vars(MainNext)
    /\ WF_vars(RPCServerNext)
    /\ WF_vars(MetricsServerNext)
    /\ WF_vars(initializeChecks /\ RunManager)
    /\ WF_vars(runChecksOnce /\ RunManager)
    /\ \A c \in Checks : WF_vars(CheckReturns(c) /\ RunManager)
    /\ WF_vars(NextRound /\ RunManager)
    /\ WF_vars(RunTicker /\ ~tick)
    /\ \A r \in Requests : WF_vars(ServeRequest(r))

-----------------------------------------------------------------------------
Ended == process # "running"

(***************************************************************************)
(* main.go: "Perform graceful shutdown."  The process that exits after a   *)
(* signal leaves no request unanswered, though the goroutines go on while  *)
(* main waits; and neither goroutine takes the end of its server for the   *)
(* failure that stops the process at once.                                 *)
(***************************************************************************)
GracefulExit ==
    /\ process = "exited" => InFlight = {}
    /\ process = "fatal" =>
           main = "load" \/ "failed" \in {rpcServer, metricsServer}

(***************************************************************************)
(* A signal ends the process, wherever the two servers are by then, and if *)
(* more requests come while it shuts down.                                 *)
(***************************************************************************)
ShutdownEnds == signal ~> Ended

(***************************************************************************)
(* The gateway becomes ready and then runs every check over and over,      *)
(* unless the process has ended.                                           *)
(***************************************************************************)
ChecksKeepRunning ==
    /\ <>(isInitialized \/ Ended)
    /\ \A c \in Checks : []<>(running[c] > 0 \/ Ended)
=============================================================================
