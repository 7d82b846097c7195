------------------------- MODULE HealthCheckManager -------------------------
(***************************************************************************)
(* internal/checks/manager.go, started by RPCServer.Start.  A goroutine    *)
(* builds the checks of every upstream in parallel, enters them in a map,  *)
(* and then runs rounds of all block height and peer checks, one round at  *)
(* the start and one for each tick.  The HTTP server, which has started    *)
(* meanwhile, looks upstreams up in the same map for every request.        *)
(*                                                                         *)
(* The mutex around the writes of the map is not taken by its readers.  A  *)
(* lookup during a write is a data race: it finds the entry, does not find *)
(* it (and GetUpstreamStatus panics), or the runtime stops the process.    *)
(***************************************************************************)
EXTENDS Integers, Sequences, FiniteSets, Functions

CONSTANTS
    configs,      \* the sequence of configured upstreams
    Requests,
    NoUpstream

Upstreams == Range(configs)

ASSUME ConfigsAssumption ==
    configs \in Seq(Upstreams) /\ IsInjective(configs) /\ NoUpstream \notin Upstreams

\* The checks that runChecksOnce runs, in this order.
Checks == Upstreams \X {"blockHeight", "peers"}

Round == [i \in 1..(2 * Len(configs)) |->
             <<configs[(i + 1) \div 2], IF i % 2 = 1 THEN "blockHeight" ELSE "peers">>]

VARIABLES
    built,                 \* the upstreams whose four checks are constructed
    upstreamIDToStatus,    \* the upstreams that have an entry in the map
    writer,                \* the upstream being entered, holding the mutex
    manager,               \* where the manager's goroutine is
    toStart,               \* the checks that this round has yet to start
    running,               \* per check: the calls of RunCheck under way
    completed,             \* checks that have run to the end at least once
    tick,                  \* the ticker's channel, of capacity one
    isInitialized,
    request,               \* where each HTTP request is
    sawOK,                 \* requests sent after /health had answered OK
    process                \* runs, or how it ended

initVars == <<built, upstreamIDToStatus, writer>>
roundVars == <<toStart, running, completed, isInitialized>>
requestVars == <<request, sawOK>>
managerVars == <<initVars, manager, roundVars, tick, requestVars, process>>

ManagerTypeOK ==
    /\ built \subseteq Upstreams
    /\ upstreamIDToStatus \subseteq Upstreams
    /\ writer \in Upstreams \cup {NoUpstream}
    /\ manager \in {"initialize", "start", "await", "idle"}
    /\ toStart \in Seq(Checks)
    /\ running \in [Checks -> Nat]
    /\ completed \subseteq Checks
    /\ tick \in BOOLEAN
    /\ isInitialized \in BOOLEAN
    /\ request \in [Requests -> {"new", "lookup", "found", "panicked"}]
    /\ sawOK \subseteq Requests
    /\ process \in {"running", "crashed", "panicked", "nilServer",
                    "killed", "fatal", "exited"}

ManagerInit ==
    /\ built = {}
    /\ upstreamIDToStatus = {}
    /\ writer = NoUpstream
    /\ manager = "initialize"
    /\ toStart = <<>>
    /\ running = [c \in Checks |-> 0]
    /\ completed = {}
    /\ tick = FALSE
    /\ isInitialized = FALSE
    /\ request = [r \in Requests |-> "new"]
    /\ sawOK = {}
    /\ process = "running"

Alive == process = "running"

-----------------------------------------------------------------------------
(* initializeChecks.                                                       *)

\* The four constructors of an upstream have returned: innerWG.Wait returns.
Build(u) ==
    /\ Alive
    /\ u \notin built
    /\ built' = built \cup {u}
    /\ UNCHANGED <<upstreamIDToStatus, writer, manager, roundVars, tick,
                   requestVars, process>>

\* mutex.Lock, and the write of the map begins.
BeginWrite(u) ==
    /\ Alive
    /\ u \in built
    /\ u \notin upstreamIDToStatus
    /\ writer = NoUpstream
    /\ writer' = u
    /\ UNCHANGED <<built, upstreamIDToStatus, manager, roundVars, tick,
                   requestVars, process>>

\* Mutant: each upstream's goroutine stores isInitialized.
EndWriteReady(u) ==
    /\ Alive
    /\ writer = u
    /\ upstreamIDToStatus' = upstreamIDToStatus \cup {u}
    /\ writer' = NoUpstream
    /\ isInitialized' = TRUE
    /\ UNCHANGED <<built, manager, toStart, running, completed, tick,
                   requestVars, process>>

\* The write ends, mutex.Unlock, outerWG.Done.
EndWrite(u) ==
    /\ Alive
    /\ writer = u
    /\ upstreamIDToStatus' = upstreamIDToStatus \cup {u}
    /\ writer' = NoUpstream
    /\ UNCHANGED <<built, manager, roundVars, tick, requestVars, process>>

BeginRound ==
    /\ manager' = "start"
    /\ toStart' = Round

\* Mutant: does not wait for outerWG.
ChecksInitializedTooSoon ==
    /\ Alive
    /\ manager = "initialize"
    /\ BeginRound
    /\ UNCHANGED <<initVars, running, completed, tick, isInitialized,
                   requestVars, process>>

\* outerWG.Wait returns, and runPeriodicChecks runs its first round.
ChecksInitialized ==
    /\ Alive
    /\ manager = "initialize"
    /\ upstreamIDToStatus = Upstreams
    /\ BeginRound
    /\ UNCHANGED <<initVars, running, completed, tick, isInitialized,
                   requestVars, process>>

-----------------------------------------------------------------------------
(* runChecksOnce.                                                          *)

\* The loop looks up the next upstream and starts the goroutine of its check.
StartCheck ==
    /\ Alive
    /\ manager = "start"
    /\ toStart # <<>>
    /\ \/ /\ Head(toStart)[1] \in upstreamIDToStatus
          /\ running' = [running EXCEPT ![Head(toStart)] = @ + 1]
          /\ toStart' = Tail(toStart)
          /\ UNCHANGED process
       \/ /\ Head(toStart)[1] \notin upstreamIDToStatus
          /\ process' = "panicked"
          /\ UNCHANGED <<running, toStart>>
    /\ UNCHANGED <<initVars, manager, completed, tick, isInitialized,
                   requestVars>>

\* The loop ends and wg.Wait begins.
AwaitChecks ==
    /\ Alive
    /\ manager = "start"
    /\ toStart = <<>>
    /\ manager' = "await"
    /\ UNCHANGED <<initVars, roundVars, tick, requestVars, process>>

\* Mutant: wg.Done twice for one check.
CheckReturnsTwice(c) ==
    /\ Alive
    /\ running[c] > 0
    /\ running' = [running EXCEPT ![c] = @ - 2]
    /\ completed' = completed \cup {c}
    /\ UNCHANGED <<initVars, manager, toStart, tick, isInitialized,
                   requestVars, process>>

\* RunCheck of one check returns.
CheckReturns(c) ==
    /\ Alive
    /\ running[c] > 0
    /\ running' = [running EXCEPT ![c] = @ - 1]
    /\ completed' = completed \cup {c}
    /\ UNCHANGED <<initVars, manager, toStart, tick, isInitialized,
                   requestVars, process>>

\* Mutant: the manager does not wait for the round to end.
RoundEndsTooSoon ==
    /\ Alive
    /\ manager = "await"
    /\ isInitialized' = TRUE
    /\ manager' = "idle"
    /\ UNCHANGED <<initVars, toStart, running, completed, tick, requestVars,
                   process>>

\* Mutant: isInitialized is never stored.
RoundEndsSilently ==
    /\ Alive
    /\ manager = "await"
    /\ \A c \in Checks : running[c] = 0
    /\ manager' = "idle"
    /\ UNCHANGED <<initVars, roundVars, tick, requestVars, process>>

\* wg.Wait returns.
RoundEnds ==
    /\ Alive
    /\ manager = "await"
    /\ \A c \in Checks : running[c] = 0
    /\ isInitialized' = TRUE
    /\ manager' = "idle"
    /\ UNCHANGED <<initVars, toStart, running, completed, tick, requestVars,
                   process>>

\* The ticker drops ticks for a slow receiver.
Tick ==
    /\ Alive
    /\ tick' = TRUE
    /\ UNCHANGED <<initVars, manager, roundVars, requestVars, process>>

\* Mutant: checks only until the gateway is ready.
NextRoundUntilReady ==
    /\ Alive
    /\ manager = "idle"
    /\ tick
    /\ ~isInitialized
    /\ tick' = FALSE
    /\ BeginRound
    /\ UNCHANGED <<initVars, running, completed, isInitialized, requestVars,
                   process>>

NextRound ==
    /\ Alive
    /\ manager = "idle"
    /\ tick
    /\ tick' = FALSE
    /\ BeginRound
    /\ UNCHANGED <<initVars, running, completed, isInitialized, requestVars,
                   process>>

-----------------------------------------------------------------------------
(* HTTP requests.                                                          *)

\* A client sends a request; it may have asked /health first.
Arrive(r) ==
    /\ Alive
    /\ request[r] = "new"
    /\ request' = [request EXCEPT ![r] = "lookup"]
    /\ sawOK' = IF isInitialized THEN sawOK \cup {r} ELSE sawOK
    /\ UNCHANGED <<initVars, manager, roundVars, tick, process>>

\* GetUpstreamStatus for an upstream that the filters look at.
GetUpstreamStatus(r, u) ==
    /\ Alive
    /\ request[r] = "lookup"
    /\ \/ /\ u \in upstreamIDToStatus \/ writer = u
          /\ request' = [request EXCEPT ![r] = "found"]
          /\ UNCHANGED process
       \/ /\ u \notin upstreamIDToStatus
          /\ request' = [request EXCEPT ![r] = "panicked"]
          /\ UNCHANGED process
       \/ /\ writer # NoUpstream
          /\ process' = "crashed"
          /\ UNCHANGED request
    /\ UNCHANGED <<initVars, manager, roundVars, tick, sawOK>>

\* The client goes on; net/http has recovered a panic and closed its connection.
Again(r) ==
    /\ Alive
    /\ request[r] \in {"found", "panicked"}
    /\ request' = [request EXCEPT ![r] = "new"]
    /\ sawOK' = sawOK \ {r}
    /\ UNCHANGED <<initVars, manager, roundVars, tick, process>>

initializeChecks ==
    \/ \E u \in Upstreams : \/ Build(u)
                            \/ BeginWrite(u)
                            \/ EndWrite(u)
    \/ ChecksInitialized

runChecksOnce == StartCheck \/ AwaitChecks \/ RoundEnds

ManagerNext ==
    \/ initializeChecks
    \/ runChecksOnce
    \/ \E c \in Checks : CheckReturns(c)
    \/ NextRound

\* A request past its arrival.
Serve(r) == (\E u \in Upstreams : GetUpstreamStatus(r, u)) \/ Again(r)

-----------------------------------------------------------------------------
(***************************************************************************)
(* The manager's own rounds look up every upstream without a lock: they    *)
(* must find them all, for a panic in this goroutine stops the process.    *)
(* And the checks have no locks of their own for their clients and their   *)
(* results, so no check may be run by two rounds at once.                  *)
(***************************************************************************)
RoundsAreSafe ==
    /\ process # "panicked"
    /\ \A c \in Checks : running[c] <= 1

(***************************************************************************)
(* /health answers OK only when every check of every upstream has run; and *)
(* a client that waits for it before it sends requests never has one that  *)
(* panics or that stops the process.                                       *)
(***************************************************************************)
ReadyMeansServed ==
    /\ isInitialized => completed = Checks
    /\ \A r \in sawOK : request[r] # "panicked"
    /\ sawOK # {} => process # "crashed"
=============================================================================
