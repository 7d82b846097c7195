-------------------------- MODULE Lifecycle_proofs --------------------------
(***************************************************************************)
(* Proofs about the process that main runs: about Lifecycle, and so about  *)
(* HealthCheckManager, for any number of upstreams and of requests at a    *)
(* time, and then about RoutingConfig, which main loads first, for every   *)
(* file, any number of chains and all settings.                            *)
(***************************************************************************)
EXTENDS Lifecycle, RoutingConfig, TLAPS

(***************************************************************************)
(* The lifecycle of the process.                                           *)
(***************************************************************************)

\* What is being entered is not there yet; rounds begin when all are entered.
Entered ==
    /\ writer # NoUpstream => writer \notin upstreamIDToStatus
    /\ manager # "initialize" => upstreamIDToStatus = Upstreams

(***************************************************************************)
(* A round starts every check once, and begins when none is running.       *)
(***************************************************************************)
InRound ==
    /\ \A c \in Checks : running[c] <= 1
    /\ manager \in {"initialize", "idle"} => \A c \in Checks : running[c] = 0
    /\ manager # "start" => toStart = <<>>
    /\ \A i \in 1..Len(toStart) : running[toStart[i]] = 0
    /\ \A i, j \in 1..Len(toStart) : i # j => toStart[i] # toStart[j]
    /\ process # "panicked"

Covered ==
    /\ manager \in {"start", "await"} =>
          \A c \in Checks : \/ c \in completed
                            \/ running[c] > 0
                            \/ \E i \in 1..Len(toStart) : toStart[i] = c
    /\ isInitialized => completed = Checks /\ manager # "initialize"

Told ==
    /\ sawOK # {} => isInitialized /\ process # "crashed"
    /\ \A r \in sawOK : request[r] # "panicked"

ShutdownInOrder ==
    /\ main \in {"awaitRPC", "stopStats", "stopMetrics"} => "rpc" \in inShutdown
    /\ main \in {"stopStats", "stopMetrics"} => InFlight = {}

IInv ==
    /\ TypeOK
    /\ Entered
    /\ InRound
    /\ Covered
    /\ Told
    /\ ShutdownInOrder
    /\ GracefulExit

-----------------------------------------------------------------------------
\* The steps of main and of the servers leave the manager alone: at most they
\* end the process.
Outside ==
    /\ UNCHANGED checkVars
    /\ process' \in {process, "killed", "fatal", "nilServer", "exited"}

LEMMA StepKinds ==
    ASSUME [Next]_vars
    PROVE  \/ Outside
           \/ ManagerNext
           \/ Tick
           \/ \E r \in Requests : Arrive(r) \/ Serve(r)
<1>1. CASE MainNext
  BY <1>1 DEF MainNext, LoadConfig, Notify, ReceiveSignal, ShutdownRPC, AwaitRPC,
     StopStats, ShutdownMetrics, Outside, managerVars, checkVars
<1>2. CASE Terminate
  BY <1>2 DEF Terminate, Outside
<1>3. CASE RPCServerNext
  BY <1>3 DEF RPCServerNext, WireRPC, StartRouters, ListenRPC, ListenAndServe,
     ServeReturns, Outside, managerVars, checkVars
<1>4. CASE MetricsServerNext
  BY <1>4 DEF MetricsServerNext, NewMetricsServer, StartEmittingSystemStats,
     ListenMetrics, ListenAndServe, Outside, managerVars, checkVars
<1>5. CASE EmitStats
  BY <1>5 DEF EmitStats, Outside, managerVars, checkVars
<1>6. CASE RunManager \/ RunTicker
  BY <1>6 DEF RunManager, RunTicker
<1>7. CASE \E r \in Requests : Accept(r) \/ ServeRequest(r)
  BY <1>7 DEF Accept, ServeRequest
<1>8. CASE UNCHANGED vars
  BY <1>8 DEF vars, Outside, managerVars, checkVars
<1> QED
  BY <1>1, <1>2, <1>3, <1>4, <1>5, <1>6, <1>7, <1>8 DEF Next

\* A round has every check of every upstream, once.
LEMMA RoundHasEveryCheck ==
    /\ Round \in Seq(Checks)
    /\ \A i, j \in 1..Len(Round) : i # j => Round[i] # Round[j]
    /\ \A c \in Checks : \E i \in 1..Len(Round) : Round[i] = c
<1> DEFINE n == Len(configs)
           Kind(i) == IF i % 2 = 1 THEN "blockHeight" ELSE "peers"
<1>1. n \in Nat /\ DOMAIN configs = 1..n /\ \A k \in 1..n : configs[k] \in Upstreams
  BY ConfigsAssumption
<1>2. \A j, k \in 1..n : configs[j] = configs[k] => j = k
  BY <1>1, ConfigsAssumption DEF IsInjective
<1>3. \A u \in Upstreams : \E k \in 1..n : configs[k] = u
  BY <1>1 DEF Upstreams, Range
<1>4. \A i \in 1..(2 * n) : (i + 1) \div 2 \in 1..n
  BY <1>1
<1>5. /\ Round = [i \in 1..(2 * n) |-> <<configs[(i + 1) \div 2], Kind(i)>>]
      /\ \A i \in 1..(2 * n) : Round[i] \in Checks
  BY <1>1, <1>4 DEF Round, Checks
<1> HIDE DEF n
<1>6. Round \in Seq(Checks) /\ Len(Round) = 2 * n
  <2>1. Round \in [1..(2 * n) -> Checks]
    BY <1>5
  <2>2. 2 * n \in Nat
    BY <1>1
  <2> QED
    BY <2>1, <2>2
<1>7. ASSUME NEW i \in 1..(2 * n), NEW j \in 1..(2 * n), Round[i] = Round[j]
      PROVE  i = j
  <2>1. (i + 1) \div 2 = (j + 1) \div 2
    BY <1>2, <1>4, <1>5, <1>7
  <2>2. Kind(i) = Kind(j)
    BY <1>5, <1>7
  <2>3. i % 2 = j % 2
    <3>1. i % 2 \in {0, 1} /\ j % 2 \in {0, 1}
      OBVIOUS
    <3> QED
      BY <2>2, <3>1
  <2> QED
    BY <1>1, <2>1, <2>3
<1>8. ASSUME NEW c \in Checks
      PROVE  \E i \in 1..(2 * n) : Round[i] = c
  <2>1. PICK k \in 1..n : configs[k] = c[1]
    BY <1>3 DEF Checks
  <2>2. c = <<c[1], "blockHeight">> \/ c = <<c[1], "peers">>
    BY DEF Checks
  <2>3. /\ 2 * k - 1 \in 1..(2 * n) /\ (2 * k - 1 + 1) \div 2 = k
        /\ (2 * k - 1) % 2 = 1
        /\ 2 * k \in 1..(2 * n) /\ (2 * k + 1) \div 2 = k /\ (2 * k) % 2 = 0
    BY <1>1
  <2>4. Round[2 * k - 1] = <<c[1], "blockHeight">> /\ Round[2 * k] = <<c[1], "peers">>
    BY <1>5, <2>1, <2>3
  <2> QED
    BY <2>2, <2>3, <2>4
<1> QED
  BY <1>6, <1>7, <1>8

-----------------------------------------------------------------------------
(* The initial state.                                                      *)

LEMMA InitIInv == Init => IInv
<1> SUFFICES ASSUME Init PROVE IInv
  OBVIOUS
<1> USE DEF Init, ManagerInit
<1>1. TypeOK
  <2>1. running \in [Checks -> Nat] /\ toStart \in Seq(Checks)
    OBVIOUS
  <2> QED
    BY <2>1 DEF TypeOK, ManagerTypeOK, ServerStates
<1>2. Entered /\ Covered /\ Told
  BY DEF Entered, Covered, Told
<1>3. InRound
  BY DEF InRound
<1>4. ShutdownInOrder /\ GracefulExit
  BY DEF ShutdownInOrder, GracefulExit
<1> QED
  BY <1>1, <1>2, <1>3, <1>4 DEF IInv

-----------------------------------------------------------------------------
(* Types.                                                                  *)

LEMMA ManagerTypes ==
    ASSUME ManagerTypeOK, ManagerNext
    PROVE  ManagerTypeOK'
<1> USE DEF ManagerTypeOK, initVars, roundVars, requestVars
<1>1. ASSUME NEW u \in Upstreams, Build(u) \/ BeginWrite(u) \/ EndWrite(u)
      PROVE  ManagerTypeOK'
  BY <1>1 DEF Build, BeginWrite, EndWrite
<1>2. CASE ChecksInitialized \/ NextRound
  BY <1>2, RoundHasEveryCheck DEF ChecksInitialized, NextRound, BeginRound
<1>3. CASE StartCheck
  <2>1. toStart # <<>> /\ Head(toStart) \in Checks /\ Tail(toStart) \in Seq(Checks)
    BY <1>3 DEF StartCheck
  <2>2. toStart' \in Seq(Checks)
    BY <1>3, <2>1 DEF StartCheck
  <2>3. running' \in [Checks -> Nat]
    <3>1. [running EXCEPT ![Head(toStart)] = @ + 1] \in [Checks -> Nat]
      BY <2>1
    <3> QED
      BY <1>3, <3>1 DEF StartCheck
  <2> QED
    BY <1>3, <2>2, <2>3 DEF StartCheck
<1>4. CASE AwaitChecks \/ RoundEnds
  BY <1>4 DEF AwaitChecks, RoundEnds
<1>5. ASSUME NEW c \in Checks, CheckReturns(c) PROVE ManagerTypeOK'
  <2>1. running' \in [Checks -> Nat] /\ completed' \subseteq Checks
    BY <1>5 DEF CheckReturns
  <2> QED
    BY <1>5, <2>1 DEF CheckReturns
<1> QED
  BY <1>1, <1>2, <1>3, <1>4, <1>5 DEF ManagerNext, initializeChecks, runChecksOnce

LEMMA RequestTypes ==
    ASSUME ManagerTypeOK, NEW r \in Requests, Arrive(r) \/ Serve(r)
    PROVE  ManagerTypeOK'
<1> USE DEF ManagerTypeOK, initVars, roundVars
<1>1. CASE Arrive(r)
  BY <1>1 DEF Arrive
<1>2. CASE Again(r)
  BY <1>2 DEF Again
<1>3. ASSUME NEW u \in Upstreams, GetUpstreamStatus(r, u) PROVE ManagerTypeOK'
  BY <1>3 DEF GetUpstreamStatus
<1> QED
  BY <1>1, <1>2, <1>3 DEF Serve

LEMMA TypeStep == TypeOK /\ [Next]_vars => TypeOK'
<1> SUFFICES ASSUME TypeOK, [Next]_vars PROVE TypeOK'
  OBVIOUS
<1>1. ManagerTypeOK'
  <2>1. CASE Outside
    BY <2>1 DEF TypeOK, ManagerTypeOK, Outside, checkVars, initVars, roundVars, requestVars
  <2>2. CASE Tick
    BY <2>2 DEF TypeOK, ManagerTypeOK, Tick, initVars, roundVars, requestVars
  <2> QED
    BY <2>1, <2>2, StepKinds, ManagerTypes, RequestTypes DEF TypeOK
<1> DEFINE LifeTypeOK ==
        /\ main \in {"load", "start", "wait", "stopRPC", "awaitRPC", "stopStats",
                     "stopMetrics"}
        /\ signal \in BOOLEAN
        /\ rpcServer \in ServerStates
        /\ metricsServer \in ServerStates
        /\ inShutdown \subseteq {"rpc", "metrics"}
        /\ emitter \in {"none", "select", "emit", "done"}
<1>2. LifeTypeOK
  BY DEF TypeOK
<1>3. LifeTypeOK'
  <2> USE <1>2 DEF ServerStates, mainVars, serverVars
  <2>1. CASE MainNext
    BY <2>1 DEF MainNext, LoadConfig, Notify, ReceiveSignal, ShutdownRPC, AwaitRPC,
       StopStats, ShutdownMetrics
  <2>2. CASE Terminate \/ EmitStats
    BY <2>2 DEF Terminate, EmitStats
  <2>3. CASE RPCServerNext
    BY <2>3 DEF RPCServerNext, WireRPC, StartRouters, ListenRPC, ListenAndServe,
       ServeReturns
  <2>4. CASE MetricsServerNext
    BY <2>4 DEF MetricsServerNext, NewMetricsServer, StartEmittingSystemStats,
       ListenMetrics, ListenAndServe
  <2>5. CASE UNCHANGED lifeVars
    BY <2>5 DEF lifeVars
  <2>6. CASE RunManager \/ RunTicker \/ \E r \in Requests : Accept(r) \/ ServeRequest(r)
    BY <2>5, <2>6 DEF RunManager, RunTicker, Accept, ServeRequest
  <2> QED
    BY <2>1, <2>2, <2>3, <2>4, <2>5, <2>6 DEF Next, vars
<1> QED
  BY <1>1, <1>3 DEF TypeOK

-----------------------------------------------------------------------------
(* The manager.                                                            *)

LEMMA EnteredStep == TypeOK /\ Entered /\ [Next]_vars => Entered'
<1> SUFFICES ASSUME TypeOK, Entered, [Next]_vars PROVE Entered'
  OBVIOUS
<1> USE ConfigsAssumption
    DEF TypeOK, ManagerTypeOK, Entered, initVars, roundVars, requestVars
<1>1. CASE Outside
  BY <1>1 DEF Outside, checkVars
<1>2. CASE Tick
  BY <1>2 DEF Tick
<1>3. ASSUME NEW r \in Requests, Arrive(r) \/ Serve(r) PROVE Entered'
  BY <1>3 DEF Arrive, Serve, GetUpstreamStatus, Again
<1>4. ASSUME NEW u \in Upstreams, Build(u) \/ BeginWrite(u) PROVE Entered'
  BY <1>4 DEF Build, BeginWrite
<1>5. ASSUME NEW u \in Upstreams, EndWrite(u) PROVE Entered'
  BY <1>5 DEF EndWrite
<1>6. CASE ChecksInitialized \/ NextRound
  BY <1>6 DEF ChecksInitialized, NextRound, BeginRound
<1>7. CASE runChecksOnce \/ \E c \in Checks : CheckReturns(c)
  BY <1>7 DEF runChecksOnce, StartCheck, AwaitChecks, RoundEnds, CheckReturns
<1> QED
  BY <1>1, <1>2, <1>3, <1>4, <1>5, <1>6, <1>7, StepKinds
  DEF ManagerNext, initializeChecks

LEMMA InRoundStep == TypeOK /\ Entered /\ InRound /\ [Next]_vars => InRound'
<1> SUFFICES ASSUME TypeOK, Entered, InRound, [Next]_vars PROVE InRound'
  OBVIOUS
<1>1. ManagerTypeOK
  BY DEF TypeOK
<1>2. CASE Outside
  BY <1>2 DEF InRound, Outside, checkVars, roundVars
<1>3. CASE Tick
  BY <1>3 DEF InRound, Tick, roundVars
<1>4. ASSUME NEW r \in Requests, Arrive(r) \/ Serve(r) PROVE InRound'
  BY <1>4 DEF InRound, Arrive, Serve, GetUpstreamStatus, Again, roundVars
<1>5. ASSUME NEW u \in Upstreams, Build(u) \/ BeginWrite(u) \/ EndWrite(u)
      PROVE  InRound'
  BY <1>5 DEF InRound, Build, BeginWrite, EndWrite, roundVars
<1>6. CASE ChecksInitialized \/ NextRound
  <2>1. \A c \in Checks : running'[c] = 0
    BY <1>6 DEF InRound, ChecksInitialized, NextRound, roundVars
  <2>2. toStart' = Round /\ manager' = "start" /\ process' = process
    BY <1>6 DEF ChecksInitialized, NextRound, BeginRound
  <2>3. \A i \in 1..Len(toStart') : toStart'[i] \in Checks
    BY <2>2, RoundHasEveryCheck
  <2>4. \A i \in 1..Len(toStart') : running'[toStart'[i]] = 0
    BY <2>1, <2>3
  <2>5. \A i, j \in 1..Len(toStart') : i # j => toStart'[i] # toStart'[j]
    BY <2>2, RoundHasEveryCheck
  <2>6. \A c \in Checks : running'[c] <= 1
    BY <2>1
  <2> QED
    BY <2>2, <2>4, <2>5, <2>6 DEF InRound
<1>7. CASE StartCheck
  <2> DEFINE c == Head(toStart)
  <2>1. /\ toStart \in Seq(Checks) /\ toStart # <<>> /\ manager = "start"
        /\ c = toStart[1] /\ c \in Checks /\ Len(toStart) >= 1
    BY <1>1, <1>7 DEF StartCheck, ManagerTypeOK
  <2>2. c[1] \in upstreamIDToStatus
    BY <2>1 DEF Entered, Checks
  <2>3. /\ running' = [running EXCEPT ![c] = @ + 1]
        /\ toStart' = Tail(toStart)
        /\ UNCHANGED <<process, manager>>
    BY <1>7, <2>2 DEF StartCheck
  <2>4. /\ Len(toStart') = Len(toStart) - 1
        /\ \A i \in 1..Len(toStart') : /\ i + 1 \in 1..Len(toStart)
                                       /\ toStart'[i] = toStart[i + 1]
                                       /\ toStart[i + 1] \in Checks
    BY <2>1, <2>3
  <2>5. running[c] = 0 /\ running \in [Checks -> Nat]
    BY <1>1, <2>1 DEF InRound, ManagerTypeOK
  <2>6. \A d \in Checks : running'[d] = IF d = c THEN 1 ELSE running[d]
    BY <2>1, <2>3, <2>5
  <2>7. \A d \in Checks : running'[d] <= 1
    BY <2>6 DEF InRound
  <2>8. \A i \in 1..Len(toStart') : toStart'[i] # c
    <3> SUFFICES ASSUME NEW i \in 1..Len(toStart') PROVE toStart'[i] # c
      OBVIOUS
    <3>1. i + 1 \in 1..Len(toStart) /\ i + 1 # 1 /\ 1 \in 1..Len(toStart)
      BY <2>1, <2>4
    <3>2. toStart[i + 1] # toStart[1]
      BY <3>1 DEF InRound
    <3> QED
      BY <2>1, <2>4, <3>2
  <2>9. \A i \in 1..Len(toStart') : running'[toStart'[i]] = 0
    BY <2>4, <2>6, <2>8 DEF InRound
  <2>10. ASSUME NEW i \in 1..Len(toStart'), NEW j \in 1..Len(toStart'), i # j
         PROVE  toStart'[i] # toStart'[j]
    <3>1. /\ i + 1 \in 1..Len(toStart) /\ j + 1 \in 1..Len(toStart) /\ i + 1 # j + 1
      BY <2>4, <2>10
    <3>2. toStart[i + 1] # toStart[j + 1]
      BY <3>1 DEF InRound
    <3> QED
      BY <2>4, <3>2
  <2> QED
    BY <2>1, <2>3, <2>7, <2>9, <2>10 DEF InRound
<1>8. CASE AwaitChecks
  BY <1>8 DEF InRound, AwaitChecks, roundVars
<1>9. ASSUME NEW c \in Checks, CheckReturns(c) PROVE InRound'
  <2>1. running \in [Checks -> Nat] /\ toStart \in Seq(Checks)
    BY <1>1 DEF ManagerTypeOK
  <2>2. \A d \in Checks : running'[d] <= running[d] /\ running'[d] \in Nat
    BY <1>9, <2>1 DEF CheckReturns
  <2>3. UNCHANGED <<manager, toStart, process>>
    BY <1>9 DEF CheckReturns
  <2>4. \A i \in 1..Len(toStart) : toStart[i] \in Checks
    BY <2>1
  <2>5. \A d \in Checks : running[d] = 0 => running'[d] = 0
    BY <2>1, <2>2
  <2>6. \A d \in Checks : running'[d] <= 1
    BY <2>1, <2>2 DEF InRound
  <2>7. \A i \in 1..Len(toStart') : running'[toStart'[i]] = 0
    BY <2>3, <2>4, <2>5 DEF InRound
  <2> QED
    BY <2>3, <2>5, <2>6, <2>7 DEF InRound
<1>10. CASE RoundEnds
  BY <1>10 DEF InRound, RoundEnds
<1> QED
  BY <1>2, <1>3, <1>4, <1>5, <1>6, <1>7, <1>8, <1>9, <1>10, StepKinds
  DEF ManagerNext, initializeChecks, runChecksOnce

LEMMA CoveredStep == TypeOK /\ InRound /\ Covered /\ Entered /\ [Next]_vars => Covered'
<1> SUFFICES ASSUME TypeOK, InRound, Covered, Entered, [Next]_vars PROVE Covered'
  OBVIOUS
<1>1. ManagerTypeOK
  BY DEF TypeOK
<1>2. CASE Outside
  BY <1>2 DEF Covered, Outside, checkVars, roundVars
<1>3. CASE Tick
  BY <1>3 DEF Covered, Tick, roundVars
<1>4. ASSUME NEW r \in Requests, Arrive(r) \/ Serve(r) PROVE Covered'
  BY <1>4 DEF Covered, Arrive, Serve, GetUpstreamStatus, Again, roundVars
<1>5. ASSUME NEW u \in Upstreams, Build(u) \/ BeginWrite(u) \/ EndWrite(u)
      PROVE  Covered'
  BY <1>5 DEF Covered, Build, BeginWrite, EndWrite, roundVars
<1>6. CASE ChecksInitialized \/ NextRound
  <2>1. toStart' = Round /\ manager' = "start" /\ UNCHANGED <<completed, isInitialized>>
    BY <1>6 DEF ChecksInitialized, NextRound, BeginRound
  <2>2. \A c \in Checks : \E i \in 1..Len(toStart') : toStart'[i] = c
    BY <2>1, RoundHasEveryCheck
  <2> QED
    BY <2>1, <2>2 DEF Covered
<1>7. CASE StartCheck
  <2> DEFINE first == Head(toStart)
  <2>1. /\ toStart \in Seq(Checks) /\ toStart # <<>> /\ manager = "start"
        /\ first = toStart[1] /\ first \in Checks
        /\ Len(toStart) \in Nat /\ Len(toStart) >= 1
    BY <1>1, <1>7 DEF StartCheck, ManagerTypeOK
  <2>2. first[1] \in upstreamIDToStatus
    BY <2>1 DEF Entered, Checks
  <2>3. /\ running' = [running EXCEPT ![first] = @ + 1]
        /\ toStart' = Tail(toStart)
        /\ UNCHANGED <<manager, completed, isInitialized>>
    BY <1>7, <2>2 DEF StartCheck
  <2>4. \A c \in Checks : /\ running[c] > 0 => running'[c] > 0
                          /\ c = first => running'[c] > 0
    BY <1>1, <2>1, <2>3 DEF ManagerTypeOK
  <2>5. ASSUME NEW c \in Checks, c # first,
               NEW i \in 1..Len(toStart), toStart[i] = c
        PROVE  \E k \in 1..Len(toStart') : toStart'[k] = c
    <3>1. i # 1
      BY <2>1, <2>5
    <3>2. i - 1 \in 1..Len(toStart') /\ toStart'[i - 1] = toStart[i]
      BY <2>1, <2>3, <3>1
    <3> QED
      BY <2>5, <3>2
  <2> HIDE DEF first
  <2>6. ASSUME NEW c \in Checks
        PROVE  \/ c \in completed
               \/ running'[c] > 0
               \/ \E k \in 1..Len(toStart') : toStart'[k] = c
    <3>1. \/ c \in completed
          \/ running[c] > 0
          \/ \E i \in 1..Len(toStart) : toStart[i] = c
      BY <2>1 DEF Covered
    <3>2. CASE c = first
      BY <2>4, <3>2
    <3>3. CASE c # first
      BY <2>4, <2>5, <3>1, <3>3
    <3> QED
      BY <3>2, <3>3
  <2> QED
    BY <2>1, <2>3, <2>6 DEF Covered
<1>8. CASE AwaitChecks
  BY <1>8 DEF Covered, AwaitChecks, roundVars
<1>9. ASSUME NEW c \in Checks, CheckReturns(c) PROVE Covered'
  <2>1. /\ \A d \in Checks \ {c} : running'[d] = running[d]
        /\ completed' = completed \cup {c}
        /\ UNCHANGED <<manager, toStart, isInitialized>>
    BY <1>1, <1>9 DEF CheckReturns, ManagerTypeOK
  <2>2. isInitialized => completed' = Checks
    BY <2>1 DEF Covered
  <2> QED
    BY <2>1, <2>2 DEF Covered
<1>10. CASE RoundEnds
  <2>1. /\ manager = "await" /\ manager' = "idle" /\ toStart = <<>>
        /\ \A c \in Checks : running[c] = 0
        /\ completed' = completed
    BY <1>10 DEF RoundEnds, InRound
  <2>2. \A c \in Checks : c \in completed
    BY <2>1 DEF Covered
  <2>3. completed = Checks
    BY <1>1, <2>2 DEF ManagerTypeOK
  <2> QED
    BY <2>1, <2>3 DEF Covered
<1> QED
  BY <1>2, <1>3, <1>4, <1>5, <1>6, <1>7, <1>8, <1>9, <1>10, StepKinds
  DEF ManagerNext, initializeChecks, runChecksOnce

-----------------------------------------------------------------------------
(* Requests.                                                               *)

LEMMA ToldStep == TypeOK /\ Entered /\ Covered /\ Told /\ [Next]_vars => Told'
<1> SUFFICES ASSUME TypeOK, Entered, Covered, Told, [Next]_vars PROVE Told'
  OBVIOUS
<1>1. ManagerTypeOK
  BY DEF TypeOK
<1>2. CASE Outside
  BY <1>2 DEF Told, Outside, checkVars, roundVars, requestVars
<1>3. CASE Tick
  BY <1>3 DEF Told, Tick, roundVars, requestVars
<1>4. ASSUME NEW r \in Requests, Arrive(r) \/ Again(r) PROVE Told'
  BY <1>1, <1>4 DEF Told, Arrive, Again, Alive, roundVars, ManagerTypeOK
<1>5. ASSUME NEW r \in Requests, NEW u \in Upstreams, GetUpstreamStatus(r, u)
      PROVE  Told'
  <2>1. CASE sawOK = {}
    BY <1>5, <2>1 DEF Told, GetUpstreamStatus
  <2>2. CASE sawOK # {}
    <3>1. upstreamIDToStatus = Upstreams
      BY <2>2 DEF Told, Covered, Entered
    <3>2. writer = NoUpstream
      BY <1>1, <3>1 DEF Entered, ManagerTypeOK
    <3>3. /\ request' = [request EXCEPT ![r] = "found"]
          /\ UNCHANGED <<process, sawOK, isInitialized>>
      BY <1>5, <3>1, <3>2 DEF GetUpstreamStatus, roundVars
    <3> QED
      BY <1>1, <3>3 DEF Told, ManagerTypeOK
  <2> QED
    BY <2>1, <2>2
<1>6. CASE ManagerNext
  <2>1. ASSUME NEW u \in Upstreams, Build(u) \/ BeginWrite(u) \/ EndWrite(u)
        PROVE  Told'
    BY <2>1 DEF Told, Build, BeginWrite, EndWrite, roundVars, requestVars
  <2>2. CASE ChecksInitialized \/ NextRound \/ AwaitChecks \/ RoundEnds
    BY <2>2 DEF Told, ChecksInitialized, NextRound, AwaitChecks, RoundEnds,
       roundVars, requestVars
  <2>3. CASE StartCheck \/ \E c \in Checks : CheckReturns(c)
    BY <2>3 DEF Told, StartCheck, CheckReturns, requestVars
  <2> QED
    BY <1>6, <2>1, <2>2, <2>3 DEF ManagerNext, initializeChecks, runChecksOnce
<1> QED
  BY <1>2, <1>3, <1>4, <1>5, <1>6, StepKinds DEF Serve

-----------------------------------------------------------------------------
(* The shutdown.                                                           *)

LEMMA ShutdownStep ==
    TypeOK /\ ShutdownInOrder /\ GracefulExit /\ [Next]_vars
        => ShutdownInOrder' /\ GracefulExit'
<1> SUFFICES ASSUME TypeOK, ShutdownInOrder, GracefulExit, [Next]_vars
             PROVE  ShutdownInOrder' /\ GracefulExit'
  OBVIOUS
<1> USE DEF ShutdownInOrder, GracefulExit
<1>1. request' = request => InFlight' = InFlight
  BY DEF InFlight
<1>2. CASE LoadConfig \/ Notify \/ ReceiveSignal \/ Terminate
  BY <1>1, <1>2 DEF LoadConfig, Notify, ReceiveSignal, Terminate, Alive, checkVars,
     managerVars, requestVars, serverVars
<1>3. CASE ShutdownRPC \/ AwaitRPC \/ StopStats \/ ShutdownMetrics
  BY <1>1, <1>3 DEF ShutdownRPC, AwaitRPC, StopStats, ShutdownMetrics, Alive,
     checkVars, managerVars, requestVars, serverVars
<1>4. CASE RPCServerNext
  BY <1>1, <1>4 DEF RPCServerNext, WireRPC, StartRouters, ListenRPC, ListenAndServe,
     ServeReturns, Alive, checkVars, managerVars, requestVars, mainVars
<1>5. CASE MetricsServerNext \/ EmitStats
  BY <1>1, <1>5 DEF MetricsServerNext, NewMetricsServer, StartEmittingSystemStats,
     ListenMetrics, EmitStats, ListenAndServe, Alive, checkVars, managerVars,
     requestVars, mainVars
<1>6. CASE RunManager \/ RunTicker
  <2>1. /\ request' = request /\ UNCHANGED lifeVars
        /\ process' = process \/ process' = "panicked"
    BY <1>6 DEF RunManager, RunTicker, ManagerNext, initializeChecks, runChecksOnce,
       Build, BeginWrite, EndWrite, ChecksInitialized, StartCheck, AwaitChecks,
       RoundEnds, CheckReturns, NextRound, Tick, requestVars
  <2> QED
    BY <1>1, <2>1 DEF lifeVars, mainVars, serverVars
<1>7. ASSUME NEW r \in Requests, Accept(r)
      PROVE  ShutdownInOrder' /\ GracefulExit'
  BY <1>7 DEF Accept, Arrive, Alive, lifeVars, mainVars, serverVars
<1>8. ASSUME NEW r \in Requests, ServeRequest(r)
      PROVE  ShutdownInOrder' /\ GracefulExit'
  <2>1. /\ Alive /\ UNCHANGED lifeVars
        /\ process' \in {"running", "crashed"}
    BY <1>8 DEF ServeRequest, Serve, GetUpstreamStatus, Again, Alive
  <2>2. InFlight = {} => InFlight' = {}
    BY <1>8 DEF ServeRequest, Serve, GetUpstreamStatus, Again, InFlight, TypeOK,
       ManagerTypeOK
  <2> QED
    BY <2>1, <2>2 DEF lifeVars, mainVars, serverVars, Alive
<1>9. CASE UNCHANGED vars
  BY <1>1, <1>9 DEF vars, managerVars, requestVars, lifeVars, mainVars, serverVars
<1> QED
  BY <1>2, <1>3, <1>4, <1>5, <1>6, <1>7, <1>8, <1>9 DEF Next, MainNext

-----------------------------------------------------------------------------
(* The theorems.                                                           *)

LEMMA Invariance == Spec => []IInv
<1>1. IInv /\ [Next]_vars => IInv'
  BY TypeStep, EnteredStep, InRoundStep, CoveredStep, ToldStep, ShutdownStep DEF IInv
<1> QED
  BY <1>1, InitIInv, PTL DEF Spec

\* Every variable of the process keeps its type.
THEOREM TypeInvariance == Spec => []TypeOK
  BY Invariance, PTL DEF IInv

\* The rounds of the manager find every upstream that they look up without a
\* lock, and run no check twice at once.
THEOREM RoundsNeverInterfere == Spec => []RoundsAreSafe
<1>1. IInv => RoundsAreSafe
  BY DEF IInv, InRound, RoundsAreSafe
<1> QED
  BY <1>1, Invariance, PTL

\* /health answers OK only when every check has run, and whoever waits for it
\* meets neither the panic nor the data race of the upstreams' map.
THEOREM WaitingForHealthIsSafe == Spec => []ReadyMeansServed
<1>1. IInv => ReadyMeansServed
  BY DEF IInv, Covered, Told, ReadyMeansServed
<1> QED
  BY <1>1, Invariance, PTL

\* An exit after a signal leaves no request unanswered, and the end of a
\* server is never taken for its failure.
THEOREM ExitIsGraceful == Spec => []GracefulExit
<1>1. IInv => GracefulExit
  BY DEF IInv
<1> QED
  BY <1>1, Invariance, PTL

-----------------------------------------------------------------------------
(***************************************************************************)
(* Loading the configuration.  What is loaded is given by the file and the *)
(* stage alone: a section is as Unmarshal left it or as it will stay, and  *)
(* so are the objects that it owns.                                        *)
(***************************************************************************)
\* The section whose object a complete section has.
LatencyHome(o) == IF yaml[o].latency = Nil THEN Global ELSE o
ErrorsHome(o) == IF yaml[o].errors = Nil THEN Global ELSE o

FinalRouting(o) ==
    [fields |-> SpecifiedFields(o), latency |-> LatencyHome(o),
     errors |-> ErrorsHome(o), isInitialized |-> TRUE, isEnabled |-> TRUE]

\* The thresholds the global section is left with: of the methods it lists,
\* and for those it does not (one that it had to make up for a listed method
\* holds for these too).
GlobalThresholds ==
    IF yaml[Global].latency = Nil THEN <<>>
    ELSE LET l == yaml[Global].latency
         IN  [m \in DOMAIN l.methods |->
                 GivenDuration(l.methods[m],
                               GivenDuration(l.threshold, DefaultMaxLatency))]

LeftThreshold ==
    IF yaml[Global].latency = Nil THEN 0
    ELSE LET l == yaml[Global].latency
         IN  IF \E m \in DOMAIN l.methods : l.methods[m] <= 0
             THEN GivenDuration(l.threshold, DefaultMaxLatency)
             ELSE l.threshold

GlobalThresholdOf(m, otherwise) ==
    IF m \in DOMAIN GlobalThresholds THEN GlobalThresholds[m] ELSE otherwise

\* The threshold chain c is left with.
LoadedThreshold(c, m) ==
    IF yaml[c].latency = Nil THEN GlobalThresholdOf(m, LeftThreshold)
    ELSE LET l == yaml[c].latency
         IN  IF m \in DOMAIN l.methods
             THEN GivenDuration(l.methods[m],
                      GivenDuration(l.threshold,
                                    GlobalThresholdOf(m, DefaultMaxLatency)))
             ELSE GlobalThresholdOf(m, l.threshold)

\* The methods whose thresholds the object of section o is left with.
Listed(o) ==
    DOMAIN ReadLatency(o).methods \cup DOMAIN GlobalThresholds

FinalLatency(o) ==
    IF o = Global
    THEN [methods |-> ReadLatency(Global).methods, threshold |-> LeftThreshold,
          thresholds |-> [m \in DOMAIN ReadLatency(Global).methods |->
                              GlobalThresholds[m]]]
    ELSE IF yaml[o].latency = Nil THEN ReadLatency(o)
    ELSE [methods |-> yaml[o].latency.methods,
          threshold |-> yaml[o].latency.threshold,
          thresholds |-> [m \in Listed(o) |-> LoadedThreshold(o, m)]]

FinalErrors(o) ==
    IF o = Global THEN [codes |-> CodesIn(Global), rate |-> GlobalRate]
    ELSE IF yaml[o].errors = Nil THEN NoErrors
    ELSE [codes |-> yaml[o].errors.codes \cup CodesIn(Global),
          rate |-> GivenRate(yaml[o].errors.rate, GlobalRate)]

\* The sections that setDefaults has completed at a stage.
CompleteChains(n) ==
    {c \in Range(Chains) :
        IsSpecified(c) /\ \E i \in 1..Len(Chains) : i < n /\ Chains[i] = c}

CompleteSections(n) ==
    CompleteChains(n) \cup
    (IF n > 0 /\ (IsGlobalSpecified \/ CompleteChains(n) # {})
     THEN {Global} ELSE {})

RatesGivenAreValid ==
    \A o \in Owners :
        yaml[o].errors # Nil => yaml[o].errors.rate \in 0..MaxRate

\* The configuration once the sections of S are complete.
ConfigWhen(S) ==
    [routing |-> [o \in Owners |-> IF o \in S THEN FinalRouting(o) ELSE Unmarshal(o)],
     latencies |-> [o \in Owners |-> IF o \in S THEN FinalLatency(o) ELSE ReadLatency(o)],
     errors |-> [o \in Owners |-> IF o \in S THEN FinalErrors(o) ELSE ReadErrors(o)]]

Loaded ==
    /\ \A o \in Owners : yaml[o] \in Sections(o)
    /\ Config = ConfigWhen(CompleteSections(stage))
    /\ stage \in 0..Len(Chains) + 1
    /\ outcome \in {"loading", "accepted", "rejected"}
    /\ outcome # "loading" =>
           /\ stage = Len(Chains) + 1
           /\ outcome = "accepted" <=> Len(Chains) > 0 /\ RatesGivenAreValid

-----------------------------------------------------------------------------
(***************************************************************************)
(* The methods that complete a section, on a configuration given by its    *)
(* three parts.                                                            *)
(***************************************************************************)
Parts(r, l, e) == [routing |-> r, latencies |-> l, errors |-> e]

Section(f, l, e, done) ==
    [fields |-> f, latency |-> l, errors |-> e,
     isInitialized |-> done, isEnabled |-> done]

Latency(ms, t, ts) == [methods |-> ms, threshold |-> t, thresholds |-> ts]

IsLatency(l) ==
    /\ l = Latency(l.methods, l.threshold, l.thresholds)
    /\ \A m \in DOMAIN l.methods : l.methods[m] \in Int
    /\ l.threshold \in Int

IsLatencyAt(l, o) == IsLatency(l[o])

\* Heap h with v at o.
Put(h, o, v) == [h EXCEPT ![o] = v]

IsHeap(h) == h = [o \in Owners |-> h[o]]

Holds(h, o, v) == h[o] = v

LEMMA PutIs ==
    ASSUME NEW h, NEW o \in Owners, NEW v, IsHeap(h)
    PROVE  /\ IsHeap(Put(h, o, v))
           /\ Holds(Put(h, o, v), o, v)
           /\ \A p \in Owners : \A w : p # o /\ Holds(h, p, w) => Holds(Put(h, o, v), p, w)
           /\ \A w : Put(Put(h, o, v), o, w) = Put(h, o, w)
           /\ Holds(h, o, v) => Put(h, o, v) = h
  <1>1. \A p \in Owners : Put(h, o, v)[p] = IF p = o THEN v ELSE h[p]
    BY DEF Put, IsHeap
  <1>2. IsHeap(Put(h, o, v))
    BY DEF Put, IsHeap
  <1>3. \A w : Put(Put(h, o, v), o, w) = Put(h, o, w)
    BY DEF Put, IsHeap
  <1>4. Holds(h, o, v) => Put(h, o, v) = h
    BY DEF Put, IsHeap, Holds
  <1> QED
    BY <1>1, <1>2, <1>3, <1>4 DEF Holds

\* Only the fields of the section change.
FieldsOf(r, o, global) ==
    [x \in Fields |-> IF r[o].fields[x] # Nil THEN r[o].fields[x]
                      ELSE IF global = Nil THEN DefaultField[x]
                      ELSE r[global].fields[x]]

LEMMA CompleteFieldsIs ==
    ASSUME NEW r, NEW l, NEW e, NEW o \in Owners, NEW global, IsHeap(r),
           NEW f, NEW lo, NEW eo, NEW d, Holds(r, o, Section(f, lo, eo, d))
    PROVE  CompleteFields(Parts(r, l, e), o, global)
               = Parts(Put(r, o, Section(FieldsOf(r, o, global), lo, eo, d)), l, e)
  <1>1. CompleteFields(Parts(r, l, e), o, global)
            = [Parts(r, l, e) EXCEPT !.routing =
                  [r EXCEPT ![o] = [r[o] EXCEPT !.fields = FieldsOf(r, o, global)]]]
    BY DEF CompleteFields, Parts, FieldsOf
  <1>2. [r[o] EXCEPT !.fields = FieldsOf(r, o, global)]
            = Section(FieldsOf(r, o, global), lo, eo, d)
    BY DEF Section, Holds
  <1> QED
    BY <1>1, <1>2 DEF Parts, Put

\* LatencyConfig.initialize fills the map of one object and may set its
\* threshold; l is the object with an empty map, global Nil or the object of
\* the global section.
AsksGlobal(l, g) == l.threshold <= 0 /\ g # Nil

InitialThresholds(l, g, global) ==
    [m \in DOMAIN l.methods |->
        IF l.methods[m] > 0 THEN l.methods[m]
        ELSE IF AsksGlobal(l, g) THEN getLatencyThresholdForMethod(global, m)
        ELSE getLatencyThreshold(l, global)]

InitialThreshold(l, g, global) ==
    IF (\E m \in DOMAIN l.methods : l.methods[m] <= 0) /\ ~AsksGlobal(l, g)
    THEN getLatencyThreshold(l, global) ELSE l.threshold

Emptied(l) == Latency(l.methods, l.threshold, <<>>)

\* The object of the global section at g as initialize of object o finds it.
GlobalObject(l, g, o) ==
    IF g = Nil THEN Nil ELSE IF g = o THEN Emptied(l[o]) ELSE l[g]

Initialized(l, g, global) ==
    Latency(l.methods, InitialThreshold(l, g, global), InitialThresholds(l, g, global))

\* The object at o once initialized.
InitializedAt(l, o, g) == Initialized(Emptied(l[o]), g, GlobalObject(l, g, o))

LEMMA LatencyInitializeIs ==
    ASSUME NEW r, NEW l, NEW e, NEW o \in Owners, NEW g \in Owners \cup {Nil},
           IsHeap(l), IsLatencyAt(l, o)
    PROVE  LatencyInitialize(Parts(r, l, e), o, g)
               = Parts(r, Put(l, o, InitializedAt(l, o, g)), e)
  <1>1. PICK ms, t, ts : /\ l[o] = Latency(ms, t, ts)
                         /\ \A m \in DOMAIN ms : ms[m] \in Int
    BY DEF IsLatencyAt, IsLatency
  <1>2. PICK L : L = Emptied(l[o])
    OBVIOUS
  <1>3. PICK global : global = GlobalObject(l, g, o)
    OBVIOUS
  <1>4. L = Latency(ms, t, <<>>)
    BY <1>1, <1>2 DEF Latency, Emptied
  <1>5. global = IF g = Nil THEN Nil ELSE IF g = o THEN L ELSE l[g]
    BY <1>2, <1>3 DEF GlobalObject
  <1> DEFINE emptied == [l EXCEPT ![o].thresholds = <<>>]
             unset == {m \in DOMAIN L.methods : L.methods[m] <= 0}
             N == [m \in DOMAIN L.methods |->
                      IF m \notin unset THEN L.methods[m]
                      ELSE IF AsksGlobal(L, g)
                           THEN getLatencyThresholdForMethod(global, m)
                      ELSE getLatencyThreshold(L, global)]
             T == IF unset # {} /\ ~AsksGlobal(L, g)
                  THEN getLatencyThreshold(L, global) ELSE L.threshold
  <1>6. [l[o] EXCEPT !.thresholds = <<>>] = L
    BY <1>1, <1>4 DEF Latency
  <1>7. emptied = [l EXCEPT ![o] = L]
    BY <1>6
  <1>8. emptied[o] = L /\ \A x \in Owners : x # o => emptied[x] = l[x]
    BY <1>7 DEF IsHeap
  <1>9. global = IF g = Nil THEN Nil ELSE emptied[g]
    BY <1>8, <1>5
  <1>10. L.methods = ms /\ L.threshold = t
    BY <1>4 DEF Latency
  <1>11. LatencyInitialize(Parts(r, l, e), o, g)
            = [Parts(r, l, e) EXCEPT !.latencies = [emptied EXCEPT ![o] =
                  [L EXCEPT !.thresholds = N, !.threshold = T]]]
    <2>1. Parts(r, l, e).latencies = l
      BY DEF Parts
    <2>2. LatencyInitialize(Parts(r, l, e), o, g)
            = LET un == {m \in DOMAIN emptied[o].methods :
                            emptied[o].methods[m] <= 0}
                  gl == IF g = Nil THEN Nil ELSE emptied[g]
                  asks == emptied[o].threshold <= 0 /\ g # Nil
                  own == getLatencyThreshold(emptied[o], gl)
              IN  [Parts(r, l, e) EXCEPT !.latencies = [emptied EXCEPT ![o] =
                     [emptied[o] EXCEPT
                        !.thresholds = [m \in DOMAIN emptied[o].methods |->
                          IF m \notin un THEN emptied[o].methods[m]
                          ELSE IF asks THEN getLatencyThresholdForMethod(gl, m)
                          ELSE own],
                        !.threshold = IF un # {} /\ ~asks THEN own
                                      ELSE emptied[o].threshold]]]
      BY <2>1 DEF LatencyInitialize
    <2>3. emptied[o] = L
      BY <1>8
    <2> HIDE DEF emptied
    <2> QED
      BY <1>9, <2>2, <2>3 DEF AsksGlobal
  <1>12. N = InitialThresholds(L, g, global)
    <2>1. \A m \in DOMAIN L.methods : m \in unset <=> ~(L.methods[m] > 0)
      BY <1>1, <1>10
    <2> HIDE DEF unset
    <2> QED
      BY <2>1 DEF InitialThresholds
  <1>13. T = InitialThreshold(L, g, global)
    BY DEF InitialThreshold
  <1> HIDE DEF N, T
  <1>14. [L EXCEPT !.thresholds = N, !.threshold = T] = Latency(ms, T, N)
    <2>1. [L EXCEPT !.thresholds = N, !.threshold = T]
              = [[L EXCEPT !.thresholds = N] EXCEPT !.threshold = T]
      OBVIOUS
    <2>2. [L EXCEPT !.thresholds = N] = Latency(ms, t, N)
      BY <1>4 DEF Latency
    <2>3. [Latency(ms, t, N) EXCEPT !.threshold = T] = Latency(ms, T, N)
      BY DEF Latency
    <2> QED
      BY <2>1, <2>2, <2>3
  <1>15. [emptied EXCEPT ![o] = Latency(ms, T, N)]
            = [l EXCEPT ![o] = Latency(ms, T, N)]
    BY <1>7 DEF IsHeap
  <1>16. LatencyInitialize(Parts(r, l, e), o, g)
            = Parts(r, Put(l, o, Latency(ms, T, N)), e)
    BY <1>11, <1>14, <1>15 DEF Parts, Put
  <1>17. Latency(ms, T, N) = Initialized(L, g, global)
    BY <1>10, <1>12, <1>13 DEF Initialized
  <1> QED
    BY <1>2, <1>3, <1>16, <1>17 DEF InitializedAt

LatencyOf(r, o) == IF o = Nil THEN Nil ELSE r[o].latency
ErrorsOf(r, o) == IF o = Nil THEN Nil ELSE r[o].errors
HomeOf(own, global, o, g) ==
    IF own # Nil THEN own ELSE IF global = Nil THEN o ELSE g
RateOf(e, g) == IF g = Nil THEN DefaultErrorRate ELSE e[g].rate

\* The object of the section, its own, a new one or the global section's, is
\* initialized.
LEMMA CompleteLatencyIs ==
    ASSUME NEW r, NEW l, NEW e, NEW o \in Owners, NEW global, IsHeap(r), IsHeap(l),
           NEW f, NEW lo, NEW eo, NEW d, Holds(r, o, Section(f, lo, eo, d)),
           NEW g \in Owners \cup {Nil},
           g = LatencyOf(r, global),
           NEW home \in Owners, home = HomeOf(lo, global, o, g),
           IsLatencyAt(l, home)
    PROVE  CompleteLatency(Parts(r, l, e), o, global)
               = Parts(Put(r, o, Section(f, home, eo, d)),
                       Put(l, home, InitializedAt(l, home, g)), e)
  <1>1. [r[o] EXCEPT !.latency = home] = Section(f, home, eo, d)
    BY DEF Section, Holds
  <1>2. [Parts(r, l, e) EXCEPT !.routing[o].latency = home]
            = Parts([r EXCEPT ![o] = [r[o] EXCEPT !.latency = home]], l, e)
    BY DEF Parts
  <1>3. r[o].latency = lo /\ Parts(r, l, e).routing = r
    BY DEF Section, Parts, Holds
  <1>4. CompleteLatency(Parts(r, l, e), o, global)
            = LatencyInitialize([Parts(r, l, e) EXCEPT !.routing[o].latency = home],
                                home, g)
    BY <1>3 DEF CompleteLatency, LatencyOf, HomeOf
  <1> DEFINE R == Put(r, o, Section(f, home, eo, d))
  <1>5. CompleteLatency(Parts(r, l, e), o, global)
            = LatencyInitialize(Parts(R, l, e), home, g)
    BY <1>1, <1>2, <1>4 DEF Put
  <1> HIDE DEF R
  <1>6. LatencyInitialize(Parts(R, l, e), home, g)
            = Parts(R, Put(l, home, InitializedAt(l, home, g)), e)
    BY LatencyInitializeIs
  <1> QED
    BY <1>5, <1>6 DEF R

Errors(codes, rate) == [codes |-> codes, rate |-> rate]

LEMMA CompleteErrorsIs ==
    ASSUME NEW r, NEW l, NEW e, NEW o \in Owners, NEW global, IsHeap(r), IsHeap(e),
           NEW f, NEW lo, NEW eo, NEW d, Holds(r, o, Section(f, lo, eo, d)),
           NEW g \in Owners \cup {Nil},
           g = ErrorsOf(r, global),
           NEW home \in Owners, home = HomeOf(eo, global, o, g),
           NEW codes, NEW rate, Holds(e, home, Errors(codes, rate)),
           NEW v, v = GivenRate(rate, RateOf(e, g))
    PROVE  CompleteErrors(Parts(r, l, e), o, global)
               = Parts(Put(r, o, Section(f, lo, home, d)), l,
                       Put(e, home, Errors(codes, v)))
  <1>1. [r[o] EXCEPT !.errors = home] = Section(f, lo, home, d)
    BY DEF Section, Holds
  <1>2. [Parts(r, l, e) EXCEPT !.routing[o].errors = home]
            = Parts([r EXCEPT ![o] = [r[o] EXCEPT !.errors = home]], l, e)
    BY DEF Parts
  <1>3. r[o].errors = eo /\ Parts(r, l, e).routing = r
    BY DEF Section, Parts, Holds
  <1>4. CompleteErrors(Parts(r, l, e), o, global)
            = ErrorsInitialize([Parts(r, l, e) EXCEPT !.routing[o].errors = home],
                               home, g)
    BY <1>3 DEF CompleteErrors, ErrorsOf, HomeOf
  <1> DEFINE R == Put(r, o, Section(f, lo, home, d))
  <1>5. CompleteErrors(Parts(r, l, e), o, global)
            = ErrorsInitialize(Parts(R, l, e), home, g)
    BY <1>1, <1>2, <1>4 DEF Put
  <1> HIDE DEF R
  <1>6. e[home].rate = rate
    BY DEF Errors, Holds
  <1>7. ErrorsInitialize(Parts(R, l, e), home, g)
            = [Parts(R, l, e) EXCEPT !.errors =
                  [e EXCEPT ![home] = [e[home] EXCEPT !.rate = v]]]
    BY <1>6 DEF ErrorsInitialize, Parts, GivenRate, RateOf
  <1>8. [e[home] EXCEPT !.rate = v] = Errors(codes, v)
    BY DEF Errors, Holds
  <1> QED
    BY <1>5, <1>7, <1>8 DEF R, Parts, Put

\* What is merged: the thresholds of the methods not mentioned, the patterns.
Merged(ts, us) ==
    [m \in DOMAIN ts \cup DOMAIN us |-> IF m \in DOMAIN ts THEN ts[m] ELSE us[m]]

LEMMA MergeGlobalIs ==
    ASSUME NEW r, NEW l, NEW e, NEW o \in Owners, NEW global \in Owners,
           IsHeap(l), IsHeap(e),
           NEW f, NEW lo \in Owners, NEW eo \in Owners, NEW d,
           Holds(r, o, Section(f, lo, eo, d)),
           NEW gf, NEW gl \in Owners, NEW ge \in Owners, NEW gd,
           Holds(r, global, Section(gf, gl, ge, gd)),
           NEW ms, NEW t, NEW ts, Holds(l, lo, Latency(ms, t, ts)),
           NEW codes, NEW rate, Holds(e, eo, Errors(codes, rate)),
           NEW gms, NEW gt, NEW us, Holds(l, gl, Latency(gms, gt, us)),
           NEW more, NEW grate, Holds(e, ge, Errors(more, grate))
    PROVE  MergeGlobal(Parts(r, l, e), o, global)
               = Parts(r, Put(l, lo, Latency(ms, t, Merged(ts, us))),
                       Put(e, eo, Errors(codes \cup more, rate)))
  <1>0. /\ r[o].latency = lo /\ r[o].errors = eo
        /\ r[global].latency = gl /\ r[global].errors = ge
    BY DEF Section, Holds
  <1>1. /\ l[lo].thresholds = ts /\ e[eo].codes = codes
        /\ l[gl].thresholds = us /\ e[ge].codes = more
    BY DEF Latency, Errors, Holds
  <1>2. [l[lo] EXCEPT !.thresholds = Merged(ts, us)] = Latency(ms, t, Merged(ts, us))
    BY DEF Latency, Holds
  <1>3. LatencyMerge(Parts(r, l, e), lo, gl)
            = [Parts(r, l, e) EXCEPT !.latencies =
                  [l EXCEPT ![lo] = [l[lo] EXCEPT !.thresholds = Merged(ts, us)]]]
    BY <1>1 DEF LatencyMerge, Parts, Merged
  <1> DEFINE L == [l EXCEPT ![lo] = Latency(ms, t, Merged(ts, us))]
  <1>4. LatencyMerge(Parts(r, l, e), lo, gl) = Parts(r, L, e)
    BY <1>2, <1>3 DEF Parts
  <1> HIDE DEF L
  <1>5. [e[eo] EXCEPT !.codes = codes \cup more] = Errors(codes \cup more, rate)
    <2>1. PICK all : all = codes \cup more
      OBVIOUS
    <2>2. [e[eo] EXCEPT !.codes = all] = Errors(all, rate)
      BY DEF Errors, Holds
    <2> QED
      BY <2>1, <2>2
  <1>6. ErrorsMerge(Parts(r, L, e), eo, ge)
            = [Parts(r, L, e) EXCEPT !.errors =
                  [e EXCEPT ![eo] = [e[eo] EXCEPT !.codes = codes \cup more]]]
    BY <1>1 DEF ErrorsMerge, Parts
  <1>7. MergeGlobal(Parts(r, l, e), o, global)
            = ErrorsMerge(Parts(r, L, e), eo, ge)
    BY <1>0, <1>4, ConfigAssumption DEF MergeGlobal, Parts
  <1> QED
    BY <1>5, <1>6, <1>7 DEF L, Parts, Put

\* The last thing setDefaults does.
Enabled(cfg, o, y) == [cfg EXCEPT !.routing[o].isInitialized = y,
                                  !.routing[o].isEnabled = y]

LEMMA EnabledIs ==
    ASSUME NEW r, NEW l, NEW e, NEW o \in Owners, IsHeap(r), NEW f, NEW lo, NEW eo,
           NEW d, Holds(r, o, Section(f, lo, eo, d)), NEW y
    PROVE  Enabled(Parts(r, l, e), o, y)
               = Parts(Put(r, o, Section(f, lo, eo, y)), l, e)
  <1>1. r[o] = Section(f, lo, eo, d)
    BY DEF Holds
  <1>2. Enabled(Parts(r, l, e), o, y)
            = [[Parts(r, l, e) EXCEPT !.routing[o].isInitialized = y]
                   EXCEPT !.routing[o].isEnabled = y]
    BY DEF Enabled
  <1> DEFINE s == [fields |-> f, latency |-> lo, errors |-> eo,
                   isInitialized |-> y, isEnabled |-> d]
             R == Put(r, o, s)
  <1>3. [r[o] EXCEPT !.isInitialized = y] = s
    BY <1>1 DEF Section
  <1>4. [s EXCEPT !.isEnabled = y] = Section(f, lo, eo, y)
    BY DEF Section
  <1> HIDE DEF s
  <1>5. [Parts(r, l, e) EXCEPT !.routing[o].isInitialized = y] = Parts(R, l, e)
    <2>1. [Parts(r, l, e) EXCEPT !.routing[o].isInitialized = y]
              = Parts([r EXCEPT ![o] = [r[o] EXCEPT !.isInitialized = y]], l, e)
      BY DEF Parts
    <2> QED
      BY <1>3, <2>1 DEF Put
  <1>6. R[o] = s /\ \A v : [R EXCEPT ![o] = v] = Put(r, o, v)
    BY DEF IsHeap, Put
  <1> HIDE DEF R
  <1>7. [Parts(R, l, e) EXCEPT !.routing[o].isEnabled = y]
            = Parts(Put(r, o, Section(f, lo, eo, y)), l, e)
    <2>1. [Parts(R, l, e) EXCEPT !.routing[o].isEnabled = y]
              = Parts([R EXCEPT ![o] = [R[o] EXCEPT !.isEnabled = y]], l, e)
      BY DEF Parts
    <2> QED
      BY <1>4, <1>6, <2>1
  <1> QED
    BY <1>2, <1>5, <1>7

LEMMA UnmarshalIs ==
    ASSUME NEW o \in Owners
    PROVE  Unmarshal(o) = Section(yaml[o].fields,
                                  IF yaml[o].latency = Nil THEN Nil ELSE o,
                                  IF yaml[o].errors = Nil THEN Nil ELSE o, FALSE)
  BY DEF Unmarshal, Section

LEMMA NoMethods == DOMAIN <<>> = {}
  OBVIOUS

\* What Unmarshal leaves on the heap.
LEMMA ReadIs ==
    ASSUME NEW o \in Owners, yaml[o] \in Sections(o)
    PROVE  /\ IsSection(yaml[o])
           /\ IsLatency(ReadLatency(o))
           /\ Emptied(ReadLatency(o)) = ReadLatency(o)
           /\ DOMAIN ReadLatency(o).methods \subseteq Methods
           /\ ReadErrors(o) = Errors(ReadErrors(o).codes, ReadErrors(o).rate)
           /\ ReadErrors(o).rate \in Int
  <1>1. IsSection(yaml[o])
    BY ConfigAssumption
  <1>2. \A m \in DOMAIN ReadLatency(o).methods : ReadLatency(o).methods[m] \in Int
    BY <1>1, NoMethods DEF ReadLatency, IsSection
  <1>3. ReadLatency(o).threshold \in Int
    BY <1>1 DEF ReadLatency, IsSection
  <1>4. ReadLatency(o) = Latency(ReadLatency(o).methods, ReadLatency(o).threshold,
                                 ReadLatency(o).thresholds)
    BY DEF ReadLatency, Latency
  <1>5. Emptied(ReadLatency(o)) = ReadLatency(o)
    BY DEF Emptied, ReadLatency, Latency
  <1>6. DOMAIN ReadLatency(o).methods \subseteq Methods
    BY <1>1, NoMethods DEF ReadLatency, IsSection
  <1>7. /\ ReadErrors(o) = Errors(ReadErrors(o).codes, ReadErrors(o).rate)
        /\ ReadErrors(o).rate \in Int
    BY <1>1 DEF ReadErrors, NoErrors, Errors, IsSection
  <1> QED
    BY <1>1, <1>2, <1>3, <1>4, <1>5, <1>6, <1>7 DEF IsLatency

LEMMA GlobalIs ==
    ASSUME yaml[Global] \in Sections(Global)
    PROVE  /\ FinalLatency(Global) = Initialized(ReadLatency(Global), Nil, Nil)
           /\ CodesIn(Global) = ReadErrors(Global).codes
           /\ GlobalRate = GivenRate(ReadErrors(Global).rate, DefaultErrorRate)
           /\ FinalErrors(Global) = Errors(CodesIn(Global), GlobalRate)
  <1> DEFINE L == ReadLatency(Global)
  <1>1. /\ IsLatency(L)
        /\ Global \in Owners /\ DefaultMaxLatency \in Nat \ {0}
        /\ DefaultErrorRate # 0
    BY ReadIs, ConfigAssumption DEF Owners
  <1>2. ~AsksGlobal(L, Nil)
    BY DEF AsksGlobal
  <1>3. getLatencyThreshold(L, Nil) = GivenDuration(L.threshold, DefaultMaxLatency)
    BY <1>1 DEF getLatencyThreshold, GivenDuration, IsLatency
  <1>4. \A m \in DOMAIN L.methods :
            GlobalThresholds[m] = GivenDuration(L.methods[m],
                                     GivenDuration(L.threshold, DefaultMaxLatency))
    BY NoMethods DEF GlobalThresholds, ReadLatency
  <1>5. InitialThresholds(L, Nil, Nil) = [m \in DOMAIN L.methods |-> GlobalThresholds[m]]
    <2> HIDE DEF L
    <2> QED
      BY <1>2, <1>3, <1>4 DEF InitialThresholds, GivenDuration
  <1>6. LeftThreshold = IF \E m \in DOMAIN L.methods : L.methods[m] <= 0
                          THEN GivenDuration(L.threshold, DefaultMaxLatency)
                          ELSE L.threshold
    BY NoMethods DEF LeftThreshold, ReadLatency
  <1>7. InitialThreshold(L, Nil, Nil) = LeftThreshold
    <2> HIDE DEF L
    <2> QED
      BY <1>2, <1>3, <1>6 DEF InitialThreshold
  <1>8. FinalLatency(Global) = Initialized(L, Nil, Nil)
    BY <1>5, <1>7 DEF FinalLatency, Initialized, Latency
  <1>9. /\ CodesIn(Global) = ReadErrors(Global).codes
        /\ GlobalRate = GivenRate(ReadErrors(Global).rate, DefaultErrorRate)
    BY DEF CodesIn, GlobalRate, RateIn, ReadErrors, NoErrors, GivenRate
  <1> QED
    BY <1>8, <1>9 DEF FinalErrors, Errors

LEMMA CompleteGlobal ==
    ASSUME NEW r, NEW l, NEW e, IsHeap(r), IsHeap(l), IsHeap(e),
           yaml[Global] \in Sections(Global),
           Holds(r, Global, Unmarshal(Global)),
           Holds(l, Global, ReadLatency(Global)),
           Holds(e, Global, ReadErrors(Global))
    PROVE  Complete(Parts(r, l, e), Global, Nil)
               = Parts(Put(r, Global, FinalRouting(Global)),
                       Put(l, Global, FinalLatency(Global)),
                       Put(e, Global, FinalErrors(Global)))
  <1>0. PICK no, yes : no = FALSE /\ yes = TRUE
    OBVIOUS
  <1> DEFINE lo == IF yaml[Global].latency = Nil THEN Nil ELSE Global
             eo == IF yaml[Global].errors = Nil THEN Nil ELSE Global
             F == SpecifiedFields(Global)
             L == FinalLatency(Global)
             E == FinalErrors(Global)
             R1 == Put(r, Global, Section(F, lo, eo, no))
             R2 == Put(r, Global, Section(F, Global, eo, no))
             R3 == Put(r, Global, Section(F, Global, Global, no))
             R4 == Put(r, Global, Section(F, Global, Global, yes))
  <1>1. Global \in Owners /\ Nil \notin Owners
    BY ConfigAssumption DEF Owners
  <1>2. Holds(r, Global, Section(yaml[Global].fields, lo, eo, no))
    BY <1>0, <1>1, UnmarshalIs DEF Holds
  <1>3. FieldsOf(r, Global, Nil) = F
    <2>1. r[Global].fields = yaml[Global].fields
      BY <1>2 DEF Holds, Section
    <2> QED
      BY <2>1 DEF FieldsOf, SpecifiedFields
  <1>4. /\ HomeOf(lo, Nil, Global, Nil) = Global
        /\ HomeOf(eo, Nil, Global, Nil) = Global
        /\ LatencyOf(R1, Nil) = Nil /\ ErrorsOf(R2, Nil) = Nil
    BY <1>1 DEF HomeOf, LatencyOf, ErrorsOf
  <1>5. IsLatencyAt(l, Global) /\ InitializedAt(l, Global, Nil) = L
    BY <1>1, ReadIs, GlobalIs
       DEF IsLatencyAt, InitializedAt, Holds, GlobalObject
  <1>6. PICK codes, rate : /\ Holds(e, Global, Errors(codes, rate))
                           /\ codes = CodesIn(Global)
                           /\ GivenRate(rate, RateOf(e, Nil)) = GlobalRate
    BY <1>1, ReadIs, GlobalIs DEF Holds, RateOf
  <1>7. Errors(codes, GlobalRate) = E
    BY <1>6, GlobalIs
  <1>8. R4 = Put(r, Global, FinalRouting(Global))
    BY <1>0, <1>1 DEF FinalRouting, Section, LatencyHome, ErrorsHome
  <1> HIDE DEF lo, eo, F, L, E
  <1>9. CompleteFields(Parts(r, l, e), Global, Nil) = Parts(R1, l, e)
    BY <1>1, <1>2, <1>3, CompleteFieldsIs
  <1>10. IsHeap(R1) /\ Holds(R1, Global, Section(F, lo, eo, no))
    BY <1>1, PutIs
  <1>11. CompleteLatency(Parts(R1, l, e), Global, Nil)
             = Parts(Put(R1, Global, Section(F, Global, eo, no)),
                     Put(l, Global, L), e)
    <2> HIDE DEF R1, R2
    <2> QED
      BY <1>1, <1>4, <1>5, <1>10, CompleteLatencyIs
  <1>12. Put(R1, Global, Section(F, Global, eo, no)) = R2
    BY <1>1, PutIs
  <1>13. IsHeap(R2) /\ Holds(R2, Global, Section(F, Global, eo, no))
    BY <1>1, PutIs
  <1>14. CompleteErrors(Parts(R2, Put(l, Global, L), e), Global, Nil)
             = Parts(Put(R2, Global, Section(F, Global, Global, no)),
                     Put(l, Global, L), Put(e, Global, E))
    <2> HIDE DEF R1, R2
    <2> QED
      BY <1>1, <1>4, <1>6, <1>7, <1>13, CompleteErrorsIs
  <1>15. Put(R2, Global, Section(F, Global, Global, no)) = R3
    BY <1>1, PutIs
  <1>16. IsHeap(R3) /\ Holds(R3, Global, Section(F, Global, Global, no))
    BY <1>1, PutIs
  <1>17. Put(R3, Global, Section(F, Global, Global, yes)) = R4
    BY <1>1, PutIs
  <1> HIDE DEF R1, R2, R3, R4
  <1>18. Complete(Parts(r, l, e), Global, Nil)
             = Enabled(Parts(R3, Put(l, Global, L), Put(e, Global, E)), Global, yes)
    BY <1>0, <1>9, <1>11, <1>12, <1>14, <1>15 DEF Complete, MergeGlobal, Enabled
  <1>19. @ = Parts(R4, Put(l, Global, L), Put(e, Global, E))
    BY <1>1, <1>16, <1>17, EnabledIs
  <1> QED
    BY <1>8, <1>18, <1>19 DEF L, E

\* The object of the global section does not change when a chain shares it,
\* and a chain's own becomes what the two sections ask for.
LEMMA SharedLatencyIs ==
    ASSUME NEW l, yaml[Global] \in Sections(Global),
           Holds(l, Global, FinalLatency(Global))
    PROVE  /\ IsLatencyAt(l, Global)
           /\ InitializedAt(l, Global, Global) = FinalLatency(Global)
  <1> DEFINE L == ReadLatency(Global)
             GL == FinalLatency(Global)
             E == Emptied(GL)
  <1>1. /\ Global \in Owners /\ Nil \notin Owners
        /\ DefaultMaxLatency \in Nat \ {0}
        /\ IsLatency(L)
    BY ReadIs, ConfigAssumption DEF Owners
  <1>2. /\ GL = Latency(L.methods, LeftThreshold,
                        [m \in DOMAIN L.methods |-> GlobalThresholds[m]])
        /\ GL.methods = L.methods /\ GL.threshold = LeftThreshold
        /\ GL.thresholds = [m \in DOMAIN L.methods |-> GlobalThresholds[m]]
    BY DEF FinalLatency, Latency
  <1>3. LeftThreshold = IF \E m \in DOMAIN L.methods : L.methods[m] <= 0
                          THEN GivenDuration(L.threshold, DefaultMaxLatency)
                          ELSE L.threshold
    BY NoMethods DEF LeftThreshold, ReadLatency
  <1>4. \A m \in DOMAIN L.methods :
            GlobalThresholds[m] = GivenDuration(L.methods[m],
                                     GivenDuration(L.threshold, DefaultMaxLatency))
    BY NoMethods DEF GlobalThresholds, ReadLatency
  <1> HIDE DEF L, GL
  <1>5. LeftThreshold \in Int
    BY <1>1, <1>3 DEF IsLatency, GivenDuration
  <1>6. IsLatency(GL)
    BY <1>1, <1>2, <1>5 DEF IsLatency
  <1>7. E.methods = L.methods /\ E.threshold = LeftThreshold
    BY <1>2 DEF Emptied, Latency
  <1> HIDE DEF E
  <1>8. \A m \in DOMAIN L.methods :
            ~(L.methods[m] > 0) =>
                /\ ~AsksGlobal(E, Global)
                /\ getLatencyThreshold(E, E) = LeftThreshold
                /\ GlobalThresholds[m] = LeftThreshold
    <2> SUFFICES ASSUME NEW m \in DOMAIN L.methods, ~(L.methods[m] > 0)
                 PROVE  /\ LeftThreshold > 0
                        /\ GlobalThresholds[m] = LeftThreshold
      BY <1>5, <1>7 DEF AsksGlobal, getLatencyThreshold
    <2>1. L.methods[m] <= 0
      BY <1>1 DEF IsLatency
    <2>2. LeftThreshold = GivenDuration(L.threshold, DefaultMaxLatency)
      BY <1>3, <2>1
    <2> QED
      BY <1>1, <1>4, <2>2 DEF GivenDuration, IsLatency
  <1>9. InitialThresholds(E, Global, E)
            = [m \in DOMAIN L.methods |-> GlobalThresholds[m]]
    <2>1. \A m \in DOMAIN L.methods :
              L.methods[m] > 0 => GlobalThresholds[m] = L.methods[m]
      BY <1>4 DEF GivenDuration
    <2> QED
      BY <1>7, <1>8, <2>1 DEF InitialThresholds
  <1>10. InitialThreshold(E, Global, E) = LeftThreshold
    <2>1. \A m \in DOMAIN L.methods : L.methods[m] <= 0 => ~(L.methods[m] > 0)
      BY <1>1 DEF IsLatency
    <2> QED
      BY <1>7, <1>8, <2>1 DEF InitialThreshold
  <1>11. Initialized(E, Global, E) = GL
    BY <1>2, <1>7, <1>9, <1>10 DEF Initialized
  <1> QED
    BY <1>1, <1>6, <1>11
       DEF GL, E, IsLatencyAt, InitializedAt, Holds, GlobalObject

LEMMA OwnLatencyIs ==
    ASSUME NEW l, NEW c \in Range(Chains),
           yaml[Global] \in Sections(Global), yaml[c] \in Sections(c),
           yaml[c].latency # Nil,
           Holds(l, Global, FinalLatency(Global)), Holds(l, c, ReadLatency(c))
    PROVE  /\ IsLatencyAt(l, c)
           /\ InitializedAt(l, c, Global)
                = Latency(yaml[c].latency.methods, yaml[c].latency.threshold,
                          [m \in DOMAIN yaml[c].latency.methods |->
                               LoadedThreshold(c, m)])
  <1> DEFINE L == ReadLatency(c)
             GL == FinalLatency(Global)
  <1>1. /\ Global # c /\ c \in Owners /\ Nil # Global /\ Nil \notin Owners
        /\ IsLatency(L) /\ Emptied(L) = L
    BY ReadIs, ConfigAssumption DEF Owners
  <1>2. L.methods = yaml[c].latency.methods /\ L.threshold = yaml[c].latency.threshold
    BY DEF ReadLatency
  <1>3. GL.thresholds = [m \in DOMAIN GlobalThresholds |-> GlobalThresholds[m]]
    BY NoMethods DEF FinalLatency, GlobalThresholds, ReadLatency
  <1> HIDE DEF L, GL
  <1>4. \A m : getLatencyThresholdForMethod(GL, m)
                   = GlobalThresholdOf(m, DefaultMaxLatency)
    BY <1>3 DEF getLatencyThresholdForMethod, GlobalThresholdOf
  <1>5. L.threshold > 0 => getLatencyThreshold(L, GL) = L.threshold
    BY DEF getLatencyThreshold
  <1>6. AsksGlobal(L, Global) <=> ~(L.threshold > 0)
    BY <1>1 DEF AsksGlobal, IsLatency
  <1>7. \A m \in DOMAIN L.methods :
            LoadedThreshold(c, m)
                = IF L.methods[m] > 0 THEN L.methods[m]
                  ELSE IF AsksGlobal(L, Global)
                       THEN getLatencyThresholdForMethod(GL, m)
                  ELSE getLatencyThreshold(L, GL)
    BY <1>2, <1>4, <1>5, <1>6 DEF LoadedThreshold, GivenDuration
  <1>8. InitialThresholds(L, Global, GL)
            = [m \in DOMAIN L.methods |-> LoadedThreshold(c, m)]
    BY <1>7 DEF InitialThresholds
  <1>9. InitialThreshold(L, Global, GL) = L.threshold
    BY <1>5, <1>6 DEF InitialThreshold
  <1>10. Initialized(L, Global, GL)
             = Latency(L.methods, L.threshold,
                       [m \in DOMAIN L.methods |-> LoadedThreshold(c, m)])
    BY <1>8, <1>9 DEF Initialized
  <1>11. /\ IsLatencyAt(l, c)
         /\ InitializedAt(l, c, Global) = Initialized(L, Global, GL)
    BY <1>1 DEF IsLatencyAt, InitializedAt, Holds, GlobalObject, L, GL
  <1> QED
    BY <1>2, <1>10, <1>11

\* What completing the latency of a chain and merging leave on the heap.
LEMMA ChainLatencyIs ==
    ASSUME NEW l, IsHeap(l), NEW c \in Range(Chains),
           yaml[Global] \in Sections(Global), yaml[c] \in Sections(c),
           Holds(l, Global, FinalLatency(Global)), Holds(l, c, ReadLatency(c))
    PROVE  /\ LatencyHome(c) \in Owners
           /\ IsLatencyAt(l, LatencyHome(c))
           /\ \E ms, t, ts, gms, gt, us :
                LET initialized == Put(l, LatencyHome(c),
                                       InitializedAt(l, LatencyHome(c), Global))
                IN  /\ Holds(initialized, LatencyHome(c), Latency(ms, t, ts))
                    /\ Holds(initialized, Global, Latency(gms, gt, us))
                    /\ Put(initialized, LatencyHome(c), Latency(ms, t, Merged(ts, us)))
                           = Put(l, c, FinalLatency(c))
  <1> DEFINE GL == FinalLatency(Global)
             home == LatencyHome(c)
             initialized == Put(l, home, InitializedAt(l, home, Global))
  <1>1. Global \in Owners /\ c \in Owners /\ Global # c
    BY ConfigAssumption DEF Owners
  <1>2. PICK gms, gt, us : /\ GL = Latency(gms, gt, us)
                           /\ us = [m \in DOMAIN ReadLatency(Global).methods |->
                                       GlobalThresholds[m]]
    BY DEF FinalLatency, Latency
  <1>3. CASE yaml[c].latency = Nil
    <2>1. home = Global /\ FinalLatency(c) = ReadLatency(c)
      BY <1>1, <1>3 DEF LatencyHome, FinalLatency
    <2>2. IsLatencyAt(l, Global) /\ initialized = l
      BY <1>1, <2>1, SharedLatencyIs, PutIs
    <2>3. Merged(us, us) = us
      BY <1>2 DEF Merged
    <2>4. Put(l, Global, Latency(gms, gt, Merged(us, us))) = l
      BY <1>1, <1>2, <2>3, PutIs
    <2>5. Put(l, c, FinalLatency(c)) = l
      BY <1>1, <2>1, PutIs
    <2>6. Holds(l, Global, Latency(gms, gt, us))
      BY <1>2
    <2> HIDE DEF GL, home
    <2>7. \E ms, t, ts, gms_1, gt_1, us_1 :
             /\ Holds(l, Global, Latency(ms, t, ts))
             /\ Holds(l, Global, Latency(gms_1, gt_1, us_1))
             /\ Put(l, Global, Latency(ms, t, Merged(ts, us_1))) = l
      BY <2>4, <2>6
    <2> QED
      BY <1>1, <2>1, <2>2, <2>5, <2>7 DEF home
  <1>4. CASE yaml[c].latency # Nil
    <2> DEFINE l1 == yaml[c].latency
               ts == [m \in DOMAIN l1.methods |-> LoadedThreshold(c, m)]
    <2>1. home = c
      BY <1>4 DEF LatencyHome
    <2>2. IsLatencyAt(l, c) /\ InitializedAt(l, c, Global)
                                  = Latency(l1.methods, l1.threshold, ts)
      BY <1>4, OwnLatencyIs
    <2>3. /\ Holds(initialized, c, Latency(l1.methods, l1.threshold, ts))
          /\ Holds(initialized, Global, Latency(gms, gt, us))
      <3> HIDE DEF ts, l1
      <3> QED
        BY <1>1, <1>2, <2>1, <2>2, PutIs
    <2>4. DOMAIN us = DOMAIN GlobalThresholds /\ l1.methods = ReadLatency(c).methods
      BY <1>2, <1>4, NoMethods DEF ReadLatency, GlobalThresholds
    <2>5. \A m \in DOMAIN us : m \notin DOMAIN ts =>
              us[m] = LoadedThreshold(c, m)
      BY <1>2, <1>4, <2>4 DEF LoadedThreshold, GlobalThresholdOf
    <2>6. Merged(ts, us) = [m \in Listed(c) |-> LoadedThreshold(c, m)]
      <3>1. DOMAIN ts = DOMAIN l1.methods
        OBVIOUS
      <3>2. \A m \in DOMAIN ts : ts[m] = LoadedThreshold(c, m)
        OBVIOUS
      <3>3. Listed(c) = DOMAIN ts \cup DOMAIN us
        BY <2>4, <3>1 DEF Listed
      <3> HIDE DEF ts, l1
      <3> QED
        BY <2>5, <3>2, <3>3 DEF Merged
    <2>7. Latency(l1.methods, l1.threshold, Merged(ts, us)) = FinalLatency(c)
      <3> HIDE DEF ts
      <3> QED
        BY <1>1, <1>4, <2>6 DEF FinalLatency, Latency
    <2>8. Put(initialized, c, FinalLatency(c)) = Put(l, c, FinalLatency(c))
      BY <1>1, <2>1, PutIs
    <2> HIDE DEF ts, l1, initialized, home
    <2>9. \E ms, t, ts_1, gms_1, gt_1, us_1 :
             /\ Holds(initialized, c, Latency(ms, t, ts_1))
             /\ Holds(initialized, Global, Latency(gms_1, gt_1, us_1))
             /\ Put(initialized, c, Latency(ms, t, Merged(ts_1, us_1)))
                    = Put(l, c, FinalLatency(c))
      BY <2>3, <2>7, <2>8
    <2> QED
      BY <1>1, <2>1, <2>2, <2>9 DEF initialized, home
  <1> QED
    BY <1>3, <1>4

LEMMA ChainErrorsIs ==
    ASSUME NEW e, IsHeap(e), NEW c \in Range(Chains),
           yaml[Global] \in Sections(Global), yaml[c] \in Sections(c),
           Holds(e, Global, FinalErrors(Global)), Holds(e, c, ReadErrors(c))
    PROVE  /\ ErrorsHome(c) \in Owners
           /\ \E codes, rate, more, grate :
                LET initialized == Put(e, ErrorsHome(c),
                                       Errors(codes, GivenRate(rate, RateOf(e, Global))))
                IN  /\ Holds(e, ErrorsHome(c), Errors(codes, rate))
                    /\ Holds(initialized, Global, Errors(more, grate))
                    /\ Put(initialized, ErrorsHome(c),
                           Errors(codes \cup more, GivenRate(rate, RateOf(e, Global))))
                           = Put(e, c, FinalErrors(c))
  <1> DEFINE GE == FinalErrors(Global)
             home == ErrorsHome(c)
  <1>1. Global \in Owners /\ c \in Owners /\ Global # c /\ Nil \notin Owners
    BY ConfigAssumption DEF Owners
  <1>2. GE = Errors(CodesIn(Global), GlobalRate) /\ RateOf(e, Global) = GlobalRate
    BY <1>1, GlobalIs DEF Holds, RateOf, Errors
  <1>3. CASE yaml[c].errors = Nil
    <2>1. home = Global /\ FinalErrors(c) = ReadErrors(c)
      BY <1>1, <1>3 DEF ErrorsHome, FinalErrors, ReadErrors
    <2>2. GivenRate(GlobalRate, GlobalRate) = GlobalRate
      BY DEF GivenRate
    <2>3. CodesIn(Global) \cup CodesIn(Global) = CodesIn(Global)
      OBVIOUS
    <2>4. Put(e, Global, GE) = e /\ Put(e, c, FinalErrors(c)) = e
      BY <1>1, <2>1, PutIs
    <2> HIDE DEF GE, home
    <2>5. /\ Holds(e, Global, Errors(CodesIn(Global), GlobalRate))
          /\ Put(e, Global, Errors(CodesIn(Global), GivenRate(GlobalRate, GlobalRate))) = e
          /\ Put(e, Global, Errors(CodesIn(Global) \cup CodesIn(Global),
                                   GivenRate(GlobalRate, GlobalRate))) = e
      BY <1>2, <2>2, <2>3, <2>4 DEF GE
    <2> QED
      BY <1>1, <1>2, <2>1, <2>4, <2>5 DEF home
  <1>4. CASE yaml[c].errors # Nil
    <2> DEFINE codes == yaml[c].errors.codes
               rate == yaml[c].errors.rate
               initialized == Put(e, c, Errors(codes, GivenRate(rate, GlobalRate)))
    <2>1. home = c
      BY <1>4 DEF ErrorsHome
    <2>2. Holds(e, c, Errors(codes, rate))
      BY <1>1, <1>4, ReadIs DEF Holds, ReadErrors
    <2>3. Errors(codes \cup CodesIn(Global), GivenRate(rate, GlobalRate)) = FinalErrors(c)
      BY <1>1, <1>4 DEF FinalErrors, Errors
    <2> HIDE DEF codes, rate, GE, home
    <2>4. Holds(initialized, Global, Errors(CodesIn(Global), GlobalRate))
      BY <1>1, <1>2, PutIs DEF GE
    <2>5. Put(initialized, c, FinalErrors(c)) = Put(e, c, FinalErrors(c))
      BY <1>1, PutIs
    <2>6. Put(initialized, c, Errors(codes \cup CodesIn(Global), GivenRate(rate, GlobalRate)))
              = Put(e, c, FinalErrors(c))
      BY <2>3, <2>5
    <2> QED
      BY <1>1, <1>2, <2>1, <2>2, <2>4, <2>6 DEF home, initialized
  <1> QED
    BY <1>3, <1>4

LEMMA CompleteChain ==
    ASSUME NEW r, NEW l, NEW e, IsHeap(r), IsHeap(l), IsHeap(e),
           NEW c \in Range(Chains),
           yaml[Global] \in Sections(Global), yaml[c] \in Sections(c),
           Holds(r, Global, FinalRouting(Global)), Holds(r, c, Unmarshal(c)),
           Holds(l, Global, FinalLatency(Global)), Holds(l, c, ReadLatency(c)),
           Holds(e, Global, FinalErrors(Global)), Holds(e, c, ReadErrors(c))
    PROVE  Complete(Parts(r, l, e), c, Global)
               = Parts(Put(r, c, FinalRouting(c)), Put(l, c, FinalLatency(c)),
                       Put(e, c, FinalErrors(c)))
  <1>0. PICK no, yes : no = FALSE /\ yes = TRUE
    OBVIOUS
  <1> DEFINE lo == IF yaml[c].latency = Nil THEN Nil ELSE c
             eo == IF yaml[c].errors = Nil THEN Nil ELSE c
             F == SpecifiedFields(c)
             G == SpecifiedFields(Global)
             lh == LatencyHome(c)
             eh == ErrorsHome(c)
             R1 == Put(r, c, Section(F, lo, eo, no))
             R2 == Put(r, c, Section(F, lh, eo, no))
             R3 == Put(r, c, Section(F, lh, eh, no))
             R4 == Put(r, c, Section(F, lh, eh, yes))
  <1>1. Global \in Owners /\ c \in Owners /\ Global # c /\ Nil \notin Owners
    BY ConfigAssumption DEF Owners
  <1>2. Holds(r, c, Section(yaml[c].fields, lo, eo, no))
    BY <1>0, <1>1, UnmarshalIs DEF Holds
  <1>3. Holds(r, Global, Section(G, Global, Global, yes))
    BY <1>0 DEF Holds, FinalRouting, Section, LatencyHome, ErrorsHome
  <1>4. FieldsOf(r, c, Global) = F
    <2>1. r[c].fields = yaml[c].fields /\ r[Global].fields = G
      BY <1>2, <1>3 DEF Holds, Section
    <2> QED
      BY <1>1, <2>1 DEF FieldsOf, SpecifiedFields
  <1>5. /\ HomeOf(lo, Global, c, Global) = lh
        /\ HomeOf(eo, Global, c, Global) = eh
    BY <1>1 DEF HomeOf, LatencyHome, ErrorsHome
  <1>6. R4 = Put(r, c, FinalRouting(c))
    BY <1>0 DEF FinalRouting, Section
  <1>7. lh \in Owners /\ IsLatencyAt(l, lh)
    BY ChainLatencyIs
  <1> DEFINE LI == Put(l, lh, InitializedAt(l, lh, Global))
  <1>8. PICK ms, t, ts, gms, gt, us :
            /\ Holds(LI, lh, Latency(ms, t, ts))
            /\ Holds(LI, Global, Latency(gms, gt, us))
            /\ Put(LI, lh, Latency(ms, t, Merged(ts, us)))
                   = Put(l, c, FinalLatency(c))
    BY ChainLatencyIs
  <1>9. eh \in Owners
    BY ChainErrorsIs
  <1>10. PICK codes, rate, more, grate :
            LET EI == Put(e, eh, Errors(codes, GivenRate(rate, RateOf(e, Global))))
            IN  /\ Holds(e, eh, Errors(codes, rate))
                /\ Holds(EI, Global, Errors(more, grate))
                /\ Put(EI, eh,
                       Errors(codes \cup more, GivenRate(rate, RateOf(e, Global))))
                       = Put(e, c, FinalErrors(c))
    BY ChainErrorsIs
  <1> DEFINE v == GivenRate(rate, RateOf(e, Global))
             EI == Put(e, eh, Errors(codes, v))
  <1> HIDE DEF lo, eo, F, G, lh, eh, v
  <1>11. CompleteFields(Parts(r, l, e), c, Global) = Parts(R1, l, e)
    BY <1>1, <1>2, <1>4, CompleteFieldsIs
  <1>12. /\ IsHeap(R1) /\ Holds(R1, c, Section(F, lo, eo, no))
         /\ Holds(R1, Global, Section(G, Global, Global, yes))
         /\ Put(R1, c, Section(F, lh, eo, no)) = R2
    BY <1>1, <1>3, PutIs
  <1>13. /\ IsHeap(R2) /\ Holds(R2, c, Section(F, lh, eo, no))
         /\ Holds(R2, Global, Section(G, Global, Global, yes))
         /\ Put(R2, c, Section(F, lh, eh, no)) = R3
    BY <1>1, <1>3, PutIs
  <1>14. /\ IsHeap(R3) /\ Holds(R3, c, Section(F, lh, eh, no))
         /\ Holds(R3, Global, Section(G, Global, Global, yes))
         /\ Put(R3, c, Section(F, lh, eh, yes)) = R4
    BY <1>1, <1>3, PutIs
  <1>15. IsHeap(LI) /\ IsHeap(EI)
    BY <1>7, <1>9, PutIs
  <1> HIDE DEF R1, R2, R3, R4
  <1>16. LatencyOf(R1, Global) = Global /\ ErrorsOf(R2, Global) = Global
    BY <1>1, <1>12, <1>13 DEF LatencyOf, ErrorsOf, Holds, Section
  <1>17. CompleteLatency(Parts(R1, l, e), c, Global) = Parts(R2, LI, e)
    BY <1>1, <1>5, <1>7, <1>12, <1>16, CompleteLatencyIs
  <1> HIDE DEF LI
  <1>18. CompleteErrors(Parts(R2, LI, e), c, Global) = Parts(R3, LI, EI)
    BY <1>1, <1>5, <1>9, <1>10, <1>13, <1>16, CompleteErrorsIs DEF v
  <1>19. Holds(EI, eh, Errors(codes, v)) /\ Holds(EI, Global, Errors(more, grate))
    BY <1>9, <1>10, PutIs DEF v
  <1> HIDE DEF EI
  <1>20. MergeGlobal(Parts(R3, LI, EI), c, Global)
             = Parts(R3, Put(LI, lh, Latency(ms, t, Merged(ts, us))),
                     Put(EI, eh, Errors(codes \cup more, v)))
    BY <1>1, <1>7, <1>8, <1>9, <1>14, <1>15, <1>19, MergeGlobalIs
  <1>21. Put(EI, eh, Errors(codes \cup more, v)) = Put(e, c, FinalErrors(c))
    BY <1>10 DEF EI, v
  <1> DEFINE LF == Put(l, c, FinalLatency(c))
             EF == Put(e, c, FinalErrors(c))
  <1>22. MergeGlobal(Parts(R3, LI, EI), c, Global) = Parts(R3, LF, EF)
    BY <1>8, <1>20, <1>21
  <1> HIDE DEF LF, EF
  <1>23. Complete(Parts(r, l, e), c, Global) = Enabled(Parts(R3, LF, EF), c, yes)
    BY <1>0, <1>11, <1>17, <1>18, <1>22 DEF Complete, Enabled
  <1>24. @ = Parts(R4, LF, EF)
    BY <1>1, <1>14, EnabledIs
  <1> QED
    BY <1>6, <1>23, <1>24 DEF LF, EF

-----------------------------------------------------------------------------
(***************************************************************************)
(* The steps of parseConfig complete one section after the other.          *)
(***************************************************************************)
LEMMA WhenIs ==
    ASSUME NEW S
    PROVE  \E r, l, e :
               /\ ConfigWhen(S) = Parts(r, l, e)
               /\ IsHeap(r) /\ IsHeap(l) /\ IsHeap(e)
               /\ \A o \in Owners :
                     IF o \in S
                     THEN /\ Holds(r, o, FinalRouting(o))
                          /\ Holds(l, o, FinalLatency(o))
                          /\ Holds(e, o, FinalErrors(o))
                     ELSE /\ Holds(r, o, Unmarshal(o))
                          /\ Holds(l, o, ReadLatency(o))
                          /\ Holds(e, o, ReadErrors(o))
               /\ \A o \in Owners :
                     ConfigWhen(S \cup {o}) = Parts(Put(r, o, FinalRouting(o)),
                                                   Put(l, o, FinalLatency(o)),
                                                   Put(e, o, FinalErrors(o)))
  <1> DEFINE R(T) == [o \in Owners |-> IF o \in T THEN FinalRouting(o) ELSE Unmarshal(o)]
             L(T) == [o \in Owners |-> IF o \in T THEN FinalLatency(o) ELSE ReadLatency(o)]
             E(T) == [o \in Owners |-> IF o \in T THEN FinalErrors(o) ELSE ReadErrors(o)]
  <1>1. \A T : ConfigWhen(T) = Parts(R(T), L(T), E(T))
    BY DEF ConfigWhen, Parts
  <1>2. IsHeap(R(S)) /\ IsHeap(L(S)) /\ IsHeap(E(S))
    BY DEF IsHeap
  <1>3. \A o \in Owners :
          IF o \in S
          THEN /\ Holds(R(S), o, FinalRouting(o)) /\ Holds(L(S), o, FinalLatency(o))
               /\ Holds(E(S), o, FinalErrors(o))
          ELSE /\ Holds(R(S), o, Unmarshal(o)) /\ Holds(L(S), o, ReadLatency(o))
               /\ Holds(E(S), o, ReadErrors(o))
    BY DEF Holds
  <1>4. ASSUME NEW o \in Owners
        PROVE  /\ R(S \cup {o}) = Put(R(S), o, FinalRouting(o))
               /\ L(S \cup {o}) = Put(L(S), o, FinalLatency(o))
               /\ E(S \cup {o}) = Put(E(S), o, FinalErrors(o))
    <2>1. R(S \cup {o}) = Put(R(S), o, FinalRouting(o))
      BY DEF Put
    <2>2. L(S \cup {o}) = Put(L(S), o, FinalLatency(o))
      BY DEF Put
    <2>3. E(S \cup {o}) = Put(E(S), o, FinalErrors(o))
      BY DEF Put
    <2> QED
      BY <2>1, <2>2, <2>3
  <1> HIDE DEF R, L, E
  <1> QED
    BY <1>1, <1>2, <1>3, <1>4

LEMMA CompleteGlobalWhen ==
    ASSUME NEW S, Global \notin S, yaml[Global] \in Sections(Global)
    PROVE  Complete(ConfigWhen(S), Global, Nil) = ConfigWhen(S \cup {Global})
  <1>1. Global \in Owners
    BY DEF Owners
  <1> QED
    BY <1>1, WhenIs, CompleteGlobal

LEMMA CompleteChainWhen ==
    ASSUME NEW S, NEW c \in Range(Chains), Global \in S, c \notin S,
           yaml[Global] \in Sections(Global), yaml[c] \in Sections(c)
    PROVE  Complete(ConfigWhen(S), c, Global) = ConfigWhen(S \cup {c})
  <1>1. Global \in Owners /\ c \in Owners
    BY DEF Owners
  <1> QED
    BY <1>1, WhenIs, CompleteChain

\* A section says something before it is completed if the file does, and
\* always afterwards.
LEMMA EnhancedIs ==
    ASSUME NEW o \in Owners
    PROVE  /\ IsEnhancedRoutingControlDefined(Unmarshal(o))
                 <=> IsEnhancedRoutingControlDefined(yaml[o])
           /\ IsEnhancedRoutingControlDefined(FinalRouting(o))
           /\ ~Unmarshal(o).isInitialized /\ FinalRouting(o).isInitialized
  <1>1. o # Nil /\ Global # Nil
    BY ConfigAssumption DEF Owners
  <1> QED
    BY <1>1 DEF IsEnhancedRoutingControlDefined, Unmarshal, FinalRouting, ErrorsHome

LEMMA RoutingWhen ==
    ASSUME NEW S, NEW o \in Owners
    PROVE  ConfigWhen(S).routing[o] = IF o \in S THEN FinalRouting(o) ELSE Unmarshal(o)
  BY DEF ConfigWhen

LEMMA SetGlobalDefaultsWhen ==
    ASSUME NEW S, yaml[Global] \in Sections(Global), NEW force \in BOOLEAN,
           force \/ Global \notin S
    PROVE  SetGlobalDefaults(ConfigWhen(S), force)
               = ConfigWhen(IF force \/ IsGlobalSpecified THEN S \cup {Global} ELSE S)
  <1>1. Global \in Owners
    BY DEF Owners
  <1>2. CASE Global \in S
    <2>1. S \cup {Global} = S
      BY <1>2
    <2> QED
      BY <1>1, <1>2, <2>1, RoutingWhen, EnhancedIs DEF SetGlobalDefaults
  <1>3. CASE Global \notin S
    BY <1>1, <1>3, RoutingWhen, EnhancedIs, CompleteGlobalWhen
       DEF SetGlobalDefaults, IsGlobalSpecified
  <1> QED
    BY <1>2, <1>3

\* Whatever chains are complete, the chain is completed exactly when it or
\* the file's global section says something.
LEMMA SetChainDefaultsWhen ==
    ASSUME NEW S, NEW c \in Range(Chains), c \notin S,
           IsGlobalSpecified => Global \in S,
           yaml[Global] \in Sections(Global), yaml[c] \in Sections(c)
    PROVE  SetChainDefaults(ConfigWhen(S), c, IsGlobalSpecified)
               = ConfigWhen(IF IsSpecified(c) THEN S \cup {Global, c} ELSE S)
  <1>1. Global \in Owners /\ c \in Owners /\ c # Global
    BY ConfigAssumption DEF Owners
  <1>2. CASE ~IsSpecified(c)
    BY <1>1, <1>2, RoutingWhen, EnhancedIs DEF SetChainDefaults, IsSpecified
  <1>3. CASE IsSpecified(c)
    <2> DEFINE T == S \cup {Global}
    <2>1. SetChainDefaults(ConfigWhen(S), c, IsGlobalSpecified)
              = Complete(SetGlobalDefaults(ConfigWhen(S), TRUE), c, Global)
      BY <1>1, <1>3, RoutingWhen, EnhancedIs
         DEF SetChainDefaults, SetDefaults, IsSpecified
    <2>2. SetGlobalDefaults(ConfigWhen(S), TRUE) = ConfigWhen(T)
      BY SetGlobalDefaultsWhen
    <2>3. Complete(ConfigWhen(T), c, Global) = ConfigWhen(T \cup {c})
      BY <1>1, CompleteChainWhen
    <2>4. T \cup {c} = S \cup {Global, c}
      OBVIOUS
    <2> QED
      BY <1>3, <2>1, <2>2, <2>3, <2>4
  <1> QED
    BY <1>2, <1>3

\* One more section is complete after each step.
LEMMA CompleteSectionsIs ==
    /\ CompleteSections(0) = {}
    /\ CompleteSections(1) = IF IsGlobalSpecified THEN {Global} ELSE {}
    /\ \A n \in 1..Len(Chains) :
          /\ Chains[n] \in Range(Chains)
          /\ Chains[n] \notin CompleteSections(n)
          /\ IsGlobalSpecified => Global \in CompleteSections(n)
          /\ CompleteSections(n + 1)
                = IF IsSpecified(Chains[n])
                  THEN CompleteSections(n) \cup {Global, Chains[n]}
                  ELSE CompleteSections(n)
  <1>1. Len(Chains) \in Nat /\ DOMAIN Chains = 1..Len(Chains)
    BY ConfigAssumption
  <1>2. CompleteChains(0) = {} /\ CompleteChains(1) = {}
    BY <1>1 DEF CompleteChains
  <1>3. CompleteSections(0) = {}
    BY <1>2 DEF CompleteSections
  <1>4. CompleteSections(1) = IF IsGlobalSpecified THEN {Global} ELSE {}
    BY <1>2 DEF CompleteSections
  <1>5. ASSUME NEW n \in 1..Len(Chains)
        PROVE  /\ Chains[n] \in Range(Chains) /\ Chains[n] # Global
               /\ Chains[n] \notin CompleteChains(n)
               /\ CompleteChains(n + 1) = IF IsSpecified(Chains[n])
                                         THEN CompleteChains(n) \cup {Chains[n]}
                                         ELSE CompleteChains(n)
    <2>1. Chains[n] \in Range(Chains)
      BY <1>1 DEF Range
    <2>2. Chains[n] # Global
      BY <2>1, ConfigAssumption
    <2>3. Chains[n] \notin CompleteChains(n)
      BY <1>1, ConfigAssumption DEF CompleteChains
    <2>4. \A i \in 1..Len(Chains) : i < n + 1 <=> i < n \/ i = n
      BY <1>1
    <2>5. CompleteChains(n + 1) = IF IsSpecified(Chains[n])
                                  THEN CompleteChains(n) \cup {Chains[n]}
                                  ELSE CompleteChains(n)
      BY <2>1, <2>4 DEF CompleteChains
    <2> QED
      BY <2>1, <2>2, <2>3, <2>5
  <1>6. ASSUME NEW n \in 1..Len(Chains)
        PROVE  /\ Chains[n] \in Range(Chains)
               /\ Chains[n] \notin CompleteSections(n)
               /\ IsGlobalSpecified => Global \in CompleteSections(n)
               /\ CompleteSections(n + 1)
                     = IF IsSpecified(Chains[n])
                       THEN CompleteSections(n) \cup {Global, Chains[n]}
                       ELSE CompleteSections(n)
    <2>1. n > 0 /\ n + 1 > 0
      BY <1>1
    <2>2. CompleteSections(n)
              = IF IsGlobalSpecified \/ CompleteChains(n) # {}
                THEN CompleteChains(n) \cup {Global} ELSE CompleteChains(n)
      BY <2>1 DEF CompleteSections
    <2>3. CompleteSections(n + 1)
              = IF IsGlobalSpecified \/ CompleteChains(n + 1) # {}
                THEN CompleteChains(n + 1) \cup {Global} ELSE CompleteChains(n + 1)
      BY <2>1 DEF CompleteSections
    <2>4. CASE IsSpecified(Chains[n])
      BY <1>5, <2>2, <2>3, <2>4
    <2>5. CASE ~IsSpecified(Chains[n])
      BY <1>5, <2>2, <2>3, <2>5
    <2> QED
      BY <1>5, <2>2, <2>4, <2>5
  <1> QED
    BY <1>3, <1>4, <1>6

\* What the file asks for does not change.
LEMMA FileIsFixed ==
    ASSUME UNCHANGED yaml, NEW S
    PROVE  /\ ConfigWhen(S)' = ConfigWhen(S)
           /\ \A n : CompleteSections(n)' = CompleteSections(n)
           /\ RatesGivenAreValid' <=> RatesGivenAreValid
  <1>1. /\ LeftThreshold' = LeftThreshold
        /\ GlobalThresholds' = GlobalThresholds
        /\ GlobalRate' = GlobalRate
        /\ CodesIn(Global)' = CodesIn(Global)
    BY DEF LeftThreshold, GlobalThresholds, GlobalRate, RateIn, CodesIn
  <1>2. \A o : /\ FinalRouting(o)' = FinalRouting(o)
               /\ Unmarshal(o)' = Unmarshal(o)
    BY DEF FinalRouting, SpecifiedFields, LatencyHome, ErrorsHome, Unmarshal
  <1>3. \A o : ReadLatency(o)' = ReadLatency(o) /\ ReadErrors(o)' = ReadErrors(o)
    BY DEF ReadLatency, ReadErrors
  <1>4. \A o, m : LoadedThreshold(o, m)' = LoadedThreshold(o, m)
    BY <1>1 DEF LoadedThreshold, GlobalThresholdOf
  <1>5. \A o : /\ FinalLatency(o)' = FinalLatency(o)
               /\ FinalErrors(o)' = FinalErrors(o)
    BY <1>1, <1>3, <1>4 DEF FinalLatency, FinalErrors, Listed
  <1>6. ConfigWhen(S)' = ConfigWhen(S)
    BY <1>2, <1>3, <1>5 DEF ConfigWhen
  <1>7. IsGlobalSpecified' <=> IsGlobalSpecified
    BY DEF IsGlobalSpecified
  <1>8. \A c : IsSpecified(c)' <=> IsSpecified(c)
    BY <1>7 DEF IsSpecified
  <1>9. \A n : CompleteChains(n)' = CompleteChains(n)
    BY <1>8 DEF CompleteChains
  <1>10. \A n : CompleteSections(n)' = CompleteSections(n)
    BY <1>7, <1>9 DEF CompleteSections
  <1>11. RatesGivenAreValid' <=> RatesGivenAreValid
    BY DEF RatesGivenAreValid
  <1> QED
    BY <1>6, <1>10, <1>11

LEMMA SectionsAreComplete ==
    ASSUME NEW n \in Nat
    PROVE  /\ CompleteSections(n) \subseteq Owners
           /\ CompleteSections(n) # {} => Global \in CompleteSections(n)
           /\ \A i \in 1..Len(Chains) : n > i =>
                 (Chains[i] \in CompleteSections(n) <=> IsSpecified(Chains[i]))
           /\ n = Len(Chains) + 1 =>
                 \A o \in Owners : IsEnhancedRoutingControlDefined(yaml[o])
                                     => o \in CompleteSections(n)
  <1>1. Len(Chains) \in Nat /\ DOMAIN Chains = 1..Len(Chains)
    BY ConfigAssumption
  <1>2. CompleteSections(n) \subseteq Owners
    BY DEF CompleteSections, CompleteChains, Owners
  <1>3. CompleteSections(n) # {} => Global \in CompleteSections(n)
    BY <1>1 DEF CompleteSections, CompleteChains
  <1>4. ASSUME NEW i \in 1..Len(Chains), n > i
        PROVE  Chains[i] \in CompleteSections(n) <=> IsSpecified(Chains[i])
    <2>1. Chains[i] \in Range(Chains)
      BY <1>1 DEF Range
    <2>2. Chains[i] # Global
      BY <2>1, ConfigAssumption
    <2> QED
      BY <1>4, <2>1, <2>2 DEF CompleteSections, CompleteChains
  <1>5. ASSUME n = Len(Chains) + 1, NEW o \in Owners,
               IsEnhancedRoutingControlDefined(yaml[o])
        PROVE  o \in CompleteSections(n)
    <2>1. CASE o = Global
      BY <1>1, <1>5, <2>1 DEF CompleteSections, IsGlobalSpecified
    <2>2. CASE o # Global
      <3>1. PICK i \in 1..Len(Chains) : o = Chains[i]
        BY <1>1, <2>2 DEF Owners, Range
      <3> QED
        BY <1>1, <1>4, <1>5, <3>1 DEF IsSpecified
    <2> QED
      BY <2>1, <2>2
  <1> QED
    BY <1>2, <1>3, <1>4, <1>5

\* The rates that are validated are those of the file and the default.
LEMMA ValidIs ==
    ASSUME \A o \in Owners : yaml[o] \in Sections(o),
           NEW S, S = CompleteSections(Len(Chains) + 1)
    PROVE  (\A o \in Owners : isErrorRateValid(ConfigWhen(S), o))
               <=> RatesGivenAreValid
  <1>1. /\ Global \in Owners /\ Nil \notin Owners
        /\ DefaultErrorRate \in 1..MaxRate /\ MaxRate \in Nat
        /\ Len(Chains) + 1 \in Nat
    BY ConfigAssumption DEF Owners
  <1>2. \A o \in Owners : yaml[o].errors # Nil => o \in S
    BY <1>1, SectionsAreComplete DEF IsEnhancedRoutingControlDefined
  <1>3. S \subseteq Owners /\ (S # {} => Global \in S)
    BY <1>1, SectionsAreComplete
  <1>4. ASSUME NEW o \in Owners \ S
        PROVE  isErrorRateValid(ConfigWhen(S), o)
    BY <1>1, <1>2 DEF isErrorRateValid, ConfigWhen, Unmarshal
  <1>5. ASSUME NEW o \in S
        PROVE  isErrorRateValid(ConfigWhen(S), o)
                   <=> FinalErrors(ErrorsHome(o)).rate \in 0..MaxRate
    <2>1. ErrorsHome(o) \in S /\ ErrorsHome(o) \in Owners /\ o \in Owners
      BY <1>3 DEF ErrorsHome
    <2>2. ConfigWhen(S).errors[ErrorsHome(o)] = FinalErrors(ErrorsHome(o))
      BY <2>1 DEF ConfigWhen
    <2>3. ConfigWhen(S).routing[o].errors = ErrorsHome(o)
      BY <2>1 DEF ConfigWhen, FinalRouting
    <2> QED
      BY <1>1, <2>1, <2>2, <2>3 DEF isErrorRateValid
  <1>6. /\ GlobalRate \in 0..MaxRate
              <=> (yaml[Global].errors # Nil => yaml[Global].errors.rate \in 0..MaxRate)
        /\ FinalErrors(Global).rate = GlobalRate
    BY <1>1 DEF GlobalRate, RateIn, GivenRate, FinalErrors
  <1>7. ASSUME NEW o \in Owners, o # Global, yaml[o].errors # Nil
        PROVE  FinalErrors(o).rate = GivenRate(yaml[o].errors.rate, GlobalRate)
    BY <1>7 DEF FinalErrors
  <1>8. ASSUME RatesGivenAreValid, NEW o \in S
        PROVE  FinalErrors(ErrorsHome(o)).rate \in 0..MaxRate
    BY <1>1, <1>3, <1>6, <1>7, <1>8 DEF RatesGivenAreValid, ErrorsHome, GivenRate
  <1>9. ASSUME \A o \in S : FinalErrors(ErrorsHome(o)).rate \in 0..MaxRate
        PROVE  RatesGivenAreValid
    <2> SUFFICES ASSUME NEW o \in Owners, yaml[o].errors # Nil
                 PROVE  yaml[o].errors.rate \in 0..MaxRate
      BY DEF RatesGivenAreValid
    <2>1. o \in S /\ ErrorsHome(o) = o /\ FinalErrors(o).rate \in 0..MaxRate
      BY <1>2, <1>9 DEF ErrorsHome
    <2>2. CASE o = Global
      BY <1>6, <2>1, <2>2
    <2>3. CASE o # Global
      BY <1>1, <1>7, <2>1, <2>3 DEF GivenRate
    <2> QED
      BY <2>2, <2>3
  <1> QED
    BY <1>3, <1>4, <1>5, <1>8, <1>9

LEMMA LoadedInit == ConfigInit => Loaded
  <1> SUFFICES ASSUME ConfigInit PROVE Loaded
    OBVIOUS
  <1>1. \A o \in Owners : yaml[o] \in Sections(o)
    BY DEF ConfigInit
  <1>4. /\ errors = [o \in Owners |-> ReadErrors(o)]
        /\ latencies = [o \in Owners |-> ReadLatency(o)]
        /\ routing = [o \in Owners |-> Unmarshal(o)]
        /\ stage = 0 /\ outcome = "loading"
    BY DEF ConfigInit
  <1>5. Config = ConfigWhen({})
    BY <1>4 DEF Config, ConfigWhen
  <1>6. stage \in 0..Len(Chains) + 1
    BY <1>4, ConfigAssumption
  <1>7. Config = ConfigWhen(CompleteSections(stage))
    BY <1>4, <1>5, CompleteSectionsIs
  <1> QED
    BY <1>1, <1>4, <1>6, <1>7 DEF Loaded

\* A step leaves the file alone, and the sections that are complete.
LEMMA LoadingSteps ==
    ASSUME Loaded, ConfigNext \/ UNCHANGED configVars
    PROVE  /\ UNCHANGED yaml
           /\ stage' \in 0..Len(Chains) + 1
           /\ Config' = ConfigWhen(CompleteSections(stage'))
           /\ CompleteSections(stage) \subseteq CompleteSections(stage')
  <1>1. /\ stage \in 0..Len(Chains) + 1 /\ Len(Chains) \in Nat
        /\ \A o \in Owners : yaml[o] \in Sections(o)
        /\ Config = ConfigWhen(CompleteSections(stage))
    BY ConfigAssumption DEF Loaded
  <1>2. ASSUME NEW cfg, Become(cfg), NEW S, cfg = ConfigWhen(S)
        PROVE  Config' = ConfigWhen(S)
    BY <1>2 DEF Become, Config, ConfigWhen
  <1>3. CASE SetGlobal
    <2>1. /\ UNCHANGED yaml /\ stage = 0 /\ stage' = 1
          /\ Become(SetGlobalDefaults(Config, FALSE))
      BY <1>3 DEF SetGlobal
    <2>2. CompleteSections(stage) = {} /\ Global \in Owners
      BY <2>1, CompleteSectionsIs DEF Owners
    <2>3. SetGlobalDefaults(Config, FALSE)
              = ConfigWhen(IF IsGlobalSpecified THEN {Global} ELSE {})
      <3>1. SetGlobalDefaults(ConfigWhen({}), FALSE)
                = ConfigWhen(IF IsGlobalSpecified THEN {} \cup {Global} ELSE {})
        BY <1>1, <2>2, SetGlobalDefaultsWhen
      <3> QED
        BY <1>1, <2>2, <3>1
    <2>4. SetGlobalDefaults(Config, FALSE) = ConfigWhen(CompleteSections(1))
      BY <2>3, CompleteSectionsIs
    <2>5. Config' = ConfigWhen(CompleteSections(1))
      BY <1>2, <2>1, <2>4
    <2>6. stage' \in 0..Len(Chains) + 1
      BY <1>1, <2>1
    <2> QED
      BY <2>1, <2>2, <2>5, <2>6
  <1>4. CASE SetChain
    <2>1. /\ UNCHANGED yaml /\ stage \in 1..Len(Chains) /\ stage' = stage + 1
          /\ Become(SetChainDefaults(Config, Chains[stage], IsGlobalSpecified))
      BY <1>4 DEF SetChain
    <2> DEFINE S == CompleteSections(stage)
               c == Chains[stage]
    <2>2. /\ c \in Range(Chains) /\ c \notin S /\ Global \in Owners /\ c \in Owners
          /\ IsGlobalSpecified => Global \in S
          /\ CompleteSections(stage + 1)
                = IF IsSpecified(c) THEN S \cup {Global, c} ELSE S
      BY <2>1, CompleteSectionsIs DEF Owners
    <2>3. SetChainDefaults(Config, c, IsGlobalSpecified)
              = ConfigWhen(CompleteSections(stage + 1))
      <3> HIDE DEF S, c
      <3>1. Config = ConfigWhen(S)
        BY <1>1 DEF S
      <3> QED
        BY <1>1, <2>2, <3>1, SetChainDefaultsWhen
    <2> QED
      BY <1>1, <1>2, <2>1, <2>2, <2>3
  <1>5. CASE Validate \/ UNCHANGED configVars
    <2>1. UNCHANGED <<yaml, routing, latencies, errors, stage>>
      BY <1>5 DEF Validate, configVars
    <2>2. Config' = Config
      BY <2>1 DEF Config
    <2> QED
      BY <1>1, <2>1, <2>2
  <1> QED
    BY <1>3, <1>4, <1>5 DEF ConfigNext

LEMMA LoadedStep == Loaded /\ [ConfigNext]_configVars => Loaded'
  <1> SUFFICES ASSUME Loaded, ConfigNext \/ UNCHANGED configVars PROVE Loaded'
    OBVIOUS
  <1>1. /\ UNCHANGED yaml
        /\ stage' \in 0..Len(Chains) + 1
        /\ Config' = ConfigWhen(CompleteSections(stage'))
    BY LoadingSteps
  <1>2. /\ \A o \in Owners : yaml[o] \in Sections(o)
        /\ Config = ConfigWhen(CompleteSections(stage))
        /\ outcome # "loading" =>
             /\ stage = Len(Chains) + 1
             /\ outcome = "accepted" <=> Len(Chains) > 0 /\ RatesGivenAreValid
        /\ outcome \in {"loading", "accepted", "rejected"}
        /\ Len(Chains) \in Nat
    BY ConfigAssumption DEF Loaded
  <1>3. (Config = ConfigWhen(CompleteSections(stage)))'
    <2>1. PICK n : n = stage'
      OBVIOUS
    <2>2. PICK S : S = CompleteSections(n)
      OBVIOUS
    <2>3. CompleteSections(n)' = CompleteSections(n) /\ ConfigWhen(S)' = ConfigWhen(S)
      BY <1>1, FileIsFixed
    <2> QED
      BY <1>1, <2>1, <2>2, <2>3
  <1>4. RatesGivenAreValid' <=> RatesGivenAreValid
    BY <1>1, FileIsFixed
  <1>5. /\ outcome' \in {"loading", "accepted", "rejected"}
        /\ outcome' # "loading" =>
             /\ stage' = Len(Chains) + 1
             /\ outcome' = "accepted" <=> Len(Chains) > 0 /\ RatesGivenAreValid
    <2>1. CASE SetGlobal
      BY <1>2, <2>1 DEF SetGlobal
    <2>2. CASE SetChain
      BY <1>2, <2>2 DEF SetChain
    <2>3. CASE Validate
      <3>1. /\ stage' = Len(Chains) + 1 /\ stage = Len(Chains) + 1
            /\ outcome' = IF /\ Len(Chains) > 0
                             /\ \A o \in Owners : isErrorRateValid(Config, o)
                          THEN "accepted" ELSE "rejected"
        BY <2>3 DEF Validate
      <3>2. (\A o \in Owners : isErrorRateValid(Config, o)) <=> RatesGivenAreValid
        BY <1>2, <3>1, ValidIs
      <3> QED
        BY <3>1, <3>2
    <2>4. CASE UNCHANGED configVars
      BY <1>2, <2>4 DEF configVars
    <2> QED
      BY <2>1, <2>2, <2>3, <2>4 DEF ConfigNext
  <1> QED
    BY <1>1, <1>2, <1>3, <1>4, <1>5 DEF Loaded

LEMMA LoadedAlways == ConfigSpec => []Loaded
  BY LoadedInit, LoadedStep, PTL DEF ConfigSpec

-----------------------------------------------------------------------------
\* The settings of a complete section.
FinalSettings(o) ==
    [fields |-> SpecifiedFields(o),
     rate |-> FinalErrors(ErrorsHome(o)).rate,
     codes |-> FinalErrors(ErrorsHome(o)).codes,
     thresholds |-> [m \in Methods |->
                        getLatencyThresholdIn(FinalLatency(LatencyHome(o)), m)]]

LEMMA SettingsWhen ==
    ASSUME NEW S, S \subseteq Owners, Global \in S, NEW o \in S
    PROVE  SettingsIn(ConfigWhen(S), o) = FinalSettings(o)
  <1>1. /\ o \in Owners
        /\ ErrorsHome(o) \in S /\ ErrorsHome(o) \in Owners
        /\ LatencyHome(o) \in S /\ LatencyHome(o) \in Owners
    BY DEF ErrorsHome, LatencyHome
  <1>2. ConfigWhen(S).routing[o] = FinalRouting(o)
    BY <1>1, RoutingWhen
  <1>3. /\ ConfigWhen(S).errors[ErrorsHome(o)] = FinalErrors(ErrorsHome(o))
        /\ ConfigWhen(S).latencies[LatencyHome(o)] = FinalLatency(LatencyHome(o))
    BY <1>1 DEF ConfigWhen
  <1>4. /\ FinalRouting(o).fields = SpecifiedFields(o)
        /\ FinalRouting(o).errors = ErrorsHome(o)
        /\ FinalRouting(o).latency = LatencyHome(o)
    BY DEF FinalRouting
  <1> QED
    BY <1>2, <1>3, <1>4 DEF SettingsIn, FinalSettings

LEMMA LoadedIs ==
    ASSUME NEW c \in Range(Chains)
    PROVE  FinalSettings(c) = [fields |-> SpecifiedFields(c),
                               rate |-> SpecifiedRate(c),
                               codes |-> SpecifiedCodes(c),
                               thresholds |-> [m \in Methods |-> LoadedThreshold(c, m)]]
  <1>1. c # Global
    BY ConfigAssumption
  <1>2. \A m : getLatencyThresholdIn(FinalLatency(Global), m)
                   = GlobalThresholdOf(m, LeftThreshold)
    BY NoMethods DEF getLatencyThresholdIn, FinalLatency, GlobalThresholdOf, GlobalThresholds,
                     ReadLatency
  <1>3. \A m : getLatencyThresholdIn(FinalLatency(LatencyHome(c)), m) = LoadedThreshold(c, m)
    <2>1. CASE yaml[c].latency = Nil
      BY <1>2, <2>1 DEF LatencyHome, LoadedThreshold
    <2>2. CASE yaml[c].latency # Nil
      <3>1. /\ LatencyHome(c) = c
            /\ FinalLatency(c).thresholds
                   = [m \in Listed(c) |-> LoadedThreshold(c, m)]
            /\ FinalLatency(c).threshold = yaml[c].latency.threshold
        BY <1>1, <2>2 DEF LatencyHome, FinalLatency
      <3>2. Listed(c) = DOMAIN yaml[c].latency.methods \cup DOMAIN GlobalThresholds
        BY <2>2 DEF Listed, ReadLatency
      <3>3. \A m : m \notin Listed(c) =>
                LoadedThreshold(c, m) = yaml[c].latency.threshold
        BY <2>2, <3>2 DEF LoadedThreshold, GlobalThresholdOf
      <3> QED
        BY <3>1, <3>3 DEF getLatencyThresholdIn
    <2> QED
      BY <2>1, <2>2
  <1>4. /\ FinalErrors(ErrorsHome(c)).rate = SpecifiedRate(c)
        /\ FinalErrors(ErrorsHome(c)).codes = SpecifiedCodes(c)
    BY <1>1 DEF FinalErrors, ErrorsHome, SpecifiedRate, SpecifiedCodes, RateIn,
                CodesIn, GivenRate
  <1> QED
    BY <1>3, <1>4 DEF FinalSettings

-----------------------------------------------------------------------------
\* What is dereferenced without a test is there, whatever the file says
\* (setDefaults).
THEOREM LoadingTypeCorrect == ConfigSpec => []ConfigTypeOK
  <1>1. Loaded => ConfigTypeOK
    <2> SUFFICES ASSUME Loaded PROVE ConfigTypeOK
      OBVIOUS
    <2> DEFINE S == CompleteSections(stage)
    <2>1. /\ \A o \in Owners : yaml[o] \in Sections(o)
          /\ Config = ConfigWhen(S)
          /\ stage \in 0..Len(Chains) + 1 /\ Len(Chains) \in Nat
          /\ Global \in Owners /\ Nil \notin Owners
          /\ DefaultMaxLatency \in Nat /\ DefaultErrorRate \in Int
          /\ \A f \in Fields : DefaultField[f] # Nil
      BY ConfigAssumption DEF Loaded, Owners
    <2> HIDE DEF S
    <2>2. ASSUME NEW o \in Owners
          PROVE  /\ routing[o] = IF o \in S THEN FinalRouting(o) ELSE Unmarshal(o)
                 /\ latencies[o] = IF o \in S THEN FinalLatency(o) ELSE ReadLatency(o)
                 /\ errors[o] = IF o \in S THEN FinalErrors(o) ELSE ReadErrors(o)
      BY <2>1 DEF Config, ConfigWhen
    <2>3. ASSUME NEW o \in Owners
          PROVE  /\ routing[o].isInitialized \in BOOLEAN
                 /\ routing[o].isEnabled \in BOOLEAN
                 /\ routing[o].latency \in Owners \cup {Nil}
                 /\ routing[o].errors \in Owners \cup {Nil}
                 /\ routing[o].isEnabled =>
                        Nil \notin {routing[o].latency, routing[o].errors}
                                   \cup {routing[o].fields[f] : f \in Fields}
      <3>1. CASE o \in S
        <4>1. routing[o] = FinalRouting(o)
          BY <2>2, <3>1
        <4>2. LatencyHome(o) \in Owners /\ ErrorsHome(o) \in Owners
          BY <2>1 DEF LatencyHome, ErrorsHome
        <4>3. \A f \in Fields : SpecifiedFields(o)[f] # Nil
          BY <2>1 DEF SpecifiedFields
        <4> QED
          BY <2>1, <4>1, <4>2, <4>3 DEF FinalRouting
      <3>2. CASE o \notin S
        <4>1. routing[o] = Unmarshal(o)
          BY <2>2, <3>2
        <4> QED
          BY <4>1 DEF Unmarshal
      <3> QED
        BY <3>1, <3>2
    <2>4. /\ \A m \in DOMAIN GlobalThresholds : m \in Methods
          /\ LeftThreshold \in Int /\ GlobalRate \in Int
      <3>1. IsSection(yaml[Global])
        BY <2>1, ReadIs
      <3> QED
        BY <2>1, <3>1, NoMethods
           DEF GlobalThresholds, LeftThreshold, GlobalRate, RateIn, IsSection,
               GivenDuration, GivenRate
    <2>5. ASSUME NEW o \in Owners
          PROVE  /\ DOMAIN latencies[o].thresholds \subseteq Methods
                 /\ latencies[o].threshold \in Int
                 /\ errors[o].rate \in Int
      <3>1. /\ IsSection(yaml[o]) /\ ReadErrors(o).rate \in Int
            /\ DOMAIN ReadLatency(o).methods \subseteq Methods
            /\ ReadLatency(o).threshold \in Int
            /\ DOMAIN ReadLatency(o).thresholds = {}
        BY <2>1, ReadIs, NoMethods DEF IsLatency, ReadLatency
      <3>2. /\ DOMAIN FinalLatency(o).thresholds \subseteq Methods
            /\ FinalLatency(o).threshold \in Int
        <4>1. CASE o = Global
          BY <2>4, <3>1, <4>1 DEF FinalLatency
        <4>2. CASE o # Global /\ yaml[o].latency = Nil
          BY <3>1, <4>2 DEF FinalLatency
        <4>3. CASE o # Global /\ yaml[o].latency # Nil
          <5>1. Listed(o) \subseteq Methods /\ yaml[o].latency.threshold \in Int
            BY <2>4, <3>1, <4>3 DEF Listed, IsSection
          <5> QED
            BY <4>3, <5>1 DEF FinalLatency
        <4> QED
          BY <4>1, <4>2, <4>3
      <3>3. FinalErrors(o).rate \in Int
        BY <2>4, <3>1 DEF FinalErrors, NoErrors, IsSection, GivenRate
      <3> QED
        BY <2>2, <3>1, <3>2, <3>3
    <2> QED
      BY <2>1, <2>3, <2>5 DEF ConfigTypeOK, Loaded
  <1> QED
    BY <1>1, LoadedAlways, PTL

\* A chain that setDefaults has seen is enabled if it should be, and has the
\* settings of a complete section.
LEMMA ChainIsLoaded ==
    ASSUME Loaded, NEW c, NEW i \in 1..Len(Chains), stage > i, c = Chains[i]
    PROVE  /\ c \in Range(Chains) /\ c \in Owners
           /\ routing[c].isEnabled <=> IsSpecified(c)
           /\ IsSpecified(c) => Settings(c) = FinalSettings(c)
  <1> DEFINE S == CompleteSections(stage)
  <1>1. Config = ConfigWhen(S) /\ stage \in Nat /\ DOMAIN Chains = 1..Len(Chains)
    BY ConfigAssumption DEF Loaded
  <1>2. c \in Range(Chains) /\ c \in Owners
    BY <1>1 DEF Range, Owners
  <1>3. /\ S \subseteq Owners /\ (S # {} => Global \in S)
        /\ c \in S <=> IsSpecified(c)
    BY <1>1, SectionsAreComplete
  <1> HIDE DEF S
  <1>4. routing[c] = IF c \in S THEN FinalRouting(c) ELSE Unmarshal(c)
    BY <1>1, <1>2 DEF Config, ConfigWhen
  <1>5. routing[c].isEnabled <=> c \in S
    BY <1>4 DEF FinalRouting, Unmarshal
  <1>6. c \in S => Settings(c) = FinalSettings(c)
    BY <1>1, <1>3, SettingsWhen DEF Settings
  <1> QED
    BY <1>2, <1>3, <1>5, <1>6

\* The code follows the rule of setDefaults's comment for every threshold that
\* it does not overlook.
LEMMA ThresholdIsSpecified ==
    ASSUME NEW c, NEW m \in Methods, IsSection(yaml[c]), IsSection(yaml[Global]),
           ~Overlooked(c, m)
    PROVE  LoadedThreshold(c, m) = SpecifiedThreshold(c, m)
  <1>1. DefaultMaxLatency \in Nat \ {0}
    BY ConfigAssumption
  <1>2. m \in DOMAIN GlobalThresholds <=> Lists(Global, m)
    BY NoMethods DEF GlobalThresholds, Lists
  <1>3. Lists(Global, m) => GlobalThresholds[m] = GlobalThreshold(m)
    BY DEF GlobalThresholds, GlobalThreshold, Lists, MethodThreshold, TopThreshold
  <1>4. ~Lists(Global, m) =>
            GlobalThreshold(m) = GivenDuration(TopThreshold(Global), DefaultMaxLatency)
    BY DEF GlobalThreshold, MethodThreshold, GivenDuration
  <1>5. CASE yaml[c].latency = Nil
    <2>1. /\ ~Lists(c, m) /\ MethodThreshold(c, m) = 0 /\ TopThreshold(c) = 0
          /\ LoadedThreshold(c, m) = GlobalThresholdOf(m, LeftThreshold)
      BY <1>5 DEF Lists, MethodThreshold, TopThreshold, LoadedThreshold
    <2>2. SpecifiedThreshold(c, m) = GlobalThreshold(m)
      BY <2>1 DEF SpecifiedThreshold, GivenDuration
    <2>3. CASE Lists(Global, m)
      BY <1>2, <1>3, <2>1, <2>2, <2>3 DEF GlobalThresholdOf
    <2>4. CASE ~Lists(Global, m)
      <3>1. \/ TopThreshold(Global) > 0
            \/ \E n \in Methods : Lists(Global, n) /\ ~(MethodThreshold(Global, n) > 0)
        <4>1. 0 <= 0
          OBVIOUS
        <4>2. MethodThreshold(c, m) <= 0 /\ TopThreshold(c) <= 0
          BY <2>1, <4>1
        <4>3. PICK t : t = TopThreshold(Global)
          OBVIOUS
        <4>4. t \in Int
          BY <4>3 DEF TopThreshold, IsSection
        <4>5. ~(t <= 0) => t > 0
          BY <4>4
        <4> QED
          BY <1>5, <2>4, <4>2, <4>3, <4>5, Zenon DEF Overlooked
      <3>2. LeftThreshold = GivenDuration(TopThreshold(Global), DefaultMaxLatency)
        BY <3>1 DEF LeftThreshold, Lists, MethodThreshold, TopThreshold, GivenDuration,
                    IsSection
      <3> QED
        BY <1>2, <1>4, <2>1, <2>2, <2>4, <3>2 DEF GlobalThresholdOf
    <2> QED
      BY <2>3, <2>4
  <1>6. CASE yaml[c].latency # Nil /\ Lists(c, m)
    <2>1. LoadedThreshold(c, m) = GivenDuration(MethodThreshold(c, m),
              GivenDuration(TopThreshold(c), GlobalThresholdOf(m, DefaultMaxLatency)))
      BY <1>6 DEF LoadedThreshold, Lists, MethodThreshold, TopThreshold
    <2>2. SpecifiedThreshold(c, m) = GivenDuration(MethodThreshold(c, m),
              GivenDuration(TopThreshold(c), GlobalThreshold(m)))
      BY <1>6 DEF SpecifiedThreshold
    <2>3. /\ MethodThreshold(c, m) \in Int /\ TopThreshold(c) \in Int
          /\ TopThreshold(Global) \in Int
      BY <1>6 DEF IsSection, Lists, MethodThreshold, TopThreshold
    <2>4. CASE Lists(Global, m)
      BY <1>2, <1>3, <2>1, <2>2, <2>4 DEF GlobalThresholdOf
    <2>5. CASE ~Lists(Global, m)
      BY <1>2, <1>4, <1>6, <2>1, <2>2, <2>3, <2>5
         DEF GlobalThresholdOf, GivenDuration, Overlooked
    <2> QED
      BY <2>4, <2>5
  <1>7. CASE yaml[c].latency # Nil /\ ~Lists(c, m)
    <2>1. /\ LoadedThreshold(c, m) = GlobalThresholdOf(m, TopThreshold(c))
          /\ MethodThreshold(c, m) = 0 /\ TopThreshold(c) \in Int
      BY <1>7 DEF LoadedThreshold, Lists, MethodThreshold, TopThreshold, IsSection
    <2>2. CASE Lists(Global, m)
      BY <1>2, <1>3, <1>7, <2>1, <2>2
         DEF GlobalThresholdOf, SpecifiedThreshold, GivenDuration
    <2>3. CASE ~Lists(Global, m)
      BY <1>2, <1>7, <2>1, <2>3
         DEF GlobalThresholdOf, SpecifiedThreshold, GivenDuration, Overlooked
    <2> QED
      BY <2>2, <2>3
  <1> QED
    BY <1>5, <1>6, <1>7

\* Each chain is loaded as if the file had no other, whatever the others say,
\* in whatever order they come and however many they are (setDefaults, merge,
\* initialize).
LEMMA LoadedAsIfAlone ==
    ASSUME Loaded
    PROVE  LoadsAsIfAlone
  <1> SUFFICES ASSUME NEW i \in 1..Len(Chains), stage > i,
                      NEW c, c = Chains[i]
               PROVE  /\ routing[c].isEnabled <=> LoadedAlone(c).routing[c].isEnabled
                      /\ routing[c].isEnabled =>
                             Settings(c) = SettingsIn(LoadedAlone(c), c)
    BY DEF LoadsAsIfAlone
  <1>1. /\ c \in Range(Chains) /\ c \in Owners /\ Global \in Owners
        /\ routing[c].isEnabled <=> IsSpecified(c)
        /\ IsSpecified(c) => Settings(c) = FinalSettings(c)
        /\ yaml[c] \in Sections(c) /\ yaml[Global] \in Sections(Global)
        /\ c # Global
    BY ChainIsLoaded, ConfigAssumption DEF Loaded, Owners
  <1> DEFINE S == IF IsGlobalSpecified THEN {Global} ELSE {}
             T == IF IsSpecified(c) THEN S \cup {Global, c} ELSE S
  <1>2. LoadedAlone(c) = SetChainDefaults(SetGlobalDefaults(ConfigWhen({}), FALSE), c,
                                          IsGlobalSpecified)
    BY DEF LoadedAlone, ConfigWhen
  <1>3. SetGlobalDefaults(ConfigWhen({}), FALSE) = ConfigWhen(S)
    <2> HIDE DEF S
    <2>1. PICK none : none = {}
      OBVIOUS
    <2>2. SetGlobalDefaults(ConfigWhen(none), FALSE)
              = ConfigWhen(IF IsGlobalSpecified THEN none \cup {Global} ELSE none)
      BY <1>1, <2>1, SetGlobalDefaultsWhen
    <2>3. S = IF IsGlobalSpecified THEN none \cup {Global} ELSE none
      BY <2>1 DEF S
    <2> QED
      BY <2>1, <2>2, <2>3
  <1>4. c \notin S /\ (IsGlobalSpecified => Global \in S) /\ T \subseteq Owners
    BY <1>1
  <1>5. (c \in T <=> IsSpecified(c)) /\ (c \in T => Global \in T)
    BY <1>4
  <1> HIDE DEF S
  <1>6. LoadedAlone(c) = ConfigWhen(T)
    BY <1>1, <1>2, <1>3, <1>4, SetChainDefaultsWhen
  <1> HIDE DEF T
  <1>7. LoadedAlone(c).routing[c].isEnabled <=> c \in T
    <2>1. LoadedAlone(c).routing[c] = IF c \in T THEN FinalRouting(c) ELSE Unmarshal(c)
      BY <1>1, <1>6, RoutingWhen
    <2> QED
      BY <2>1 DEF FinalRouting, Unmarshal
  <1>8. c \in T => SettingsIn(LoadedAlone(c), c) = FinalSettings(c)
    BY <1>4, <1>5, <1>6, SettingsWhen
  <1> QED
    BY <1>1, <1>5, <1>7, <1>8

THEOREM LoadingAsIfAlone == ConfigSpec => []LoadsAsIfAlone
  <1>1. Loaded => LoadsAsIfAlone
    BY LoadedAsIfAlone
  <1> QED
    BY <1>1, LoadedAlways, PTL

\* Each chain is loaded as the comment of setDefaults says (config.go:395-397),
\* the thresholds of Overlooked excepted, which are as if the chain were alone,
\* and the file is accepted when it has
\* a chain and every rate that it gives is valid (setDefaults, merge,
\* initialize, Validate).
THEOREM LoadingAsSpecified == ConfigSpec => []LoadsAsSpecified
  <1>1. Loaded => LoadsAsSpecified
    <2> SUFFICES ASSUME Loaded PROVE LoadsAsSpecified
      OBVIOUS
    <2>1. ASSUME NEW i \in 1..Len(Chains), stage > i, NEW c, c = Chains[i]
          PROVE  /\ routing[c].isEnabled <=> IsSpecified(c)
                 /\ routing[c].isEnabled =>
                        /\ Settings(c).fields = SpecifiedFields(c)
                        /\ Settings(c).rate = SpecifiedRate(c)
                        /\ Settings(c).codes = SpecifiedCodes(c)
                        /\ \A m \in Methods :
                              Settings(c).thresholds[m] =
                                  IF Overlooked(c, m)
                                  THEN SettingsIn(LoadedAlone(c), c).thresholds[m]
                                  ELSE SpecifiedThreshold(c, m)
      <3>1. /\ c \in Range(Chains) /\ c \in Owners /\ Global \in Owners
            /\ routing[c].isEnabled <=> IsSpecified(c)
            /\ IsSpecified(c) => Settings(c) = FinalSettings(c)
        BY <2>1, ChainIsLoaded DEF Owners
      <3>2. IsSection(yaml[c]) /\ IsSection(yaml[Global])
        BY <3>1, ReadIs DEF Loaded
      <3>3. \A m \in Methods : \/ Overlooked(c, m)
                               \/ LoadedThreshold(c, m) = SpecifiedThreshold(c, m)
        BY <3>2, ThresholdIsSpecified
      <3>4. routing[c].isEnabled => Settings(c) = SettingsIn(LoadedAlone(c), c)
        BY <2>1, LoadedAsIfAlone DEF LoadsAsIfAlone
      <3>5. \A m \in Methods : IsSpecified(c) /\ ~Overlooked(c, m) =>
                Settings(c).thresholds[m] = SpecifiedThreshold(c, m)
        BY <3>1, <3>3, LoadedIs
      <3>6. IsSpecified(c) => /\ Settings(c).fields = SpecifiedFields(c)
                              /\ Settings(c).rate = SpecifiedRate(c)
                              /\ Settings(c).codes = SpecifiedCodes(c)
        BY <3>1, LoadedIs
      <3> QED
        BY <3>1, <3>4, <3>5, <3>6
    <2> QED
      BY <2>1 DEF LoadsAsSpecified, Loaded, RatesGivenAreValid
  <1> QED
    BY <1>1, LoadedAlways, PTL

\* Completing a section changes the settings of no section that is complete,
\* although sections share the objects that initialize and merge write to.
THEOREM LoadedSettingsAreFinal == ConfigSpec => SettingsAreFinal
  <1>1. Loaded /\ [ConfigNext]_configVars
            => [\A o \in Owners : routing[o].isInitialized
                                   => Settings(o)' = Settings(o)]_configVars
    <2> SUFFICES ASSUME Loaded, ConfigNext \/ UNCHANGED configVars,
                        NEW o \in Owners, routing[o].isInitialized
                 PROVE  Settings(o)' = Settings(o)
      OBVIOUS
    <2>1. PICK S, T : S = CompleteSections(stage) /\ T = CompleteSections(stage')
      OBVIOUS
    <2>2. /\ Config = ConfigWhen(S) /\ Config' = ConfigWhen(T) /\ S \subseteq T
          /\ stage \in Nat /\ stage' \in Nat
      BY <2>1, LoadingSteps, ConfigAssumption DEF Loaded
    <2>3. routing[o] = IF o \in S THEN FinalRouting(o) ELSE Unmarshal(o)
      BY <2>2 DEF Config, ConfigWhen
    <2>4. o \in S
      BY <2>3 DEF Unmarshal
    <2>5. /\ S \subseteq Owners /\ Global \in S
          /\ T \subseteq Owners /\ Global \in T
      BY <2>1, <2>2, <2>4, SectionsAreComplete
    <2>6. Settings(o) = FinalSettings(o)
      BY <2>2, <2>4, <2>5, SettingsWhen DEF Settings
    <2>7. Settings(o)' = SettingsIn(Config', o)
      BY DEF Settings, SettingsIn, Config, getLatencyThresholdIn
    <2>8. SettingsIn(ConfigWhen(T), o) = FinalSettings(o)
      BY <2>2, <2>4, <2>5, SettingsWhen
    <2> QED
      BY <2>2, <2>6, <2>7, <2>8
  <1> QED
    BY <1>1, LoadedAlways, PTL DEF ConfigSpec, SettingsAreFinal

\* What holds of every threshold, ThresholdsAsSpecified being violated: a method
\* that the section of the chain or the global one lists has a positive one,
\* listed with one or not (initialize, merge).  Only those that nobody lists may
\* have none.
ListedThresholdsSet ==
    \A i \in 1..Len(Chains) :
        LET c == Chains[i]
        IN  stage > i /\ routing[c].isEnabled =>
                \A m \in Methods \cap Listed(c) : Settings(c).thresholds[m] > 0

THEOREM ListedMethodsHaveThresholds == ConfigSpec => []ListedThresholdsSet
  <1>1. Loaded => ListedThresholdsSet
    <2> SUFFICES ASSUME Loaded, NEW i \in 1..Len(Chains), stage > i,
                        NEW c, c = Chains[i], routing[c].isEnabled,
                        NEW m \in Methods, m \in Listed(c)
                 PROVE  Settings(c).thresholds[m] > 0
      BY DEF ListedThresholdsSet
    <2>1. /\ c \in Range(Chains) /\ c \in Owners /\ Global \in Owners
          /\ Settings(c) = FinalSettings(c)
          /\ \A o \in Owners : yaml[o] \in Sections(o)
          /\ DefaultMaxLatency \in Nat \ {0}
      BY ChainIsLoaded, ConfigAssumption DEF Loaded, Owners
    <2>2. IsSection(yaml[c]) /\ IsSection(yaml[Global])
      BY <2>1, ReadIs
    <2>3. Settings(c).thresholds[m] = LoadedThreshold(c, m)
      BY <2>1, LoadedIs
    <2>4. m \in DOMAIN GlobalThresholds => GlobalThresholds[m] > 0
      BY <2>1, <2>2, NoMethods DEF GlobalThresholds, GivenDuration, IsSection
    <2>5. GlobalThresholdOf(m, DefaultMaxLatency) > 0
      BY <2>1, <2>4 DEF GlobalThresholdOf
    <2>6. m \in DOMAIN ReadLatency(c).methods \cup DOMAIN GlobalThresholds
      BY DEF Listed
    <2>7. LoadedThreshold(c, m) > 0
      <3>1. CASE yaml[c].latency = Nil
        BY <2>4, <2>6, <3>1, NoMethods
           DEF LoadedThreshold, GlobalThresholdOf, ReadLatency
      <3>2. CASE yaml[c].latency # Nil
        BY <2>1, <2>2, <2>4, <2>5, <2>6, <3>2
           DEF LoadedThreshold, GlobalThresholdOf, ReadLatency, GivenDuration,
               IsSection
      <3> QED
        BY <3>1, <3>2
    <2> QED
      BY <2>3, <2>7
  <1> QED
    BY <1>1, LoadedAlways, PTL
=============================================================================
