# A formal model of node-gateway

node-gateway is an HTTP proxy for JSON RPC. It stands in front of several
Ethereum nodes (*upstreams*) per chain, watches their health, and sends each
request to an upstream that is healthy and up to date. This directory holds TLA+
modules of the parts that decide where a request goes, TLC configurations that
check them on small instances, and proofs, checked by TLAPS, that hold for
every instance.

All paths below are relative to `src/`; `PROJECT.json` maps every definition to
the lines it models.

## 1. The system

`cmd/gateway/main.go` loads the configuration, starts a goroutine that wires one
object graph per chain (`internal/server/object_graph.go`) and serves HTTP, and
another that serves metrics, and waits for a signal to shut both down. For each
chain:

```
             +--------------------------- one goroutine per HTTP request -------+
 client ---> RPCHandler --> Router --> (Always)Filtering --> PriorityRoundRobin |
             |                |           strategy               (counter)      |
             |                |              | applies, one by one              |
             |                |          node filters                           |
             |                |        read |   read |   read+close |           |
             |                v             v        v              v           |
             |       RequestExecutor   PeerCheck  Chain      error / latency    |
             |          |      |        fields   metadata    circuit breakers   |
             |       RPCCache  +--> upstream      store           ^             |
             |                          |           ^             | record      |
             +--------------------------+-----------|-------------+-------------+
                       HealthCheckManager: rounds   | heights, errors
                         RunCheck --> BlockHeightCheck, PeerCheck --> upstreams
                                      subscriber goroutine <-- Websockets heads
```

| component | state it keeps | operations | who shares it |
|---|---|---|---|
| Chain metadata store `metadata/store.go` | global and per-group maximum height, height and error per upstream; a channel of closures | `ProcessBlockHeightUpdate`, `ProcessErrorUpdate`, `GetBlockHeightStatus`, `Start` | checks write, every request reads; one server goroutine |
| Block height check `checks/blockheight.go` | Websockets and HTTP clients, last height, two errors; no lock | `Initialize`, `RunCheck`, `onNewHead`, `onError` | the manager's rounds and the subscriber |
| Peer check `checks/peers.go` | client, `Err`, `PeerCount`, `ShouldRun`; no lock | `Initialize`, `RunCheck` | the manager's rounds write, requests read |
| Error and latency checks `checks/error.go`, `latency.go`, `common.go` | a circuit breaker per upstream, or per upstream and method | `IsPassing` (which also closes the breaker), `RecordRequest` | all requests |
| Health check manager `checks/manager.go` | map of upstreams to their checks, `isInitialized`, ticker | `StartHealthChecks`, `initializeChecks`, `runChecksOnce`, `GetUpstreamStatus`, `RecordRequest` | its own goroutines and all requests |
| Filters and filtering strategies `route/node_filter.go`, `filtering_strategy.go`, `always_route_filtering_strategy.go` | none of their own | `Apply`, `RouteNextRequest` | all requests |
| Priority round robin `route/routing_strategy.go` | one counter per chain | `RouteNextRequest` | all requests |
| Router, handler, servers `route/router.go`, `server/*.go` | upstreams by priority | `Route`, `Start`, `/health` | all requests |
| Request executor, cache `route/request_executor.go`, `cache/rpc_cache.go` | local cache, Redis | `routeToConfig`, `HandleRequestParallel` | all requests |
| RPC handler `server/rpc_handler.go` | none | `ServeHTTP` | all requests |
| Configuration `config/config.go` | objects shared by pointer while loading, immutable after | `LoadConfig`: unmarshal, complete, validate | everything reads |
| Main `cmd/gateway/main.go`, `metrics/metrics.go` | the two servers, a channel of signals | start, `Shutdown` | main and one goroutine per server |

**What is hard here.** Almost nothing is locked. Rounds of checks, one
subscriber per upstream, one goroutine per request and the store's server run at
the same time; most operations are several separate reads and writes of state
another goroutine changes. Subscriptions break, polls time out and their answers
arrive late. Breakers of the library stay open until someone closes them. The
HTTP server starts before the first checks exist. `PROJECT.json` lists these
hazards, each at its line, with the properties that would show it going wrong.

**What makes each part correct.** The store: callers may treat its methods as
atomic. The block height check: the two goroutines do not interleave reports, and
what the store says catches up with the node. The peer check: an upstream passes
on evidence, and a healthy one is not shut out. The breakers: a ban lasts, and
ends. The manager: ready means checked, rounds go on and do not overlap. The
filters: no healthy upstream is overlooked, a group does not serve going back in
height, `alwaysRoute` gives up no more than it must. Round robin: turns are
taken, and the index is in range. The executor and its cache: what is served is a
result and not too old, a cache in trouble fails no request, a request that the
origin failed is not sent again, the client gets the origin's failure and no
other, and every request ends. The router: a request goes to the best group that
has a healthy upstream, and to an upstream that passed. The configuration: a chain
is loaded as the file says, what it does not say coming from the global section or
the defaults, whatever the other chains say. The process: a signal
ends it, and leaves no request unanswered.

## 2. The modules

| module | models | state and steps |
|---|---|---|
| `MetadataStore` | the store's maps and what each public method does to them in one go | used as single steps by the modules of its callers |
| `StoreCalls` | who calls the store, with what | shared by the next two |
| `AtomicMetadataStore` | what the store promises: an atomic object | `Invoke`, `Update`/`Query` (the call takes effect), `Return` |
| `ChainMetadataStore` | the store as it runs | `Send*`: the rendezvous on `opChannel`; `Run*`: one statement of the closure in the server goroutine; `Receive`: the rendezvous on `returnChannel` |
| `ChainMetadataStore_proofs` | theorems about the former | |
| `BlockHeightCheck` | `blockheight.go` over `MetadataStore` | the runner (`Initialize`, `RunCheck`), the subscriber (`onNewHead`, `onError`), and the node with its connection; a step is one access to shared state |
| `BlockHeightCheck_proofs` | theorems about the former | |
| `PeerCheck` | `peers.go` and the filter that reads its fields | the check's goroutine and the filters, one field at a time |
| `PeerCheck_proofs` | theorems about the former | |
| `CircuitBreaker` | the failsafe-go breaker (external) as `common.go` configures it | operators on a breaker record |
| `ErrorMatching` | which outcomes `error.go` records for a response, and what it returns | pure operators |
| `UpstreamBans` | `IsPassing` and `RecordRequest` of `error.go` and `latency.go`, for single requests and batches (`jsonrpc.go`, `request_metadata_parser.go`) | a request reads the delay of the error breaker, closes it, locks, reads and closes the latency breaker of one method after the other, sends, records, each a step; time passes |
| `UpstreamBans_proofs` | theorems about the former three | |
| `HealthCheckManager` | `manager.go` and `/health` | constructors in parallel, the write of the map in two steps, rounds, the ticker, lookups by requests; no specification of its own |
| `Lifecycle` | `main.go`, `web_server.go`, the metrics server; composes `HealthCheckManager` | main, the goroutine of each server, signals, and the requests that the server accepts |
| `Lifecycle_proofs` | theorems about the former two, and about `RoutingConfig` | |
| `NodeFilters` | the conditions of `node_filter.go`, in the order `object_graph.go` gives them | operators over `MetadataStore` and the results of the checks |
| `Routing` | both filtering strategies | a request applies one filter to one upstream per step, while reports change what filters read |
| `Routing_proofs` | theorems about the former two | |
| `PriorityRoundRobin` | `routing_strategy.go` | choose the list, add atomically, index; no specification of its own |
| `Router` | `router.go` with the validation of groups and upstreams in `config.go`; composes `PriorityRoundRobin` | the chain is chosen in `Init` from all that are valid; a request is filtered, counted and looked up by ID |
| `Router_proofs` | theorems about the former two | |
| `RPCCache` | the two caches (external) as `rpc_cache.go` and the TTLs of `config.go` set them up | operators on entries; expiry and eviction |
| `RequestExecutor` | `request_executor.go` with `HandleRequestParallel` | a request and the goroutine that stores its answer: each access to a cache and each answer of the origin is a step; no specification of its own |
| `RPCHandler` | `rpc_handler.go`; composes `RequestExecutor` | a request is rejected, refused or executed, and its outcome becomes a code and a body |
| `RPCHandler_proofs` | theorems about the former three | |
| `RoutingConfig` | the routing sections of `config.go` | a heap of `LatencyConfig` and `ErrorsConfig` objects that sections share by pointer; one step per section, then the validation |

`BlockHeightCheck` and `NodeFilters`/`Routing` take the store's methods as single
steps of `MetadataStore`; that this is sound is exactly what
`ChainMetadataStore` is shown to do: it implements `AtomicMetadataStore`, whose
steps are those operators. The other
compositions are by abstraction: `Routing` takes the pick of `PriorityRoundRobin` as
any upstream of the first priority left, and the breakers of `UpstreamBans` as sets
of banned upstreams that requests and time change at will; `Router` takes what the
filters let through as any set of upstreams; `RPCHandler` takes the routing as one
step that finds an upstream or none.

A definition whose comment begins with "Mutant" is a plausible bug of the
definition that follows it. No specification uses it; it is there so that one can
see each property fail.

## 3. The runs

Each `MC*.tla` gives the constants of one module small values, each `.cfg` is
one run (`tlc -config X.cfg MCModule`).

| run | asks | instance and bounds |
|---|---|---|
| `store` | Can a caller tell the store from an atomic object? `ImplementsAtomic`, `StatusConsistent`, `CallersSeeMaximaGrow`; does every call return? `CallsReturn` | two upstreams in one group; two callers, one of them also asking; heights 1 and 2 (a lower, an equal, a higher report); one error. 516,040 states |
| `height_check` | Do poller and subscriber interleave their reports (`OneHeightReporter`), does the check agree with the store (`CheckAgreesWithStore`), can a late answer or buffered head undo a newer height (`HeightNeverRegresses`), does the fallback work (`StoreCatchesUp`, `FallbackHeals`)? | one upstream of each kind (with or without Websockets, with a node that may go back, with a subscription that may end with a nil error), heads 1..3, two buffered heads. 99,616 states |
| `height_check_stored` | *Fails:* is a failed check stored, as the filters assume? | as above |
| `routing` | `GroupNeverServesBack`, `SteadyNotOverlooked`, `AlwaysRouted`, `RoutingEnds` | a group of two and a fallback group of one; one client whose requests follow each other; heights 1..2; two reports of any kind at any point; `alwaysRoute` on and off. About 382,000 states |
| `bans` | Does a ban last (`BansLast`), and does it end (`BansEnd`), when another method shares the error breaker? | two requests, one upstream; single requests of one method, batches of it and another that come back to it, and batches of the other alone, recorded under the method or under `Batch`; an answer that is slow, one that counts as an error and a success, one that is an error; breakers that need 1 outcome, a ban of one tick. 132,606 states |
| `router` | Is a request sent to an upstream that passed, of the best priority that had one (`FallbackOnlyWhenNeeded`)? `SerialRequestsTakeTurns`, `NoPanicBeforeOverflow` | two requests; chains of three upstreams in two groups or none, priorities in either order, valid or not; a counter of 8 values, 8 requests, so that the counter wraps. 965,397 states with symmetry |
| `lifecycle` | `RoundsAreSafe`, `ReadyMeansServed`, `ChecksKeepRunning`; does a signal end the process (`ShutdownEnds`), and does an exit leave a request unanswered (`GracefulExit`)? | two upstreams, one client whose requests follow each other, any number of signals. 161,369 states |
| `peers` | `PassesOnEvidence`, `HealthyPasses` | two filters, peer counts 0..3 with a minimum of 2. 12,476 states |
| `requests` | `AnswersAreFresh`, `OnlyResultsAreCached`, `FailsWithOrigin`; does every request end (`RequestsEnd`)? | two requests for one key with a TTL of 2, with an ID or without, or for a method that is not cached, a smallest TTL of 1 and a jitter of up to 1; accesses to Redis that take up to one tick; requests that cannot be decoded or not be sent, and chains with no healthy upstream. 273,625 states |
| `cache_ttl` | *Fails:* does the local cache drop an entry when Redis does? | one request at a time, no jitter, no delays; TTLs of 3 and 2 |
| `config` | Does what a chain does not say come from the global section, or is the default, and the rest as if the chain were the only one (`LoadsAsSpecified`)? Does no later section change it (`SettingsAreFinal`)? | a global section and two chains: 256,000 states, of all files with each setting absent, without a value, or with one of its own, thresholds below zero, and rates that are not rates; two methods, one scalar setting for the three alike |
| `config_thresholds` | *Fails:* does a method get the latency threshold that the comment of `setDefaults` promises (`ThresholdsAsSpecified`)? | of the files above those whose global section has a threshold for all methods only, and whose first chain lists one method without any |

**Why the bounds are enough.** The interesting cases need few parts: a report
that is higher, equal or lower than the maximum needs two heights; an update
seen half done needs one updater and one reader; a race of the breaker needs one
request between the two calls of `IsOpen` and one that records. That errors of one
method keep the latency ban of another from being lifted needs two methods and two
requests: `bans` has them, and finds `BansEnd` violated if it did not allow for
it; its breakers need one outcome only, which is enough to open any of them at any
time, and nothing in `BansLast` depends on how many it took. The loop over a batch
meets a breaker, then a method without one, then the first breaker again, which it has
closed and which may have opened since. A batch that meets the breakers of two
methods has too many states for the liveness check; `BansHold` (section 5) covers it
for `BansLast`. In
`routing` two
reports are the fewest that can make a filter pass one upstream and then fail
the next, or make a group's maximum grow between two filters. `router`
counts modulo 8 so that the conversion to a signed number and the wrap both
happen. In `requests` keys are independent but for the smallest TTL, so one key with
a TTL above it is enough; one request can copy an old entry while the other stores
a new one; and a tick of delay is enough to move an answer from one moment of an
entry's life to another. The bound of `AnswersAreFresh` is met exactly: with one tick
less than its smallest value the run fails. A batch is not looked up in the caches, just like a
method without a TTL, so the latter stands for both. Of what `ServeHTTP` rejects by itself one kind stands
for all in `requests`: they differ in the code only. In `lifecycle` one request is
enough to be caught by a shutdown, and it comes again as long as the server
accepts it. In `config` the only influence of one chain on another is through the
global section, so one earlier and one later chain are enough; the second says
less, as nothing comes after it. The proofs of section 5 hold for any number.

**Deadlock** is checked wherever the system goes on for ever. It is not checked in
`router` (the bound on requests), `config` (a file is loaded once), `lifecycle` (the
process ends) and in `height_check`: a subscription that ends with a nil error ends the
subscriber, while `RunCheck` still takes it for active, so for such an upstream
the checks really stop.

**Fairness.** Every liveness property is checked under the fairness stated in its
module, and no more:

* goroutines that can run do run (weak fairness per goroutine): the Go scheduler
  is preemptive;
* a sender blocked on the store's channel, and a request blocked on
  `LatencyCheck.lock`, is served at last (strong fairness): the runtime queues
  senders first in first out, and `sync.Mutex` has a starvation mode;
* polls and dials end: `RPCRequestTimeout` bounds them. That a poll or a dial
  *succeeds* at last (strong fairness of `NodeAnswers`, `PollReturns`,
  `InitializeHTTP`, `Dial`) is an assumption about the upstream, which the
  properties of recovery need: no gateway recovers from a node that never answers;
* the ticker ticks;
* in `Lifecycle`, a request that the server has accepted ends: again an assumption
  about upstreams, without which `Shutdown`, which has no deadline, may wait for
  ever. Nothing makes a request or a signal come;
* in `RPCHandler`, a request's goroutine and the one that stores its answer run,
  Redis answers or times out (the clients have timeouts), and the origin answers
  or fails. The executor's HTTP client has no timeout, so the last is an assumption
  about upstreams;
* in `UpstreamBans`, requests with every body of the instance keep arriving for every
  upstream: nothing but a request's filter lifts a ban, and without requests a ban
  matters to nobody. This does not say that the latency filter is reached: the error
  filter comes first.

## 4. What the failing runs show

Three runs state what a comment of the code says, and fail.
`PROJECT.json` quotes the lines under "findings".

1. `height_check_stored`: a failed HTTP poll sets a field that no filter reads;
   the store never learns of it, and the filters go on accepting the upstream at
   its last height.
2. `cache_ttl`: the local cache keeps an entry for the smallest TTL, counted from when
   it got it, and it gets it with every read from Redis. An entry read there shortly
   before it expires is served afterwards, although the comment of `getMinimumTTL`
   says that it "ensures the local cache doesn't keep entries longer than they would be
   valid in Redis". `AnswersAreFresh` says how old an answer can get: both TTLs, the
   jitter of the local cache and the delays of Redis add up.
3. `config_thresholds`: the global section has a latency threshold for all methods,
   and a chain lists a method without a threshold. That method gets the default, not
   the global section's threshold: `initialize` asks the global section for the method
   alone. A method that nobody lists gets 0, and each of its requests counts as too
   slow. `ListedMethodsHaveThresholds` (section 5) says that the methods a section
   lists do have positive thresholds.

These thresholds are the exceptions of `LoadsAsSpecified`, which takes the rule from the
comment of `setDefaults` (`config.go:395-397`): `Overlooked` names the thresholds for
which the code does otherwise. It names no other: on every file of the `config` run, a
threshold differs from the rule exactly if it is overlooked, and then it is what the chain
would get if it were the only one.

Other behaviour that the models have as an outcome of its own, but that no run
fails on:

* the HTTP server starts with the goroutine that builds the checks, and an early
  request panics, or stops the process if it meets a write of the map.
  `ReadyMeansServed` says that clients that wait for `/health` are safe;
* a signal that comes before the goroutines have assigned the servers makes main
  shut down a nil pointer (`nilServer`);
* `IsOpen` of a breaker reads the remaining delay and then closes it (`error.go:151`,
  `latency.go:109`); a breaker that opens in between, through another request, is
  closed at once and its ban is lost, although the comment there (`error.go:150`) says
  that it is reset "if it is not supposed to be open". `BansLast` says what still holds;
* the latency of a batch counts under the method "batch", while the filter looks at the
  methods of its subrequests: that breaker opens, is never closed, and bans nothing, so
  slow batches ban no upstream. `BansEnd` leaves it out;
* the error filter comes before the latency filter, and only the latter closes a latency
  breaker: while errors of any method ban the upstream again and again, the latency ban
  of another method stays. `BansEnd` says that it ends or that errors do so;
* a cache hit for a request without an ID panics (`panicked`);
* requests that overlap can all read the same counter and pick one upstream;
* whether `net_peerCount` is supported is only looked at in the first call, so that
  an upstream whose first call fails for another reason is rejected for ever.

## 5. What is proved

**The store.** `ChainMetadataStore_proofs` proves, for any sets of callers, upstreams, groups and
errors, any heights in `Nat` and any `CallsOf`:

| theorem | states |
|---|---|
| `TypeInvariance` | `Spec => []TypeOK`: every variable keeps its type |
| `StatusIsConsistent` | `Spec => []StatusConsistent` |
| `CallersSeeMaximaGrowing` | `Spec => CallersSeeMaximaGrow` |
| `Refinement` | `Spec => ImplementsAtomic`: the detailed store implements the atomic one |

The assumptions are those on the constants only: `GroupOf` maps upstreams to
groups, `NoError` is not an error, heights are naturals, callers make calls of the
store, and `NoStatus` is not a status.

*The argument.* `StatusConsistent` is not inductive: it says nothing of the maps,
nor of a reply on its way. `IInv` adds `Handshake` (which labels of the server go
with which calls, and that at most one caller waits, for the reply being
computed), `MaximaOrdered` (height <= group maximum <= global maximum),
`UpdateInOrder` (in the middle of a closure, the maxima already written bound the
height still to be written; here it matters that the closure writes the global
maximum first and the height last), `ReplyCurrent` (a reply not yet received still
equals the maps, since the server does nothing else meanwhile) and
`StatusBounded` (what callers were told is bounded by the maxima, which is why the
next answer cannot be lower). `Refinement` uses a mapping under which a closure
counts as run to its end when the server receives it: then each rendezvous of an
update is the atomic `Update`, the server's statements are stutters, computing
happens in `Query`, and `Receive` is `Return`.

**The process and its manager.** `Lifecycle_proofs` proves, for any sequence of
different upstreams and any set of requests:

| theorem | states |
|---|---|
| `TypeInvariance` | `Spec => []TypeOK` |
| `RoundsNeverInterfere` | `Spec => []RoundsAreSafe` |
| `WaitingForHealthIsSafe` | `Spec => []ReadyMeansServed` |
| `ExitIsGraceful` | `Spec => []GracefulExit` |

The one assumption is `ConfigsAssumption`: the upstreams of the configuration
differ (`IsUpstreamsValid` of `config.go`), and `NoUpstream` is none of them.

*The argument.* The first lemma, `StepKinds`, says that main and the servers leave
the manager alone, so that its invariants need to be shown for its own steps only;
the second, `RoundHasEveryCheck`, that the loop of a round goes through every check
once. `IInv` adds `Entered` (an upstream being entered is not in the map yet, and all
are there once the manager has begun its rounds: this is why a lookup after
`/health` meets no write), `InRound` (the checks still to be started are not running,
and are all different; between rounds none runs), `Covered` (during a round every
check is to be started, is running, or has run, so when nothing is left every check
has run), `Told` (whoever was told OK was told so after the first round) and
`ShutdownInOrder` (once `Shutdown` has begun nothing is accepted, so once it has
returned nothing is in flight).

**Loading the configuration.** The second part of `Lifecycle_proofs` is about
`RoutingConfig` and proves, for any number of chains, any settings and methods, and
any sections a file may give them:

| theorem | states |
|---|---|
| `LoadingTypeCorrect` | `ConfigSpec => []ConfigTypeOK` |
| `LoadingAsSpecified` | `ConfigSpec => []LoadsAsSpecified` |
| `LoadingAsIfAlone` | `ConfigSpec => []LoadsAsIfAlone`: all that a chain is loaded with is what it would be loaded with if it were alone in the file |
| `LoadedSettingsAreFinal` | `ConfigSpec => SettingsAreFinal` |
| `ListedMethodsHaveThresholds` | `ConfigSpec => []ListedThresholdsSet`: what holds of every threshold, although `ThresholdsAsSpecified` does not (section 4) |

The assumption is `ConfigAssumption`: the chains' sections differ from each other and
from the global one, what a file says is typed (a duration may be negative), no
default is missing, and the default error rate is valid.

*The argument.* None of these properties is inductive: they speak of what a
section reads, not of the objects it shares. The invariant `Loaded` is as strong as it
can be: the whole configuration is a function of the file and the stage,
`ConfigWhen(CompleteSections(stage))`, in which a section and the objects it owns are
either as `Unmarshal` left them or in one final form (`FinalRouting`,
`FinalLatency`, `FinalErrors`). The thresholds of that form, `LoadedThreshold`, are
those that the code arrives at; `ThresholdIsSpecified` is the lemma that they are those
of the comment's rule unless `Overlooked`. `CompleteSections` holds the chains passed that are
specified, and the global section once it or one of these is. That a step keeps
this is `CompleteGlobal` and `CompleteChain`, which follow `setDefaults` call by
call. What they rest on is `SharedLatencyIs`: `initialize` and `merge` through
the shared pointer empty the thresholds of the global object and compute the same
ones again, because a threshold that had to be made up was remembered;
`OwnLatencyIs` says the same of an object of the chain's own. `SetChainDefaultsWhen`
adds when `setDefaults` is reached at all, and `ValidIs` that validating the completed
rates is validating those that the file gives. `SettingsAreFinal` then holds because
final forms do not depend on the stage, and `LoadsAsIfAlone` because they do not depend
on the other chains.

*The block height check.* `BlockHeightCheck_proofs`, for any upstreams of any
kinds, any bound on heights and any number of buffered heads:

| theorem | states |
|---|---|
| `CheckTyped` | `Spec => []TypeOK` |
| `OneReporter` | `Spec => []OneHeightReporter` |
| `CheckAndStoreAgree` | `Spec => []CheckAgreesWithStore` |
| `NoLateReport` | `Spec => HeightNeverRegresses` |

`IInv` ties the program counters of the two goroutines to the fields. `Roles`: the
subscriber reports only while a subscription is noted and without error, a poll runs
only if there is none or it has an error; the two errors are set and cleared in the
order that keeps this so. `HeightReported`: the field equals the store unless one
of them is reporting, and then it is what that one reports. `Ordered`, for a node
that does not go back: buffered heads ascend, and everything on its way to the store
is at least what the store holds. The last is why a late answer to a poll overwrites
nothing newer: the next subscription starts with heads the node had after it.

*The peer check.* `PeerCheck_proofs`, for any minimum and any bound on counts:
`PeerCheckTyped` (`[]TypeOK`) and `PassedOnEvidence` (`[]PassesOnEvidence`). The
invariant says where the evidence for a count is: in the answer on its way, in the
field, or nowhere yet.

*The breakers.* `UpstreamBans_proofs`, for any patterns of errors, answers, rates,
windows and bans: `BansTyped` (`[]TypeOK`) and `BansHold` (`BansLast`). `BansLast` is an
action property; its invariant says that of an open breaker the library's delay
is the ban time left, so that no filter finds the delay over within the ban, and
that a request which closes or records in a latency breaker has looked it up.

*The filters.* `Routing_proofs`, for any groups, priorities, requests and methods,
any settings and any number of reports of any heights:

| theorem | states |
|---|---|
| `RoutingTyped` | `Spec => []TypeOK` |
| `NeverServedBack` | `Spec => []GroupNeverServesBack` |
| `NoneOverlooked` | `Spec => []SteadyNotOverlooked` |
| `RoutedAlways` | `Spec => []AlwaysRouted` |

The invariant has four parts. `PositionOK`: which upstreams and filters are behind
a request. `StoreOK`: the maxima of the store are ordered, and what a group has
served is at most its maximum. `HeightsOK`: what an upstream was seen at is at least
what the group had served when the request came, from the moment that the filter
has compared it with the group's maximum, which only grows. `SteadyOK`: an upstream
that passed all along and is behind the request has passed, and a filter is given up
only when none is left that passed with it.

*The executor and its cache.* `RPCHandler_proofs`, for any requests, methods, TTLs
and delays of Redis:

| theorem | states |
|---|---|
| `HandlerTyped` | `Spec => []TypeOK` |
| `ResultsOnly` | `Spec => []OnlyResultsAreCached` |
| `FreshAnswers` | `Spec => []AnswersAreFresh` |
| `FailureIsOrigins` | `Spec => []FailsWithOrigin` |

The bound on the age of an answer needs a bound on age and remaining time
*together*, for the entries of both caches (`CachesGood`), for the entry that a reader
carries from Redis to the local cache (`HeldGood`) and for the one that the goroutine
that stores carries (`WriterGood`). The rest of the invariant says what the
origin was asked (`OriginAsked`: a second time only after an answer that is not one
response), that a request ends as its last answer says (`EndsRight`) and that the
client is told so (`Responded`).

*The router and its round robin.* `Router_proofs`, for any number of concurrent
requests, words of any even number of values, and every chain that `config.go`
accepts, with any number of groups and upstreams:

| theorem | states |
|---|---|
| `RouterTyped` | `Spec => []TypeOK` |
| `FallbackNeeded` | `Spec => []FallbackOnlyWhenNeeded` |
| `SerialTurns` | `Spec => []SerialRequestsTakeTurns` |
| `NoEarlyPanic` | `Spec => []NoPanicBeforeOverflow` |

`ListOK` and `RoutedOK` say that a list holds the upstreams of the best priority
that passed, each once, and that an answer is one of them; this needs that IDs are
unique, for the upstream is looked up by its ID. `Counted`: the counter and the
requests that are yet to add are no more than the requests that came. `TurnsOK`: the
recent picks are those of as many consecutive words, the counter's last value the
last of them. That such picks differ is the lemma `DifferentPicks`: consecutive
words have different remainders (`DifferentRemainders`), and in the upper half of the
words, where Go's remainder is negative or zero, of two consecutive ones at least
one panics (`NextPanics`), which ends the series; the last word of all panics too
unless there is one upstream (`LastPanics`), so no series goes on across the wrap.

*Assumptions.* All theorems rest on the named assumptions on the constants only, which
TLC evaluates in the runs: bounds and windows are natural numbers and not zero where
the code's defaults and validation keep them so (`BreakerConstants`,
`PeerCheckConstants`, `CheckConstants`, `CacheConstants`, `ExecutorConstants`); the
errors, answers and model values that stand for "none" differ; upstreams have
one place each (`RoutingConstants`: `IsUpstreamsValid` of `config.go`); a word has an
even number of values, at least four (`RoundRobinConstants`: 2^64 in the code);
the chains and the responses are of the types of the code (`RouterConstants`,
`BansConstants`); `ConfigsAssumption` and `ConfigAssumption` are above. Each `IInv`,
and `Loaded`, was checked by TLC on the instance of its run before it
was proved.

*Only model-checked:*

* liveness and `ENABLED`, which are outside of what the prover handles: `CallsReturn`,
  `StoreCatchesUp`, `FallbackHeals`, `RoutingEnds`, `BansEnd`, `HealthyPasses`,
  `ShutdownEnds`, `ChecksKeepRunning`, `RequestsEnd`;
* that `Overlooked` names no threshold for which the code does follow the rule;
* that `BlockHeightCheck`, `Routing` and the others may take the modules they do not
  compose as single steps is argued in section 2, and proved for the store.

## 6. What is not modelled

* **RPCCache.HandleRequest**, which nothing calls, and the making of keys: a method
  stands for its one key, so keys that clash are a listed hazard only.
* **Configuration**: the checks of single strings and durations (URLs, node types,
  TTLs below a second), the lists of enabled methods, `MaxBlocksBehind`, which is
  not completed. Names of chains are not validated by the code: two chains of one
  name would panic in the `ServeMux` at start.
* **Several chains at run time**: chains share the Redis clients and nothing else,
  so the modules model one; `RouterCollection` is the loop over them.
* The set-up of the logger in **main.go**.
* **Clients, JSON encoding**: wrappers and formats. A response is its HTTP code, its
  sequence of subresponses and its error; a request is its methods and the one it is
  recorded by.
* **Metrics** but for the life of their server, **logging, mocks**: nothing reads
  them.
* Words of 64 bits are mathematical integers except for the counter of the round
  robin; heights near 2^64 are not modelled.
* `isCheckEnabled` of the error and latency checks is taken to be true: with it
  false the breakers are nil and the filters pass.
* Races on plain fields are modelled by single atomic reads and writes in any
  order; only for the unlocked map, where the runtime may stop the process, does
  the model have an outcome of its own.

## 7. The plan

Done: every component with the properties of section 1, and proofs of every safety
invariant and action property of the runs that pass. What only TLC checks is
liveness.

Next, in this order:

1. What a request records depends on whether its answer was cached: `RPCHandler`
   and `UpstreamBans` in one specification, if its size allows.
2. Heights of a small word, for the sum in the filter of the global maximum.

Runs are kept few, one per question; a new component takes a run of its own only
where it asks a question that a composed run cannot.
