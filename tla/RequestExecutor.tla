-------------------------- MODULE RequestExecutor --------------------------
(***************************************************************************)
(* internal/route/request_executor.go with HandleRequestParallel of        *)
(* rpc_cache.go: a request that has been routed is answered from a cache   *)
(* or by the upstream (the origin), and a goroutine of its own stores the  *)
(* answer afterwards.                                                      *)
(*                                                                         *)
(* A step of a request is one access to a cache or one answer of the       *)
(* origin; the decisions in between are local to its goroutine.            *)
(***************************************************************************)
EXTENDS RPCCache

CONSTANTS
    Requests,      \* goroutines
    Queries,       \* bound: what clients send
    NoAnswer,
    MaxDelay       \* bound: ticks that an access to Redis may take

(***************************************************************************)
(* Requests are single, single without an ID, or batches.  What an origin  *)
(* may answer: one response, with a result, without one, with null or with *)
(* an error; several responses or none; or no answer that can be read, a   *)
(* status of 400 and more, or something that is not JSON RPC.              *)
(***************************************************************************)
Query == [method : Methods, shape : {"single", "notification", "batch"}]

ASSUME ExecutorConstants ==
    /\ MaxDelay \in Nat
    /\ Queries \subseteq Query
    /\ Answers = {"result", "noResult", "null", "rpcError", "batch", "empty",
                  "unreachable", "httpError", "undecodable"}
    /\ NoAnswer \notin Answers

VARIABLES
    pc,          \* "idle", "local", "redis", "fill", "origin"
    query,
    throughCache,    \* the origin is asked by originFunc of the cached path
    held,        \* the entry that was read from Redis
    waited,      \* for how many ticks
    writer,      \* the goroutine that stores the request's answer
    outcome,     \* how the last request ended
    origin       \* ghost: the origin's answers to the request, in order

requestVars == <<pc, query, throughCache, held, waited, outcome, origin>>
executorVars == <<cacheVars, requestVars, writer>>

Outcome == [kind : {"none", "unsent", "cached", "answered", "failed", "panicked"},
            age : Nat]
Writer == [pc : {"idle", "local", "redis"}, entry : Entry \cup {NoEntry}, waited : Nat]

ExecutorTypeOK ==
    /\ CacheTypeOK
    /\ pc \in [Requests -> {"idle", "local", "redis", "fill", "origin"}]
    /\ query \in [Requests -> Queries]
    /\ throughCache \in [Requests -> BOOLEAN]
    /\ held \in [Requests -> Entry \cup {NoEntry}]
    /\ waited \in [Requests -> 0..MaxDelay]
    /\ writer \in [Requests -> Writer]
    /\ outcome \in [Requests -> Outcome]
    /\ origin \in [Requests -> [first : Answers \cup {NoAnswer},
                                second : Answers \cup {NoAnswer}]]

NoOrigin == [first |-> NoAnswer, second |-> NoAnswer]
Ended(kind, age) == [kind |-> kind, age |-> age]
IdleWriter == [pc |-> "idle", entry |-> NoEntry, waited |-> 0]

ExecutorInit ==
    /\ CacheInit
    /\ pc = [r \in Requests |-> "idle"]
    /\ \E q \in Queries : query = [r \in Requests |-> q]
    /\ throughCache = [r \in Requests |-> FALSE]
    /\ held = [r \in Requests |-> NoEntry]
    /\ waited = [r \in Requests |-> 0]
    /\ writer = [r \in Requests |-> IdleWriter]
    /\ outcome = [r \in Requests |-> Ended("none", 0)]
    /\ origin = [r \in Requests |-> NoOrigin]

Goes(r, from, to) == pc[r] = from /\ pc' = [pc EXCEPT ![r] = to]

Method(r) == query[r].method

UseCache(q) == q.shape # "batch" /\ ShouldCacheMethod(q.method)
-----------------------------------------------------------------------------
(* routeToConfig up to the origin.                                         *)

\* The metadata and the routing are elsewhere.  Bound: one background write for
\* each member of Requests, which serves again when that write has ended.
Arrive(r) ==
    /\ writer[r].pc = "idle"
    /\ \E q \in Queries :
          /\ query' = [query EXCEPT ![r] = q]
          /\ throughCache' = [throughCache EXCEPT ![r] = UseCache(q)]
          /\ Goes(r, "idle", IF UseCache(q) THEN "local" ELSE "origin")
    /\ outcome' = [outcome EXCEPT ![r] = Ended("none", 0)]
    /\ origin' = [origin EXCEPT ![r] = NoOrigin]
    /\ UNCHANGED <<cacheVars, held, waited, writer>>

\* There is no request to send: the body cannot be encoded, or there is none to
\* the URL of the upstream.
CannotSend(r) ==
    /\ pc[r] = "idle"
    /\ writer[r].pc = "idle"
    /\ outcome' = [outcome EXCEPT ![r] = Ended("unsent", 0)]
    /\ origin' = [origin EXCEPT ![r] = NoOrigin]
    /\ UNCHANGED <<cacheVars, pc, query, throughCache, held, waited, writer>>

\* retrieveOrCacheRequest after a hit: it dereferences the ID of the request.
Hit(r, e) ==
    outcome' = [outcome EXCEPT ![r] =
        IF query[r].shape = "notification" THEN Ended("panicked", 0)
                                           ELSE Ended("cached", e.age)]

LookUpLocal(r) ==
    /\ local[Method(r)] # NoEntry
    /\ Goes(r, "local", "idle")
    /\ Hit(r, local[Method(r)])
    /\ UNCHANGED <<cacheVars, query, throughCache, held, waited, writer, origin>>

MissLocal(r) ==
    /\ local[Method(r)] = NoEntry
    /\ Goes(r, "local", "redis")
    /\ UNCHANGED <<cacheVars, query, throughCache, held, waited, writer, outcome,
                   origin>>

\* Redis executes the GET; what it finds is on its way.
LookUpRedis(r) ==
    /\ redis[Method(r)] # NoEntry
    /\ Goes(r, "redis", "fill")
    /\ held' = [held EXCEPT ![r] = redis[Method(r)]]
    /\ UNCHANGED <<cacheVars, query, throughCache, waited, writer, outcome, origin>>

MissRedis(r) ==
    /\ redis[Method(r)] = NoEntry
    /\ Goes(r, "redis", "origin")
    /\ UNCHANGED <<cacheVars, query, throughCache, held, waited, writer, outcome,
                   origin>>

LetGo(r) ==
    /\ held' = [held EXCEPT ![r] = NoEntry]
    /\ waited' = [waited EXCEPT ![r] = 0]

\* Mutant: the error of the cache is the error of the request.
RedisFailsRequest(r) ==
    /\ Goes(r, "redis", "idle") \/ Goes(r, "fill", "idle")
    /\ outcome' = [outcome EXCEPT ![r] = Ended("failed", 0)]
    /\ LetGo(r)
    /\ UNCHANGED <<cacheVars, query, throughCache, writer, origin>>

\* Redis is down, or redisReadTimeout expires.
RedisFails(r) ==
    /\ Goes(r, "redis", "origin") \/ Goes(r, "fill", "origin")
    /\ LetGo(r)
    /\ UNCHANGED <<cacheVars, query, throughCache, writer, outcome, origin>>

\* Mutant: a hit in Redis makes the entry live on there.
FillLocalAndRenew(r) ==
    /\ Goes(r, "fill", "idle")
    /\ SetLocal(Method(r), held[r])
    /\ redis' = [redis EXCEPT ![Method(r)] =
                    [held[r] EXCEPT !.left = GetTTLForMethod(Method(r))]]
    /\ Hit(r, held[r])
    /\ LetGo(r)
    /\ UNCHANGED <<query, throughCache, writer, origin>>

\* What Redis answered goes into the local cache and to the client.
FillLocal(r) ==
    /\ Goes(r, "fill", "idle")
    /\ SetLocal(Method(r), held[r])
    /\ Hit(r, held[r])
    /\ LetGo(r)
    /\ UNCHANGED <<redis, query, throughCache, writer, origin>>

-----------------------------------------------------------------------------
(* The origin answers.                                                     *)

Failures == {"unreachable", "httpError", "undecodable"}

\* Mutant: a null result is a result like others.
HandledWithoutNull == {"rpcError"}

\* Answers that go to the client without being stored: HandledError.
Handled == {"rpcError", "null"}

\* Answers that are not one response: "unknown caching errors".
Unknown == {"batch", "empty"}

Answered(r, a) ==
    origin' = [origin EXCEPT ![r] =
        IF @.first = NoAnswer THEN [@ EXCEPT !.first = a]
                              ELSE [@ EXCEPT !.second = a]]

\* The request ends with the answer a.
End(r, a) ==
    /\ Goes(r, "origin", "idle")
    /\ Answered(r, a)
    /\ outcome' = [outcome EXCEPT ![r] =
          Ended(IF a \in Failures THEN "failed" ELSE "answered", 0)]
    /\ UNCHANGED <<cacheVars, query, throughCache, held, waited>>

\* The path without the cache: whatever it is, it is passed on.
PassOn(r) ==
    /\ ~throughCache[r]
    /\ \E a \in Answers : End(r, a)
    /\ UNCHANGED writer

\* originFunc succeeds: the goroutine that stores the result starts.
Store(r) ==
    /\ throughCache[r]
    /\ \E a \in Answers \ (Failures \cup Handled \cup Unknown) :
          /\ End(r, a)
          /\ writer' = [writer EXCEPT ![r] =
                IF a = "noResult" THEN IdleWriter
                ELSE [pc |-> "local", waited |-> 0,
                      entry |-> [answer |-> a, age |-> 0, left |-> 0]]]

\* originFunc returns an error that ends the request.
DoNotStore(r) ==
    /\ throughCache[r]
    /\ \E a \in Failures \cup Handled : End(r, a)
    /\ UNCHANGED writer

AskAgainAfter(r, answers, again) ==
    /\ throughCache[r]
    /\ \E a \in answers : Answered(r, a)
    /\ Goes(r, "origin", again)
    /\ throughCache' = [throughCache EXCEPT ![r] = again # "origin"]
    /\ UNCHANGED <<cacheVars, query, held, waited, writer, outcome>>

\* Mutants: a response that cannot be decoded is an unknown caching error too;
\* an unknown caching error makes the request look into the cache again.
AskAgainUndecoded(r) == AskAgainAfter(r, Unknown \cup {"undecodable"}, "origin")
AskAgainInCache(r) == AskAgainAfter(r, Unknown, "local")

\* An unknown caching error: routeToConfig asks the origin once more, without
\* the cache.
AskAgain(r) == AskAgainAfter(r, Unknown, "origin")
-----------------------------------------------------------------------------
(* The goroutine that stores an answer: the local cache first.             *)

StoreLocal(r) ==
    /\ writer[r].pc = "local"
    /\ SetLocal(Method(r), writer[r].entry)
    /\ writer' = [writer EXCEPT ![r].pc = "redis"]
    /\ UNCHANGED <<redis, requestVars>>

StoreRedis(r) ==
    /\ writer[r].pc = "redis"
    /\ SetRedis(Method(r), writer[r].entry)
    /\ writer' = [writer EXCEPT ![r] = IdleWriter]
    /\ UNCHANGED <<local, requestVars>>

StoreRedisFails(r) ==
    /\ writer[r].pc = "redis"
    /\ writer' = [writer EXCEPT ![r] = IdleWriter]
    /\ UNCHANGED <<cacheVars, requestVars>>

(* Time and space.                                                         *)

\* The accesses to Redis have timeouts; see MaxDelay.
Tick ==
    /\ \A r \in Requests : waited[r] < MaxDelay \/ pc[r] # "fill"
    /\ \A r \in Requests : writer[r].waited < MaxDelay \/ writer[r].pc = "idle"
    /\ CacheTick
    /\ held' = [r \in Requests |->
          IF pc[r] = "fill" THEN [held[r] EXCEPT !.age = @ + 1] ELSE held[r]]
    /\ waited' = [r \in Requests |->
          IF pc[r] = "fill" THEN waited[r] + 1 ELSE waited[r]]
    /\ writer' = [r \in Requests |->
          IF writer[r].pc = "idle" THEN writer[r]
          ELSE [writer[r] EXCEPT !.waited = @ + 1, !.entry.age = @ + 1]]
    /\ UNCHANGED <<pc, query, throughCache, outcome, origin>>

DropEntry == \E m \in Methods : Evict(m) /\ UNCHANGED <<requestVars, writer>>

OriginAnswers(r) == PassOn(r) \/ Store(r) \/ DoNotStore(r) \/ AskAgain(r)

HandleRequestParallel(r) ==
    \/ LookUpLocal(r) \/ MissLocal(r) \/ LookUpRedis(r) \/ MissRedis(r)
    \/ RedisFails(r) \/ FillLocal(r) \/ OriginAnswers(r)

Set(r) == StoreLocal(r) \/ StoreRedis(r) \/ StoreRedisFails(r)

-----------------------------------------------------------------------------
(***************************************************************************)
(* An answer from the cache is younger than the TTL of its method and the  *)
(* time it may live in the local cache together (and the delays of storing *)
(* and of reading it), however requests, writes that find an entry already *)
(* there, and copies from Redis to the local cache follow each other.  It  *)
(* is one tick less: an entry is gone at the tick that ends its time.      *)
(***************************************************************************)
AnswersAreFresh ==
    \A r \in Requests : outcome[r].kind = "cached" =>
        outcome[r].age < GetTTLForMethod(Method(r))
                         + getMinimumTTL + LocalJitter + 2 * MaxDelay - 1

(***************************************************************************)
(* rpc_cache.go: "This ensures the local cache doesn't keep entries longer *)
(* than they would be valid in Redis."                                     *)
(***************************************************************************)
LocalWithinRedis ==
    \A m \in Methods :
        local[m] # NoEntry => local[m].age < GetTTLForMethod(m)

(***************************************************************************)
(* Only results are served from a cache: an error or a null of one moment  *)
(* is not repeated to the clients that come later.                         *)
(***************************************************************************)
OnlyResultsAreCached ==
    \A m \in Methods : \A e \in {local[m], redis[m]} :
        e # NoEntry => e.answer = "result"

\* The answer that counts: of the second call to the origin if there was one.
LastAnswer(r) ==
    IF origin[r].second # NoAnswer THEN origin[r].second ELSE origin[r].first
=============================================================================
