------------------------------ MODULE RPCCache ------------------------------
(***************************************************************************)
(* internal/cache/rpc_cache.go: what the gateway keeps of the answers to   *)
(* its requests.  An entry lives in Redis for the TTL of its method, and   *)
(* in a local cache, for the smallest TTL of all methods.  Both caches are *)
(* external: go-redis/cache reads the local one first, fills it with what  *)
(* it reads from Redis, and writes to it before it writes to Redis.        *)
(*                                                                         *)
(* A method stands for its one key (CreateRequestKey: chain, method and    *)
(* params).  Time passes in ticks; an entry carries the ticks it has left  *)
(* and, for the properties, the ticks since the origin gave the answer.    *)
(* The local cache (TinyLFU) adds a random time to the TTL of an entry.    *)
(***************************************************************************)
EXTENDS Integers

CONSTANTS
    Methods,
    Answers,        \* what an origin can answer
    TTL,            \* cache.ttl of the chain's configuration
    MethodTTLs,     \* cache.methods: a TTL for some of the methods
    LocalJitter,    \* bound: what the local cache adds to a TTL
    NoEntry

DefaultLocalCacheTTL == 10

ASSUME CacheConstants ==
    /\ TTL \in Nat
    /\ LocalJitter \in Nat
    /\ DOMAIN MethodTTLs \subseteq Methods
    /\ \A m \in DOMAIN MethodTTLs : MethodTTLs[m] \in Nat

VARIABLES local, redis      \* the entry of each method, or NoEntry

cacheVars == <<local, redis>>

Entry == [answer : Answers, age : Nat, left : Nat]

CacheTypeOK ==
    /\ local \in [Methods -> Entry \cup {NoEntry}]
    /\ redis \in [Methods -> Entry \cup {NoEntry}]

CacheInit ==
    /\ local = [m \in Methods |-> NoEntry]
    /\ redis = [m \in Methods |-> NoEntry]

\* config.GetTTLForMethod: a TTL of zero means the default.
GetTTLForMethod(m) ==
    IF m \in DOMAIN MethodTTLs /\ MethodTTLs[m] > 0 THEN MethodTTLs[m] ELSE TTL

ShouldCacheMethod(m) == GetTTLForMethod(m) > 0

\* Mutant: a TTL of zero counts.
AllTTLs == {TTL} \cup {MethodTTLs[m] : m \in DOMAIN MethodTTLs}

ConfiguredTTLs ==
    {ttl \in {TTL} \cup {MethodTTLs[m] : m \in DOMAIN MethodTTLs} : ttl > 0}

\* The smallest TTL set, or a default if none is.
getMinimumTTL ==
    IF ConfiguredTTLs = {} THEN DefaultLocalCacheTTL
    ELSE CHOOSE ttl \in ConfiguredTTLs : \A o \in ConfiguredTTLs : ttl <= o

SetLocal(m, e) ==
    \E left \in getMinimumTTL .. getMinimumTTL + LocalJitter :
        local' = [local EXCEPT ![m] = [e EXCEPT !.left = left]]

\* SetNX: only if Redis has no entry.
SetRedis(m, e) ==
    redis' = [redis EXCEPT ![m] =
                 IF @ = NoEntry THEN [e EXCEPT !.left = GetTTLForMethod(m)] ELSE @]

\* An entry one tick later.
Older(e) ==
    IF e = NoEntry \/ e.left = 1 THEN NoEntry
    ELSE [e EXCEPT !.age = @ + 1, !.left = @ - 1]

CacheTick ==
    /\ local' = [m \in Methods |-> Older(local[m])]
    /\ redis' = [m \in Methods |-> Older(redis[m])]

\* A full cache drops an entry.
Evict(m) ==
    \/ local' = [local EXCEPT ![m] = NoEntry] /\ UNCHANGED redis
    \/ redis' = [redis EXCEPT ![m] = NoEntry] /\ UNCHANGED local
=============================================================================
