-------------------------- MODULE RPCHandler_proofs --------------------------
(***************************************************************************)
(* Proofs about the path of a call through the handler, the executor and   *)
(* the cache, for every set of methods, TTLs, requests and queries and for *)
(* every delay of Redis.                                                   *)
(***************************************************************************)
EXTENDS RPCHandler, WellFoundedInduction, TLAPS

InCache == {"local", "redis", "fill"}

(***************************************************************************)
(* The caches.  Age and remaining time of an entry together have a bound   *)
(* that nothing on its way between origin, Redis and the local cache       *)
(* escapes: writers carry answers no older than MaxDelay, Redis adds the   *)
(* TTL of the method, a reader MaxDelay again, the local cache its own TTL *)
(* and the jitter.                                                         *)
(***************************************************************************)
RedisBound(m) == GetTTLForMethod(m) + MaxDelay
LocalBound(m) ==
    GetTTLForMethod(m) + getMinimumTTL + LocalJitter + 2 * MaxDelay - 1

GoodEntry(e, bound) ==
    /\ e \in Entry
    /\ e.answer = "result"
    /\ e.left >= 1
    /\ e.age + e.left <= bound

CachesGood ==
    \A m \in Methods :
        /\ local[m] # NoEntry => GoodEntry(local[m], LocalBound(m))
        /\ redis[m] # NoEntry => GoodEntry(redis[m], RedisBound(m))

HeldGood(r) ==
    /\ pc[r] = "fill" =>
          /\ held[r] \in Entry
          /\ held[r].answer = "result"
          /\ held[r].age < RedisBound(Method(r)) + waited[r]
    /\ pc[r] # "fill" => waited[r] = 0

WriterGood(r) ==
    writer[r].pc # "idle" =>
        /\ writer[r].entry \in Entry
        /\ writer[r].entry.answer = "result"
        /\ writer[r].entry.age = writer[r].waited
        /\ writer[r].waited <= MaxDelay
        /\ ShouldCacheMethod(Method(r))

Cached(r) ==
    /\ pc[r] \in InCache => throughCache[r]
    /\ throughCache[r] => ShouldCacheMethod(Method(r))

Fresh(r) ==
    outcome[r].kind = "cached" => outcome[r].age < LocalBound(Method(r))

CInv == /\ ExecutorTypeOK
        /\ CachesGood
        /\ \A r \in Requests : HeldGood(r) /\ WriterGood(r) /\ Cached(r) /\ Fresh(r)

(***************************************************************************)
(* The origin.  It is asked again, without the cache, only after an answer *)
(* that is not one response; nothing is asked of it before the caches have *)
(* missed; and the response is the one for the last of its answers.        *)
(***************************************************************************)
OriginAsked(r) ==
    /\ origin[r].second # NoAnswer => origin[r].first \in Unknown
    /\ pc[r] \in InCache => origin[r] = NoOrigin
    /\ pc[r] = "origin" /\ throughCache[r] => origin[r] = NoOrigin
    /\ pc[r] = "origin" =>
          /\ origin[r].second = NoAnswer
          /\ origin[r].first # NoAnswer => origin[r].first \in Unknown

\* How a request ends agrees with the last answer of its origin.
EndsRight(r) ==
    /\ pc[r] # "idle" => outcome[r].kind = "none"
    /\ outcome[r].kind \in {"unsent", "cached", "panicked"} =>
          LastAnswer(r) = NoAnswer
    /\ outcome[r].kind = "answered" => LastAnswer(r) \in Answers \ Failures
    /\ outcome[r].kind = "failed" => LastAnswer(r) \in Failures

Responded(r) ==
    outcome[r].kind # "none" => response[r] = ResponseTo(outcome[r], LastAnswer(r))

IInv == /\ TypeOK
        /\ CInv
        /\ \A r \in Requests : OriginAsked(r) /\ EndsRight(r) /\ Responded(r)
-----------------------------------------------------------------------------
(* TTLs.                                                                   *)

\* A nonempty set of natural numbers has a least element.
LEMMA LeastOfSet ==
    ASSUME NEW S, S \subseteq Nat, S # {}
    PROVE  \E n \in S : \A o \in S : n <= o
  <1> DEFINE R == {p \in Nat \X Nat : p[1] < p[2]}
  <1>1. R = OpToRel(<, Nat)
    BY DEF OpToRel
  <1>2. IsWellFoundedOn(R, Nat)
    BY <1>1, NatLessThanWellFounded
  <1>3. PICK n \in S : \A o \in S : ~ (<<o, n>> \in R)
    BY <1>2, WFMin
  <1>4. ASSUME NEW o \in S PROVE n <= o
    <2>1. n \in Nat /\ o \in Nat
      OBVIOUS
    <2>2. ~ (o < n)
      BY <1>3, <2>1
    <2> QED
      BY <2>1, <2>2
  <1> QED
    BY <1>4

\* getMinimumTTL: never zero and never more than a TTL that is set.
LEMMA MinimumTTL ==
    /\ getMinimumTTL \in Nat \ {0}
    /\ \A ttl \in ConfiguredTTLs : getMinimumTTL <= ttl
  <1>1. \A ttl \in ConfiguredTTLs : ttl \in Nat \ {0}
    BY CacheConstants DEF ConfiguredTTLs
  <1>2. CASE ConfiguredTTLs = {}
    BY <1>2 DEF getMinimumTTL, DefaultLocalCacheTTL
  <1>3. CASE ConfiguredTTLs # {}
    <2>1. \E ttl \in ConfiguredTTLs : \A o \in ConfiguredTTLs : ttl <= o
      BY <1>1, <1>3, LeastOfSet
    <2>2. /\ getMinimumTTL \in ConfiguredTTLs
          /\ \A o \in ConfiguredTTLs : getMinimumTTL <= o
      BY <1>3, <2>1 DEF getMinimumTTL
    <2> QED
      BY <1>1, <2>2
  <1> QED
    BY <1>2, <1>3

\* An entry of the local cache lives for the minimum TTL and the jitter at most.
LEMMA LocalLife ==
    \A left \in getMinimumTTL .. getMinimumTTL + LocalJitter :
        /\ left \in Nat /\ left >= 1
        /\ left <= getMinimumTTL + LocalJitter
  BY MinimumTTL, CacheConstants

\* The TTL of any method is a number; a method that is cached has a TTL.
LEMMA MethodTTL ==
    \A m \in Methods :
        /\ GetTTLForMethod(m) \in Nat
        /\ ShouldCacheMethod(m) => GetTTLForMethod(m) >= 1
  BY CacheConstants DEF GetTTLForMethod, ShouldCacheMethod

LEMMA Bounds ==
    \A m \in Methods :
        /\ RedisBound(m) \in Nat /\ LocalBound(m) \in Nat
        /\ RedisBound(m) = GetTTLForMethod(m) + MaxDelay
        /\ LocalBound(m) =
              RedisBound(m) + MaxDelay + getMinimumTTL + LocalJitter - 1
  <1> TAKE m \in Methods
  <1>1. /\ getMinimumTTL \in Nat \ {0} /\ GetTTLForMethod(m) \in Nat
        /\ MaxDelay \in Nat /\ LocalJitter \in Nat
    BY MinimumTTL, MethodTTL, ExecutorConstants, CacheConstants
  <1> QED
    BY <1>1 DEF RedisBound, LocalBound
-----------------------------------------------------------------------------
(* Entries.                                                                *)

LEMMA EntryChanges ==
    ASSUME NEW e \in Entry, NEW n \in Nat
    PROVE  /\ [e EXCEPT !.left = n] \in Entry
           /\ [e EXCEPT !.left = n].answer = e.answer
           /\ [e EXCEPT !.left = n].age = e.age
           /\ [e EXCEPT !.left = n].left = n
           /\ [e EXCEPT !.age = @ + 1] \in Entry
           /\ [e EXCEPT !.age = @ + 1].answer = e.answer
           /\ [e EXCEPT !.age = @ + 1].age = e.age + 1
           /\ [e EXCEPT !.age = @ + 1].left = e.left
           /\ e.answer \in Answers /\ e.age \in Nat /\ e.left \in Nat
  BY DEF Entry

\* A tick keeps an entry within its bound, or drops it.
LEMMA OlderGood ==
    ASSUME NEW e, NEW bound \in Nat, e # NoEntry => GoodEntry(e, bound)
    PROVE  Older(e) # NoEntry => GoodEntry(Older(e), bound)
  <1> SUFFICES ASSUME Older(e) # NoEntry PROVE GoodEntry(Older(e), bound)
    OBVIOUS
  <1>1. e # NoEntry /\ e.left # 1
    BY DEF Older
  <1>2. e \in Entry /\ e.answer = "result" /\ e.left >= 1 /\ e.age + e.left <= bound
    BY <1>1 DEF GoodEntry
  <1>3. e.age \in Nat /\ e.left \in Nat
    BY <1>2 DEF Entry
  <1>4. Older(e) = [e EXCEPT !.age = e.age + 1, !.left = e.left - 1]
    BY <1>1 DEF Older
  <1>5. /\ Older(e) \in Entry
        /\ Older(e).answer = "result"
        /\ Older(e).age = e.age + 1
        /\ Older(e).left = e.left - 1
    <2>1. e.age + 1 \in Nat /\ e.left - 1 \in Nat
      BY <1>2, <1>3
    <2>2. e \in [answer : Answers, age : Nat, left : Nat]
      BY <1>2 DEF Entry
    <2> QED
      BY <1>2, <1>4, <2>1, <2>2 DEF Entry
  <1> QED
    BY <1>1, <1>2, <1>3, <1>5 DEF GoodEntry

LEMMA MethodOfRequest ==
    ASSUME query \in [Requests -> Queries], NEW r \in Requests
    PROVE  Method(r) \in Methods /\ query[r] \in Query
  BY ExecutorConstants DEF Method, Query
-----------------------------------------------------------------------------
(* The caches stay good.                                                   *)

\* What touches the caches.
LEMMA CacheSteps ==
    Next => \/ UNCHANGED cacheVars
            \/ \E r \in Requests : FillLocal(r) \/ StoreLocal(r) \/ StoreRedis(r)
            \/ CacheTick
            \/ \E m \in Methods : Evict(m)
  BY DEF Next, Reject, Refuse, RespondAtOnce, Route, Arrive, Unsent, CannotSend, Execute,
         HandleRequestParallel, LookUpLocal, MissLocal, LookUpRedis, MissRedis,
         RedisFails, OriginAnswers, PassOn, Store, DoNotStore, AskAgain,
         AskAgainAfter, End, Background, Set, StoreRedisFails, Tick, DropEntry,
         cacheVars

LEMMA CachesGoodKept == CInv /\ Next => CachesGood' /\ CacheTypeOK'
  <1> SUFFICES ASSUME CInv, Next PROVE CachesGood' /\ CacheTypeOK'
    OBVIOUS
  <1> USE DEF CInv
  <1>1. /\ local \in [Methods -> Entry \cup {NoEntry}]
        /\ redis \in [Methods -> Entry \cup {NoEntry}]
        /\ query \in [Requests -> Queries]
        /\ \A r \in Requests : waited[r] \in 0..MaxDelay
    BY DEF ExecutorTypeOK, CacheTypeOK
  <1>2. MaxDelay \in Nat
    BY ExecutorConstants
  <1>3. CASE UNCHANGED cacheVars
    BY <1>1, <1>3 DEF cacheVars, CachesGood, CacheTypeOK
  <1>4. ASSUME NEW r \in Requests, FillLocal(r) PROVE CachesGood' /\ CacheTypeOK'
    <2>0. PICK left \in getMinimumTTL .. getMinimumTTL + LocalJitter :
             /\ local' = [local EXCEPT ![Method(r)] = [held[r] EXCEPT !.left = left]]
             /\ redis' = redis
      BY <1>4 DEF FillLocal, SetLocal
    <2> DEFINE e == [held[r] EXCEPT !.left = left]
    <2>1. /\ held[r] \in Entry /\ held[r].answer = "result"
          /\ held[r].age < RedisBound(Method(r)) + waited[r]
      BY <1>4 DEF FillLocal, Goes, HeldGood
    <2>2. e \in Entry /\ e.answer = "result" /\ e.age = held[r].age
          /\ e.left = left /\ e.age \in Nat
      BY <2>1, EntryChanges, LocalLife
    <2>3. Method(r) \in Methods
      BY <1>1, MethodOfRequest
    <2> HIDE DEF e
    <2>4. GoodEntry(e, LocalBound(Method(r)))
      <3>1. /\ e.age < RedisBound(Method(r)) + MaxDelay
            /\ left \in Nat /\ left >= 1 /\ left <= getMinimumTTL + LocalJitter
        BY <1>1, <1>2, <2>1, <2>2, <2>3, Bounds, LocalLife
      <3> QED
        BY <1>2, <2>2, <2>3, <3>1, Bounds, MinimumTTL, CacheConstants DEF GoodEntry
    <2>5. local' = [local EXCEPT ![Method(r)] = e] /\ redis' = redis
      BY <2>0 DEF e
    <2> QED
      BY <1>1, <2>2, <2>3, <2>4, <2>5 DEF CachesGood, CacheTypeOK
  <1>5. ASSUME NEW r \in Requests, StoreLocal(r) PROVE CachesGood' /\ CacheTypeOK'
    <2>0. PICK left \in getMinimumTTL .. getMinimumTTL + LocalJitter :
             /\ local' = [local EXCEPT ![Method(r)] =
                             [writer[r].entry EXCEPT !.left = left]]
             /\ redis' = redis
      BY <1>5 DEF StoreLocal, SetLocal
    <2> DEFINE e == [writer[r].entry EXCEPT !.left = left]
    <2>1. /\ writer[r].entry \in Entry /\ writer[r].entry.answer = "result"
          /\ writer[r].entry.age <= MaxDelay
          /\ ShouldCacheMethod(Method(r))
      BY <1>5 DEF StoreLocal, WriterGood
    <2>2. e \in Entry /\ e.answer = "result" /\ e.age = writer[r].entry.age
          /\ e.left = left /\ e.age \in Nat
      BY <2>1, EntryChanges, LocalLife
    <2>3. Method(r) \in Methods
      BY <1>1, MethodOfRequest
    <2> HIDE DEF e
    <2>4. GoodEntry(e, LocalBound(Method(r)))
      <3>1. /\ e.age <= MaxDelay /\ RedisBound(Method(r)) >= MaxDelay + 1
            /\ left \in Nat /\ left >= 1 /\ left <= getMinimumTTL + LocalJitter
        BY <1>2, <2>1, <2>2, <2>3, Bounds, LocalLife, MethodTTL
      <3> QED
        BY <1>2, <2>2, <2>3, <3>1, Bounds, MinimumTTL, CacheConstants DEF GoodEntry
    <2>5. local' = [local EXCEPT ![Method(r)] = e] /\ redis' = redis
      BY <2>0 DEF e
    <2> QED
      BY <1>1, <2>2, <2>3, <2>4, <2>5 DEF CachesGood, CacheTypeOK
  <1>6. ASSUME NEW r \in Requests, StoreRedis(r) PROVE CachesGood' /\ CacheTypeOK'
    <2> DEFINE e == [writer[r].entry EXCEPT !.left = GetTTLForMethod(Method(r))]
    <2>1. /\ writer[r].entry \in Entry /\ writer[r].entry.answer = "result"
          /\ writer[r].entry.age <= MaxDelay
          /\ ShouldCacheMethod(Method(r))
      BY <1>6 DEF StoreRedis, WriterGood
    <2>3. Method(r) \in Methods
      BY <1>1, MethodOfRequest
    <2>2. e \in Entry /\ e.answer = "result" /\ e.age = writer[r].entry.age
          /\ e.left = GetTTLForMethod(Method(r)) /\ e.age \in Nat
      BY <2>1, <2>3, EntryChanges, MethodTTL
    <2> HIDE DEF e
    <2>4. GoodEntry(e, RedisBound(Method(r)))
      BY <1>2, <2>1, <2>2, <2>3, Bounds, MethodTTL DEF GoodEntry
    <2>5. /\ redis' = [redis EXCEPT ![Method(r)] =
                          IF redis[Method(r)] = NoEntry THEN e ELSE redis[Method(r)]]
          /\ local' = local
      BY <1>6 DEF StoreRedis, SetRedis, e
    <2> QED
      BY <1>1, <2>2, <2>3, <2>4, <2>5 DEF CachesGood, CacheTypeOK
  <1>7. CASE CacheTick
    <2>1. ASSUME NEW m \in Methods
          PROVE  /\ local'[m] # NoEntry => GoodEntry(local'[m], LocalBound(m))
                 /\ redis'[m] # NoEntry => GoodEntry(redis'[m], RedisBound(m))
      <3>1. local'[m] = Older(local[m]) /\ redis'[m] = Older(redis[m])
        BY <1>7 DEF CacheTick
      <3>2. LocalBound(m) \in Nat /\ RedisBound(m) \in Nat
        BY Bounds
      <3>3. /\ local[m] # NoEntry => GoodEntry(local[m], LocalBound(m))
            /\ redis[m] # NoEntry => GoodEntry(redis[m], RedisBound(m))
        BY DEF CachesGood
      <3> QED
        BY <3>1, <3>2, <3>3, OlderGood
    <2>2. CacheTypeOK'
      BY <1>7, <2>1 DEF CacheTypeOK, CacheTick, GoodEntry
    <2> QED
      BY <2>1, <2>2 DEF CachesGood
  <1>8. ASSUME NEW m \in Methods, Evict(m) PROVE CachesGood' /\ CacheTypeOK'
    BY <1>1, <1>8 DEF Evict, CachesGood, CacheTypeOK
  <1> QED
    BY <1>3, <1>4, <1>5, <1>6, <1>7, <1>8, CacheSteps
-----------------------------------------------------------------------------
(* The state of requests keeps its type.                                   *)

RequestTypeOK ==
    /\ pc \in [Requests -> {"idle", "local", "redis", "fill", "origin"}]
    /\ query \in [Requests -> Queries]
    /\ throughCache \in [Requests -> BOOLEAN]
    /\ held \in [Requests -> Entry \cup {NoEntry}]
    /\ waited \in [Requests -> 0..MaxDelay]
    /\ writer \in [Requests -> Writer]
    /\ outcome \in [Requests -> Outcome]
    /\ origin \in [Requests -> [first : Answers \cup {NoAnswer},
                                second : Answers \cup {NoAnswer}]]

LEMMA ExecutorTypes == ExecutorTypeOK <=> CacheTypeOK /\ RequestTypeOK
  BY DEF ExecutorTypeOK, RequestTypeOK

\* The values the actions assign.
LEMMA Values ==
    /\ NoOrigin \in [first : Answers \cup {NoAnswer}, second : Answers \cup {NoAnswer}]
    /\ NoOrigin.first = NoAnswer /\ NoOrigin.second = NoAnswer
    /\ IdleWriter \in Writer /\ IdleWriter.pc = "idle"
    /\ 0 \in 0..MaxDelay
    /\ \A k \in {"none", "unsent", "cached", "answered", "failed", "panicked"},
          n \in Nat :
          /\ Ended(k, n) \in Outcome
          /\ Ended(k, n).kind = k /\ Ended(k, n).age = n
    /\ \A a \in Answers :
          /\ [answer |-> a, age |-> 0, left |-> 0] \in Entry
          /\ [pc |-> "local", waited |-> 0,
              entry |-> [answer |-> a, age |-> 0, left |-> 0]] \in Writer
  BY ExecutorConstants
  DEF NoOrigin, IdleWriter, Writer, Ended, Outcome, Entry

LEMMA AnsweredTyped ==
    ASSUME RequestTypeOK, NEW r \in Requests, NEW a \in Answers, Answered(r, a)
    PROVE  /\ origin' \in [Requests -> [first : Answers \cup {NoAnswer},
                                        second : Answers \cup {NoAnswer}]]
           /\ origin'[r] = IF origin[r].first = NoAnswer
                           THEN [first |-> a, second |-> origin[r].second]
                           ELSE [first |-> origin[r].first, second |-> a]
  <1> DEFINE T == [first : Answers \cup {NoAnswer}, second : Answers \cup {NoAnswer}]
             new == IF origin[r].first = NoAnswer
                    THEN [origin[r] EXCEPT !.first = a]
                    ELSE [origin[r] EXCEPT !.second = a]
  <1>1. origin[r] \in T /\ origin \in [Requests -> T]
    BY DEF RequestTypeOK
  <1>2. new \in T /\ new = IF origin[r].first = NoAnswer
                           THEN [first |-> a, second |-> origin[r].second]
                           ELSE [first |-> origin[r].first, second |-> a]
    BY <1>1
  <1>3. origin' = [origin EXCEPT ![r] = new]
    BY DEF Answered
  <1> QED
    BY <1>1, <1>2, <1>3

LEMMA EndTyped ==
    ASSUME RequestTypeOK, NEW r \in Requests, NEW a \in Answers, End(r, a),
           writer' \in [Requests -> Writer]
    PROVE  RequestTypeOK'
  <1>1. origin' \in [Requests -> [first : Answers \cup {NoAnswer},
                                  second : Answers \cup {NoAnswer}]]
    BY AnsweredTyped DEF End
  <1>2. outcome' \in [Requests -> Outcome]
    BY Values DEF End, RequestTypeOK
  <1>3. pc' \in [Requests -> {"idle", "local", "redis", "fill", "origin"}]
    BY DEF End, Goes, RequestTypeOK
  <1> QED
    BY <1>1, <1>2, <1>3 DEF End, RequestTypeOK

LEMMA HitTyped ==
    ASSUME RequestTypeOK, NEW r \in Requests, NEW e \in Entry, Hit(r, e)
    PROVE  outcome' \in [Requests -> Outcome]
  <1>1. e.age \in Nat
    BY DEF Entry
  <1> QED
    BY <1>1, Values DEF Hit, RequestTypeOK

\* The steps that the caches or the origin of a request take with it.
RequestStep(r) ==
    \/ (\E resp : RespondAtOnce(r, resp)) \/ Arrive(r) \/ CannotSend(r)
    \/ HandleRequestParallel(r) \/ Set(r)

LEMMA RequestTypesKept ==
    ASSUME CInv, NEW r \in Requests, RequestStep(r)
    PROVE  RequestTypeOK'
  <1>0. RequestTypeOK /\ CacheTypeOK
    BY ExecutorTypes DEF CInv
  <1> USE <1>0 DEF RequestTypeOK, Goes, requestVars
  <1>1. CASE \E resp : RespondAtOnce(r, resp)
    <2>1. /\ outcome' = [outcome EXCEPT ![r] = Ended("none", 0)]
          /\ origin' = [origin EXCEPT ![r] = NoOrigin]
          /\ UNCHANGED <<pc, query, throughCache, held, waited, writer>>
      BY <1>1 DEF RespondAtOnce
    <2> QED
      BY <2>1, Values
  <1>12. CASE CannotSend(r)
    <2>1. /\ outcome' = [outcome EXCEPT ![r] = Ended("unsent", 0)]
          /\ origin' = [origin EXCEPT ![r] = NoOrigin]
          /\ UNCHANGED <<pc, query, throughCache, held, waited, writer>>
      BY <1>12 DEF CannotSend
    <2> QED
      BY <2>1, Values
  <1>2. CASE Arrive(r)
    <2>1. /\ outcome' = [outcome EXCEPT ![r] = Ended("none", 0)]
          /\ origin' = [origin EXCEPT ![r] = NoOrigin]
          /\ UNCHANGED <<held, waited, writer>>
      BY <1>2 DEF Arrive
    <2>2. PICK q \in Queries :
            /\ query' = [query EXCEPT ![r] = q]
            /\ throughCache' = [throughCache EXCEPT ![r] = UseCache(q)]
            /\ pc' = [pc EXCEPT ![r] = IF UseCache(q) THEN "local" ELSE "origin"]
      BY <1>2 DEF Arrive
    <2>3. UseCache(q) \in BOOLEAN
      BY DEF UseCache, ShouldCacheMethod
    <2>4. throughCache' \in [Requests -> BOOLEAN]
      BY <2>2, <2>3
    <2>5. pc' \in [Requests -> {"idle", "local", "redis", "fill", "origin"}]
      BY <2>2
    <2> QED
      BY <2>1, <2>2, <2>4, <2>5, Values
  <1>3. CASE LookUpLocal(r)
    <2>1. local[Method(r)] \in Entry
      BY <1>3, MethodOfRequest DEF LookUpLocal, CacheTypeOK
    <2>2. outcome' \in [Requests -> Outcome]
      BY <1>3, <2>1, HitTyped DEF LookUpLocal
    <2> QED
      BY <1>3, <2>2 DEF LookUpLocal
  <1>4. CASE MissLocal(r) \/ MissRedis(r)
    BY <1>4 DEF MissLocal, MissRedis
  <1>5. CASE LookUpRedis(r)
    <2>1. redis[Method(r)] \in Entry
      BY <1>5, MethodOfRequest DEF LookUpRedis, CacheTypeOK
    <2>2. held' \in [Requests -> Entry \cup {NoEntry}]
      BY <1>5, <2>1 DEF LookUpRedis
    <2> QED
      BY <1>5, <2>2 DEF LookUpRedis
  <1>6. CASE RedisFails(r)
    <2>1. /\ held' \in [Requests -> Entry \cup {NoEntry}]
          /\ waited' \in [Requests -> 0..MaxDelay]
      BY <1>6, Values DEF RedisFails, LetGo
    <2> QED
      BY <1>6, <2>1 DEF RedisFails
  <1>7. CASE FillLocal(r)
    <2>1. held[r] \in Entry
      BY <1>7 DEF FillLocal, CInv, HeldGood
    <2>2. outcome' \in [Requests -> Outcome]
      BY <1>7, <2>1, HitTyped DEF FillLocal
    <2>3. /\ held' \in [Requests -> Entry \cup {NoEntry}]
          /\ waited' \in [Requests -> 0..MaxDelay]
      BY <1>7, Values DEF FillLocal, LetGo
    <2> QED
      BY <1>7, <2>2, <2>3 DEF FillLocal
  <1>8. CASE PassOn(r) \/ DoNotStore(r)
    <2>1. PICK a \in Answers : End(r, a) /\ UNCHANGED writer
      BY <1>8, ExecutorConstants DEF PassOn, DoNotStore, Failures, Handled
    <2> QED
      BY <2>1, EndTyped
  <1>9. CASE Store(r)
    <2>1. PICK a \in Answers :
            /\ End(r, a)
            /\ writer' = [writer EXCEPT ![r] =
                  IF a = "noResult" THEN IdleWriter
                  ELSE [pc |-> "local", waited |-> 0,
                        entry |-> [answer |-> a, age |-> 0, left |-> 0]]]
      BY <1>9 DEF Store
    <2>2. writer' \in [Requests -> Writer]
      BY <2>1, Values
    <2> QED
      BY <2>1, <2>2, EndTyped
  <1>10. CASE AskAgain(r)
    <2>1. PICK a \in Answers : Answered(r, a)
      BY <1>10, ExecutorConstants DEF AskAgain, AskAgainAfter, Unknown
    <2>2. origin' \in [Requests -> [first : Answers \cup {NoAnswer},
                                    second : Answers \cup {NoAnswer}]]
      BY <2>1, AnsweredTyped
    <2> QED
      BY <1>10, <2>2 DEF AskAgain, AskAgainAfter
  <1>11. CASE Set(r)
    <2>1. writer' \in [Requests -> Writer]
      <3>1. writer[r] \in Writer
        OBVIOUS
      <3>2. [writer[r] EXCEPT !.pc = "redis"] \in Writer
        BY <3>1 DEF Writer
      <3>3. \/ writer' = [writer EXCEPT ![r] = [writer[r] EXCEPT !.pc = "redis"]]
            \/ writer' = [writer EXCEPT ![r] = IdleWriter]
        BY <1>11 DEF Set, StoreLocal, StoreRedis, StoreRedisFails
      <3>4. IdleWriter \in Writer
        BY Values
      <3>5. writer \in [Requests -> Writer]
        OBVIOUS
      <3> HIDE <1>0
      <3> QED
        BY <3>2, <3>3, <3>4, <3>5
    <2> QED
      BY <1>11, <2>1 DEF Set, StoreLocal, StoreRedis, StoreRedisFails
  <1> QED
    BY <1>1, <1>2, <1>3, <1>4, <1>5, <1>6, <1>7, <1>8, <1>9, <1>10, <1>11,
       <1>12
    DEF RequestStep, HandleRequestParallel, OriginAnswers

LEMMA TickTypesKept == CInv /\ Tick => RequestTypeOK'
  <1> SUFFICES ASSUME CInv, Tick PROVE RequestTypeOK'
    OBVIOUS
  <1>0. RequestTypeOK
    BY ExecutorTypes DEF CInv
  <1>1. MaxDelay \in Nat
    BY ExecutorConstants
  <1>2. held' \in [Requests -> Entry \cup {NoEntry}]
    <2>1. ASSUME NEW r \in Requests, pc[r] = "fill"
          PROVE  [held[r] EXCEPT !.age = @ + 1] \in Entry
      BY <2>1, EntryChanges DEF CInv, HeldGood
    <2>2. ASSUME NEW r \in Requests PROVE held'[r] \in Entry \cup {NoEntry}
      BY <1>0, <2>1 DEF Tick, RequestTypeOK
    <2> QED
      BY <2>2 DEF Tick
  <1>3. waited' \in [Requests -> 0..MaxDelay]
    <2>1. ASSUME NEW r \in Requests PROVE waited'[r] \in 0..MaxDelay
      <3>1. waited[r] \in 0..MaxDelay
        BY <1>0 DEF RequestTypeOK
      <3>2. waited'[r] = IF pc[r] = "fill" THEN waited[r] + 1 ELSE waited[r]
        BY DEF Tick
      <3>3. waited[r] < MaxDelay \/ pc[r] # "fill"
        BY DEF Tick
      <3> QED
        BY <1>1, <3>1, <3>2, <3>3
    <2> QED
      BY <2>1 DEF Tick
  <1>4. writer' \in [Requests -> Writer]
    <2>1. ASSUME NEW r \in Requests PROVE writer'[r] \in Writer
      <3>1. CASE writer[r].pc = "idle"
        BY <1>0, <3>1 DEF Tick, RequestTypeOK
      <3>2. CASE writer[r].pc # "idle"
        <4>1. writer[r].entry \in Entry /\ writer[r] \in Writer
          BY <1>0, <3>2 DEF CInv, WriterGood, RequestTypeOK
        <4>2. writer[r].waited + 1 \in Nat
          BY <4>1 DEF Writer
        <4>3. [writer[r].entry EXCEPT !.age = @ + 1] \in Entry
          BY <4>1, EntryChanges
        <4>4. writer'[r] = [writer[r] EXCEPT
                               !.waited = writer[r].waited + 1,
                               !.entry = [writer[r].entry EXCEPT !.age = @ + 1]]
          BY <3>2, <4>1 DEF Tick, Writer
        <4> QED
          BY <4>1, <4>2, <4>3, <4>4 DEF Writer
      <3> QED
        BY <3>1, <3>2
    <2> QED
      BY <2>1 DEF Tick
  <1> QED
    BY <1>0, <1>2, <1>3, <1>4 DEF Tick, RequestTypeOK
-----------------------------------------------------------------------------
(* What holds of a request only changes with its own steps, and with time. *)

Same(s) ==
    /\ pc'[s] = pc[s] /\ query'[s] = query[s]
    /\ throughCache'[s] = throughCache[s]
    /\ held'[s] = held[s] /\ waited'[s] = waited[s]
    /\ writer'[s] = writer[s]
    /\ outcome'[s] = outcome[s] /\ origin'[s] = origin[s]

LEMMA OthersUntouched ==
    ASSUME RequestTypeOK, NEW r \in Requests, RequestStep(r),
           NEW s \in Requests, s # r
    PROVE  Same(s)
  <1> USE DEF RequestTypeOK, Same, Goes, requestVars
  <1>1. CASE (\E resp : RespondAtOnce(r, resp)) \/ Arrive(r) \/ CannotSend(r)
    BY <1>1 DEF RespondAtOnce, Arrive, CannotSend
  <1>2. CASE LookUpLocal(r) \/ MissLocal(r) \/ LookUpRedis(r) \/ MissRedis(r)
    BY <1>2 DEF LookUpLocal, MissLocal, LookUpRedis, MissRedis, Hit
  <1>3. CASE RedisFails(r) \/ FillLocal(r)
    BY <1>3 DEF RedisFails, FillLocal, LetGo, Hit
  <1>4. CASE PassOn(r) \/ Store(r) \/ DoNotStore(r)
    BY <1>4 DEF PassOn, Store, DoNotStore, End, Answered
  <1>5. CASE AskAgain(r)
    BY <1>5 DEF AskAgain, AskAgainAfter, Answered
  <1>6. CASE Set(r)
    BY <1>6 DEF Set, StoreLocal, StoreRedis, StoreRedisFails
  <1> QED
    BY <1>1, <1>2, <1>3, <1>4, <1>5, <1>6
    DEF RequestStep, HandleRequestParallel, OriginAnswers

LEMMA SameKeeps ==
    ASSUME NEW s, Same(s)
    PROVE  /\ HeldGood(s) => HeldGood(s)'
           /\ WriterGood(s) => WriterGood(s)'
           /\ Cached(s) => Cached(s)'
           /\ Fresh(s) => Fresh(s)'
           /\ OriginAsked(s) => OriginAsked(s)'
  <1>1. Method(s)' = Method(s)
    BY DEF Same, Method
  <1> QED
    BY <1>1 DEF Same, HeldGood, WriterGood, Cached, Fresh, OriginAsked,
                RedisBound, LocalBound

LEMMA CachedKept ==
    ASSUME CInv, NEW r \in Requests, RequestStep(r)
    PROVE  Cached(r)'
  <1>0. RequestTypeOK /\ Cached(r)
    BY ExecutorTypes DEF CInv
  <1> USE <1>0 DEF RequestTypeOK, Cached, InCache, Goes, requestVars, Method
  <1>1. CASE (\E resp : RespondAtOnce(r, resp)) \/ CannotSend(r)
    BY <1>1 DEF RespondAtOnce, CannotSend
  <1>2. CASE Arrive(r)
    BY <1>2 DEF Arrive, UseCache
  <1>3. CASE LookUpLocal(r) \/ MissLocal(r) \/ LookUpRedis(r) \/ MissRedis(r)
             \/ RedisFails(r) \/ FillLocal(r)
    BY <1>3 DEF LookUpLocal, MissLocal, LookUpRedis, MissRedis, RedisFails, FillLocal
  <1>4. CASE PassOn(r) \/ Store(r) \/ DoNotStore(r)
    BY <1>4 DEF PassOn, Store, DoNotStore, End
  <1>5. CASE AskAgain(r)
    BY <1>5 DEF AskAgain, AskAgainAfter
  <1>6. CASE Set(r)
    BY <1>6 DEF Set, StoreLocal, StoreRedis, StoreRedisFails
  <1> QED
    BY <1>1, <1>2, <1>3, <1>4, <1>5, <1>6
    DEF RequestStep, HandleRequestParallel, OriginAnswers

\* Redis hands out nothing too old, and the delay is counted from there.
LEMMA HeldGoodKept ==
    ASSUME CInv, NEW r \in Requests, RequestStep(r)
    PROVE  HeldGood(r)'
  <1>0. RequestTypeOK /\ HeldGood(r)
    BY ExecutorTypes DEF CInv
  <1> USE <1>0 DEF RequestTypeOK, Goes, requestVars
  <1>1. CASE (\E resp : RespondAtOnce(r, resp)) \/ Arrive(r) \/ CannotSend(r)
    <2>1. UNCHANGED <<held, waited>> /\ pc[r] # "fill" /\ pc'[r] # "fill"
      BY <1>1 DEF RespondAtOnce, Arrive, CannotSend
    <2> QED
      BY <2>1 DEF HeldGood
  <1>2. CASE LookUpRedis(r)
    <2>1. /\ pc[r] # "fill" /\ pc'[r] = "fill" /\ waited'[r] = 0
          /\ held'[r] = redis[Method(r)] /\ redis[Method(r)] # NoEntry
          /\ Method(r)' = Method(r)
      BY <1>2 DEF LookUpRedis, HeldGood, Method
    <2>2. Method(r) \in Methods
      BY MethodOfRequest
    <2>3. GoodEntry(redis[Method(r)], RedisBound(Method(r)))
      BY <2>1, <2>2 DEF CInv, CachesGood
    <2>4. held'[r].age < RedisBound(Method(r))
      BY <2>1, <2>2, <2>3, Bounds DEF GoodEntry, Entry
    <2> QED
      BY <2>1, <2>2, <2>3, <2>4, Bounds DEF GoodEntry, HeldGood, RedisBound
  <1>3. CASE RedisFails(r) \/ FillLocal(r)
    BY <1>3 DEF RedisFails, FillLocal, LetGo, HeldGood
  <1>4. CASE LookUpLocal(r) \/ MissLocal(r) \/ MissRedis(r)
    BY <1>4 DEF LookUpLocal, MissLocal, MissRedis, HeldGood
  <1>5. CASE PassOn(r) \/ Store(r) \/ DoNotStore(r) \/ AskAgain(r)
    BY <1>5 DEF PassOn, Store, DoNotStore, AskAgain, AskAgainAfter, End, HeldGood
  <1>6. CASE Set(r)
    <2>1. UNCHANGED <<pc, query, held, waited>>
      BY <1>6 DEF Set, StoreLocal, StoreRedis, StoreRedisFails
    <2> QED
      BY <2>1 DEF HeldGood, RedisBound, Method
  <1> QED
    BY <1>1, <1>2, <1>3, <1>4, <1>5, <1>6
    DEF RequestStep, HandleRequestParallel, OriginAnswers

\* Only a result is given to a writer, for a method that is cached, at once.
LEMMA WriterGoodKept ==
    ASSUME CInv, NEW r \in Requests, RequestStep(r)
    PROVE  WriterGood(r)'
  <1>0. RequestTypeOK /\ WriterGood(r) /\ Cached(r)
    BY ExecutorTypes DEF CInv
  <1> USE <1>0 DEF RequestTypeOK, Goes, requestVars
  <1>1. CASE (\E resp : RespondAtOnce(r, resp)) \/ Arrive(r) \/ CannotSend(r)
    BY <1>1 DEF RespondAtOnce, Arrive, CannotSend, WriterGood
  <1>2. CASE /\ writer'[r] = writer[r] /\ query' = query
    BY <1>2 DEF WriterGood, Method
  <1>3. CASE Store(r)
    <2>1. PICK a \in Answers \ (Failures \cup Handled \cup Unknown) :
            /\ query' = query
            /\ writer'[r] =
                  IF a = "noResult" THEN IdleWriter
                  ELSE [pc |-> "local", waited |-> 0,
                        entry |-> [answer |-> a, age |-> 0, left |-> 0]]
      BY <1>3 DEF Store, End
    <2>2. ShouldCacheMethod(Method(r)) /\ Method(r)' = Method(r)
      BY <1>3, <2>1 DEF Store, Cached, Method
    <2>3. CASE a = "noResult"
      BY <2>1, <2>3 DEF WriterGood, IdleWriter
    <2>4. CASE a # "noResult"
      <3>1. a = "result"
        BY <2>4, ExecutorConstants DEF Failures, Handled, Unknown
      <3>2. [answer |-> a, age |-> 0, left |-> 0] \in Entry
        BY DEF Entry
      <3> QED
        BY <2>1, <2>2, <2>4, <3>1, <3>2, ExecutorConstants DEF WriterGood
    <2> QED
      BY <2>3, <2>4
  <1>4. CASE StoreLocal(r)
    <2>1. /\ writer[r] \in Writer
          /\ writer'[r] = [writer[r] EXCEPT !.pc = "redis"]
          /\ query' = query /\ writer[r].pc # "idle"
      BY <1>4 DEF StoreLocal
    <2> QED
      BY <2>1 DEF WriterGood, Method, Writer
  <1>5. CASE StoreRedis(r) \/ StoreRedisFails(r)
    BY <1>5 DEF StoreRedis, StoreRedisFails, IdleWriter, WriterGood
  <1>6. CASE HandleRequestParallel(r) /\ ~Store(r)
    <2>1. UNCHANGED <<writer, query>>
      BY <1>6
      DEF HandleRequestParallel, LookUpLocal, MissLocal, LookUpRedis, MissRedis,
          RedisFails, FillLocal, OriginAnswers, PassOn, DoNotStore, AskAgain,
          AskAgainAfter, End
    <2> QED
      BY <1>2, <2>1
  <1> QED
    BY <1>1, <1>3, <1>4, <1>5, <1>6 DEF RequestStep, Set

\* Both caches answer with something that is fresh enough.
LEMMA FreshKept ==
    ASSUME CInv, NEW r \in Requests, RequestStep(r)
    PROVE  Fresh(r)'
  <1>0. RequestTypeOK /\ Fresh(r) /\ HeldGood(r) /\ CachesGood
    BY ExecutorTypes DEF CInv
  <1> USE <1>0 DEF RequestTypeOK, Goes, requestVars
  <1>m. Method(r) \in Methods
    BY MethodOfRequest
  <1>1. CASE outcome'[r].kind # "cached"
    BY <1>1 DEF Fresh
  <1>2. CASE outcome'[r] = outcome[r] /\ query'[r] = query[r]
    BY <1>2 DEF Fresh, LocalBound, Method
  <1>3. CASE (\E resp : RespondAtOnce(r, resp)) \/ Arrive(r) \/ CannotSend(r)
    <2>1. outcome'[r] \in {Ended("none", 0), Ended("unsent", 0)}
      BY <1>3 DEF RespondAtOnce, Arrive, CannotSend
    <2> QED
      BY <1>1, <2>1 DEF Ended
  <1>4. CASE LookUpLocal(r)
    <2>1. GoodEntry(local[Method(r)], LocalBound(Method(r)))
      BY <1>4, <1>m DEF LookUpLocal, CachesGood
    <2>2. local[Method(r)].age < LocalBound(Method(r))
      BY <1>m, <2>1, Bounds DEF GoodEntry, Entry
    <2>3. outcome'[r].kind = "cached" => outcome'[r].age = local[Method(r)].age
      BY <1>4 DEF LookUpLocal, Hit, Ended
    <2>4. Method(r)' = Method(r)
      BY <1>4 DEF LookUpLocal, Method
    <2> QED
      BY <2>2, <2>3, <2>4 DEF Fresh, LocalBound
  <1>5. CASE FillLocal(r)
    <2>1. held[r].age < RedisBound(Method(r)) + waited[r] /\ held[r] \in Entry
      BY <1>5 DEF FillLocal, HeldGood
    <2>2. waited[r] \in 0..MaxDelay /\ MaxDelay \in Nat /\ held[r].age \in Nat
      BY <2>1, ExecutorConstants DEF Entry
    <2>3. held[r].age < LocalBound(Method(r))
      <3>1. /\ RedisBound(Method(r)) \in Nat
            /\ LocalBound(Method(r)) =
                  RedisBound(Method(r)) + MaxDelay + getMinimumTTL + LocalJitter - 1
            /\ getMinimumTTL \in Nat \ {0} /\ LocalJitter \in Nat
        BY <1>m, Bounds, MinimumTTL, CacheConstants
      <3> QED
        BY <2>1, <2>2, <3>1
    <2>4. outcome'[r].kind = "cached" => outcome'[r].age = held[r].age
      BY <1>5 DEF FillLocal, Hit, Ended
    <2>5. Method(r)' = Method(r)
      BY <1>5 DEF FillLocal, Method
    <2> QED
      BY <2>3, <2>4, <2>5 DEF Fresh, LocalBound
  <1>6. CASE MissLocal(r) \/ LookUpRedis(r) \/ MissRedis(r) \/ RedisFails(r)
             \/ AskAgain(r) \/ Set(r)
    BY <1>2, <1>6
    DEF MissLocal, LookUpRedis, MissRedis, RedisFails, AskAgain, AskAgainAfter,
        Set, StoreLocal, StoreRedis, StoreRedisFails
  <1>7. CASE PassOn(r) \/ Store(r) \/ DoNotStore(r)
    BY <1>1, <1>7 DEF PassOn, Store, DoNotStore, End, Ended
  <1> QED
    BY <1>3, <1>4, <1>5, <1>6, <1>7
    DEF RequestStep, HandleRequestParallel, OriginAnswers

\* Time: what is on its way ages no more than the delay it is granted.
LEMMA TickKeeps ==
    ASSUME CInv, Tick, NEW r \in Requests
    PROVE  HeldGood(r)' /\ WriterGood(r)' /\ Cached(r)' /\ Fresh(r)'
  <1>0. RequestTypeOK /\ HeldGood(r) /\ WriterGood(r) /\ Cached(r) /\ Fresh(r)
    BY ExecutorTypes DEF CInv
  <1>1. UNCHANGED <<pc, query, throughCache, outcome, origin>>
    BY DEF Tick
  <1>2. Method(r)' = Method(r) /\ Method(r) \in Methods
    BY <1>0, <1>1, MethodOfRequest DEF Method, RequestTypeOK
  <1>3. HeldGood(r)'
    <2>1. CASE pc[r] = "fill"
      <3>1. /\ held'[r] = [held[r] EXCEPT !.age = @ + 1]
            /\ waited'[r] = waited[r] + 1
        BY <2>1 DEF Tick
      <3>2. /\ held[r] \in Entry /\ held[r].answer = "result"
            /\ held[r].age < RedisBound(Method(r)) + waited[r]
            /\ waited[r] \in Nat
        BY <1>0, <2>1, ExecutorConstants DEF HeldGood, RequestTypeOK
      <3>3. /\ held'[r] \in Entry /\ held'[r].answer = "result"
            /\ held'[r].age = held[r].age + 1 /\ held[r].age \in Nat
        BY <3>1, <3>2, EntryChanges
      <3>4. held'[r].age < RedisBound(Method(r)) + waited'[r]
        BY <1>2, <3>1, <3>2, <3>3, Bounds
      <3> QED
        BY <1>1, <1>2, <2>1, <3>3, <3>4 DEF HeldGood, RedisBound
    <2>2. CASE pc[r] # "fill"
      BY <1>0, <1>1, <2>2 DEF HeldGood, Tick
    <2> QED
      BY <2>1, <2>2
  <1>4. WriterGood(r)'
    <2>1. CASE writer[r].pc = "idle"
      BY <1>1, <2>1 DEF WriterGood, Tick
    <2>2. CASE writer[r].pc # "idle"
      <3> DEFINE w == writer[r]
                 e == [writer[r].entry EXCEPT !.age = @ + 1]
      <3>1. /\ w \in Writer /\ w.entry \in Entry /\ w.entry.answer = "result"
            /\ w.entry.age = w.waited /\ w.waited < MaxDelay
            /\ ShouldCacheMethod(Method(r))
        BY <1>0, <2>2 DEF WriterGood, RequestTypeOK, Tick
      <3>2. writer'[r] = [w EXCEPT !.waited = @ + 1, !.entry.age = @ + 1]
        BY <2>2 DEF Tick
      <3>3. /\ writer'[r].entry = e
            /\ writer'[r].waited = w.waited + 1
            /\ w.waited \in Nat
        BY <3>1, <3>2 DEF Writer
      <3>4. e \in Entry /\ e.answer = "result" /\ e.age = w.entry.age + 1
        BY <3>1, EntryChanges
      <3> HIDE DEF w, e
      <3> QED
        BY <1>2, <3>1, <3>3, <3>4, ExecutorConstants DEF WriterGood
    <2> QED
      BY <2>1, <2>2
  <1>5. Cached(r)' /\ Fresh(r)'
    BY <1>0, <1>1, <1>2 DEF Cached, Fresh, LocalBound
  <1> QED
    BY <1>3, <1>4, <1>5

LEMMA CacheInit0 == Init => CInv
  <1> SUFFICES ASSUME Init PROVE CInv
    OBVIOUS
  <1> USE Values DEF Init, ExecutorInit, CacheInit
  <1>1. CacheTypeOK /\ CachesGood
    BY DEF CacheTypeOK, CachesGood
  <1>2. RequestTypeOK
    BY ExecutorConstants DEF RequestTypeOK
  <1>3. \A r \in Requests : HeldGood(r) /\ WriterGood(r) /\ Cached(r) /\ Fresh(r)
    BY DEF HeldGood, WriterGood, Cached, Fresh, InCache
  <1> QED
    BY <1>1, <1>2, <1>3, ExecutorTypes DEF CInv

LEMMA Steps ==
    Next => \/ \E r \in Requests : RequestStep(r)
            \/ Tick
            \/ DropEntry
  BY DEF Next, Reject, Refuse, Route, Unsent, Execute, Background, RequestStep

LEMMA CInvKept == CInv /\ [Next]_vars => CInv'
  <1> SUFFICES ASSUME CInv, [Next]_vars PROVE CInv'
    OBVIOUS
  <1>0. RequestTypeOK
    BY ExecutorTypes DEF CInv
  <1>1. ASSUME Next, NEW r \in Requests, RequestStep(r) PROVE CInv'
    <2>1. ASSUME NEW s \in Requests
          PROVE  (HeldGood(s) /\ WriterGood(s) /\ Cached(s) /\ Fresh(s))'
      <3>1. CASE s = r
        BY <1>1, <3>1, HeldGoodKept, WriterGoodKept, CachedKept, FreshKept
      <3>2. CASE s # r
        BY <1>0, <1>1, <3>2, OthersUntouched, SameKeeps DEF CInv
      <3> QED
        BY <3>1, <3>2
    <2> QED
      BY <1>1, <2>1, CachesGoodKept, RequestTypesKept
      DEF CInv, ExecutorTypeOK, RequestTypeOK
  <1>2. CASE Next /\ Tick
    BY <1>2, CachesGoodKept, TickTypesKept, TickKeeps
    DEF CInv, ExecutorTypeOK, RequestTypeOK
  <1>3. CASE Next /\ DropEntry
    <2>1. \A r \in Requests : Same(r)
      BY <1>3 DEF DropEntry, Same, requestVars
    <2>2. RequestTypeOK'
      BY <1>0, <1>3 DEF DropEntry, RequestTypeOK, requestVars
    <2> QED
      BY <1>3, <2>1, <2>2, CachesGoodKept, SameKeeps
      DEF CInv, ExecutorTypeOK, RequestTypeOK
  <1>4. CASE UNCHANGED vars
    <2>1. \A r \in Requests : Same(r)
      BY <1>4 DEF vars, executorVars, Same, requestVars
    <2>2. RequestTypeOK' /\ CacheTypeOK' /\ CachesGood'
      BY <1>0, <1>4, ExecutorTypes
      DEF CInv, RequestTypeOK, vars, executorVars, requestVars, cacheVars,
          CacheTypeOK, CachesGood
    <2> QED
      BY <2>1, <2>2, SameKeeps DEF CInv, ExecutorTypeOK, RequestTypeOK
  <1> QED
    BY <1>1, <1>2, <1>3, <1>4, Steps
-----------------------------------------------------------------------------
(* The origin and the response.                                            *)

\* What the origin's answer a makes of its answers so far.
LEMMA NextAnswer ==
    ASSUME RequestTypeOK, NEW r \in Requests, NEW a \in Answers, Answered(r, a),
           OriginAsked(r), pc[r] = "origin"
    PROVE  /\ LastAnswer(r)' = a
           /\ origin'[r].second # NoAnswer => origin'[r].first \in Unknown
           /\ throughCache[r] => origin'[r] = [first |-> a, second |-> NoAnswer]
  <1>1. origin'[r] = IF origin[r].first = NoAnswer
                     THEN [first |-> a, second |-> origin[r].second]
                     ELSE [first |-> origin[r].first, second |-> a]
    BY AnsweredTyped
  <1>2. a # NoAnswer
    BY ExecutorConstants
  <1> QED
    BY <1>1, <1>2 DEF OriginAsked, LastAnswer, NoOrigin

LEMMA EndsWith ==
    ASSUME RequestTypeOK, NEW r \in Requests, PassOn(r) \/ Store(r) \/ DoNotStore(r)
    PROVE  \E a \in Answers : End(r, a)
  BY ExecutorConstants DEF PassOn, Store, DoNotStore, Failures, Handled

LEMMA OriginAskedKept ==
    ASSUME RequestTypeOK, NEW r \in Requests, OriginAsked(r), RequestStep(r)
    PROVE  OriginAsked(r)'
  <1> USE DEF RequestTypeOK, Goes, requestVars
  <1>1. CASE (\E resp : RespondAtOnce(r, resp)) \/ CannotSend(r)
    BY <1>1, Values DEF RespondAtOnce, CannotSend, OriginAsked, InCache
  <1>2. CASE Arrive(r)
    <2>1. origin'[r] = NoOrigin
      BY <1>2 DEF Arrive
    <2> QED
      BY <2>1, Values DEF OriginAsked
  <1>3. CASE LookUpLocal(r) \/ MissLocal(r) \/ LookUpRedis(r) \/ MissRedis(r)
             \/ RedisFails(r) \/ FillLocal(r)
    <2>1. /\ origin' = origin
          /\ pc[r] \in InCache
      BY <1>3 DEF LookUpLocal, MissLocal, LookUpRedis, MissRedis, RedisFails,
                  FillLocal, InCache
    <2> QED
      BY <2>1, Values DEF OriginAsked
  <1>4. CASE PassOn(r) \/ Store(r) \/ DoNotStore(r)
    <2>1. PICK a \in Answers : End(r, a)
      BY <1>4, EndsWith
    <2>2. /\ pc[r] = "origin" /\ pc'[r] = "idle"
          /\ origin'[r].second # NoAnswer => origin'[r].first \in Unknown
      BY <2>1, NextAnswer DEF End
    <2> QED
      BY <2>2 DEF OriginAsked, InCache
  <1>5. CASE AskAgain(r)
    <2>1. PICK a \in Unknown : Answered(r, a)
      BY <1>5 DEF AskAgain, AskAgainAfter
    <2>2. a \in Answers /\ throughCache[r] /\ pc[r] = "origin"
          /\ pc'[r] = "origin" /\ ~throughCache'[r]
      BY <1>5, ExecutorConstants DEF AskAgain, AskAgainAfter, Unknown
    <2>3. origin'[r] = [first |-> a, second |-> NoAnswer]
      BY <2>1, <2>2, NextAnswer
    <2> QED
      BY <2>1, <2>2, <2>3 DEF OriginAsked, InCache
  <1>6. CASE Set(r)
    <2>1. UNCHANGED <<pc, throughCache, origin>>
      BY <1>6 DEF Set, StoreLocal, StoreRedis, StoreRedisFails
    <2> QED
      BY <2>1 DEF OriginAsked
  <1> QED
    BY <1>1, <1>2, <1>3, <1>4, <1>5, <1>6
    DEF RequestStep, HandleRequestParallel, OriginAnswers

Responses ==
    {NoResponse, NoHealthyUpstreams} \cup {Rejection[d] : d \in Defects}
    \cup {ResponseTo([kind |-> k, age |-> 0], a) :
             k \in {"unsent", "cached", "answered", "failed", "panicked"},
             a \in Answers}

\* A response depends on how the request ended, not on the age of the answer.
LEMMA ResponseTyped ==
    ASSUME NEW o \in Outcome, NEW a, o.kind # "none",
           o.kind \in {"answered", "failed"} => a \in Answers
    PROVE  ResponseTo(o, a) \in Responses
  <1>1. o.kind \in {"unsent", "cached", "answered", "failed", "panicked"}
    BY DEF Outcome
  <1>2. CASE a \in Answers
    <2>1. ResponseTo(o, a) = ResponseTo([kind |-> o.kind, age |-> 0], a)
      BY DEF ResponseTo
    <2> QED
      BY <1>1, <1>2, <2>1 DEF Responses
  <1>3. CASE a \notin Answers
    <2>1. o.kind \in {"unsent", "cached", "panicked"}
      BY <1>1, <1>3
    <2>2. ResponseTo(o, a) = ResponseTo([kind |-> o.kind, age |-> 0], "result")
      BY <2>1 DEF ResponseTo
    <2>3. "result" \in Answers
      BY ExecutorConstants
    <2> QED
      BY <1>1, <2>2, <2>3 DEF Responses
  <1> QED
    BY <1>2, <1>3

LEMMA EndsRightKept ==
    ASSUME CInv, NEW r \in Requests, OriginAsked(r), EndsRight(r), RequestStep(r)
    PROVE  EndsRight(r)'
  <1>0. RequestTypeOK
    BY ExecutorTypes DEF CInv
  <1> USE <1>0 DEF RequestTypeOK, Goes, requestVars
  <1>1. CASE (\E resp : RespondAtOnce(r, resp)) \/ Arrive(r)
    <2>1. outcome'[r] = Ended("none", 0)
      BY <1>1 DEF RespondAtOnce, Arrive
    <2> QED
      BY <2>1 DEF EndsRight, Ended
  <1>6. CASE CannotSend(r)
    <2>1. /\ outcome'[r] = Ended("unsent", 0) /\ origin'[r] = NoOrigin
          /\ pc'[r] = "idle"
      BY <1>6 DEF CannotSend
    <2>2. LastAnswer(r)' = NoAnswer
      BY <2>1, Values DEF LastAnswer
    <2> QED
      BY <2>1, <2>2 DEF EndsRight, Ended
  <1>2. CASE LookUpLocal(r) \/ FillLocal(r)
    <2>1. /\ origin' = origin /\ origin[r] = NoOrigin /\ pc'[r] = "idle"
          /\ outcome'[r].kind \in {"cached", "panicked"}
      BY <1>2 DEF LookUpLocal, FillLocal, Hit, Ended, OriginAsked, InCache
    <2>2. LastAnswer(r)' = NoAnswer
      BY <2>1, Values DEF LastAnswer
    <2> QED
      BY <2>1, <2>2 DEF EndsRight
  <1>3. CASE MissLocal(r) \/ LookUpRedis(r) \/ MissRedis(r) \/ RedisFails(r)
             \/ AskAgain(r)
    <2>1. outcome' = outcome /\ pc[r] # "idle"
      BY <1>3 DEF MissLocal, LookUpRedis, MissRedis, RedisFails, AskAgain,
                  AskAgainAfter
    <2> QED
      BY <2>1 DEF EndsRight
  <1>4. CASE PassOn(r) \/ Store(r) \/ DoNotStore(r)
    <2>1. PICK a \in Answers : End(r, a)
      BY <1>4, EndsWith
    <2>2. /\ LastAnswer(r)' = a /\ pc'[r] = "idle"
          /\ outcome'[r].kind = IF a \in Failures THEN "failed" ELSE "answered"
      BY <2>1, NextAnswer DEF End, Ended
    <2> QED
      BY <2>2 DEF EndsRight
  <1>5. CASE Set(r)
    <2>1. UNCHANGED <<pc, outcome, origin>>
      BY <1>5 DEF Set, StoreLocal, StoreRedis, StoreRedisFails
    <2> QED
      BY <2>1 DEF EndsRight, LastAnswer
  <1> QED
    BY <1>1, <1>2, <1>3, <1>4, <1>5, <1>6
    DEF RequestStep, HandleRequestParallel, OriginAnswers

\* Everything but the response is as it was for requests that take no step.
LEMMA SameOrigin ==
    ASSUME NEW s, Same(s)
    PROVE  /\ LastAnswer(s)' = LastAnswer(s)
           /\ OriginAsked(s) => OriginAsked(s)'
           /\ EndsRight(s) => EndsRight(s)'
           /\ response'[s] = response[s] /\ Responded(s) => Responded(s)'
  <1>1. LastAnswer(s)' = LastAnswer(s)
    BY DEF Same, LastAnswer
  <1> QED
    BY <1>1 DEF Same, OriginAsked, EndsRight, Responded

\* The response that a step gives belongs to the way the request ended.
LEMMA RespondedKept ==
    ASSUME IInv, NEW r \in Requests,
           \/ Reject(r) \/ Refuse(r) \/ Route(r) \/ Unsent(r)
           \/ Execute(r) \/ Background(r)
    PROVE  /\ Responded(r)'
           /\ \E resp \in Responses : response' = [response EXCEPT ![r] = resp]
  <1>0. /\ RequestTypeOK /\ CInv /\ OriginAsked(r) /\ EndsRight(r) /\ Responded(r)
        /\ response \in [Requests -> Responses]
        /\ response = [response EXCEPT ![r] = response[r]]
    BY ExecutorTypes DEF IInv, CInv, TypeOK, Responses
  <1>1. CASE Reject(r) \/ Refuse(r)
    <2>1. PICK resp \in Responses : RespondAtOnce(r, resp)
      BY <1>1 DEF Reject, Refuse, Responses
    <2>2. outcome'[r].kind = "none"
      BY <1>0, <2>1 DEF RespondAtOnce, Ended, RequestTypeOK
    <2>3. response' = [response EXCEPT ![r] = resp]
      BY <2>1 DEF RespondAtOnce, Responds
    <2>4. Responded(r)'
      BY <2>2 DEF Responded
    <2> QED
      BY <2>3, <2>4
  <1>2. CASE Route(r)
    <2>1. outcome'[r].kind = "none"
      BY <1>0, <1>2 DEF Route, Arrive, Ended, RequestTypeOK
    <2>2. response' = [response EXCEPT ![r] = NoResponse]
      BY <1>2 DEF Route, Responds
    <2>3. NoResponse \in Responses
      BY DEF Responses
    <2>4. Responded(r)'
      BY <2>1 DEF Responded
    <2> QED
      BY <2>2, <2>3, <2>4
  <1>5. CASE Unsent(r)
    <2> DEFINE resp == ResponseTo(outcome'[r], NoAnswer)
    <2>1. /\ outcome'[r] = Ended("unsent", 0) /\ origin'[r] = NoOrigin
          /\ response' = [response EXCEPT ![r] = resp]
      BY <1>0, <1>5 DEF Unsent, CannotSend, Responds, RequestTypeOK
    <2>2. LastAnswer(r)' = NoAnswer
      BY <2>1, Values DEF LastAnswer
    <2>3. resp \in Responses
      BY <2>1, Values, ResponseTyped
    <2>4. response'[r] = resp
      BY <1>0, <2>1
    <2> QED
      BY <2>1, <2>2, <2>3, <2>4 DEF Responded
  <1>3. CASE Execute(r)
    <2>1. RequestStep(r)
      BY <1>3 DEF Execute, RequestStep
    <2>2. RequestTypeOK' /\ EndsRight(r)'
      BY <1>0, <2>1, RequestTypesKept, EndsRightKept
    <2>3. CASE pc'[r] = "idle"
      <3> DEFINE resp == ResponseTo(outcome'[r], LastAnswer(r)')
      <3>1. response' = [response EXCEPT ![r] = resp]
        BY <1>3, <2>3 DEF Execute, Responds
      <3>2. outcome'[r] \in Outcome
        BY <2>2 DEF RequestTypeOK
      <3>3. outcome'[r].kind # "none"
        <4> USE <1>0 DEF RequestTypeOK, Goes
        <4>1. CASE LookUpLocal(r) \/ FillLocal(r)
          BY <4>1 DEF LookUpLocal, FillLocal, Hit, Ended
        <4>2. CASE PassOn(r) \/ Store(r) \/ DoNotStore(r)
          BY <4>2 DEF PassOn, Store, DoNotStore, End, Ended
        <4>3. ~(MissLocal(r) \/ LookUpRedis(r) \/ MissRedis(r)
                \/ RedisFails(r) \/ AskAgain(r))
          BY <2>3 DEF MissLocal, LookUpRedis, MissRedis, RedisFails, AskAgain,
                      AskAgainAfter
        <4> QED
          BY <1>3, <4>1, <4>2, <4>3 DEF Execute, HandleRequestParallel, OriginAnswers
      <3>4. outcome'[r].kind \in {"answered", "failed"} => LastAnswer(r)' \in Answers
        BY <2>2, ExecutorConstants DEF EndsRight, Failures
      <3>5. resp \in Responses
        BY <3>2, <3>3, <3>4, ResponseTyped
      <3>6. response'[r] = resp
        BY <1>0, <3>1
      <3> QED
        BY <3>1, <3>5, <3>6 DEF Responded
    <2>4. CASE pc'[r] # "idle"
      <3>1. outcome'[r].kind = "none"
        BY <2>2, <2>4 DEF EndsRight
      <3>2. response' = response /\ response[r] \in Responses
        BY <1>0, <1>3, <2>4 DEF Execute
      <3> QED
        BY <1>0, <3>1, <3>2 DEF Responded
    <2> QED
      BY <2>3, <2>4
  <1>4. CASE Background(r)
    <2>1. UNCHANGED <<outcome, origin, response>>
      BY <1>4 DEF Background, Set, StoreLocal, StoreRedis, StoreRedisFails,
                  requestVars
    <2>2. response[r] \in Responses
      BY <1>0
    <2> QED
      BY <1>0, <2>1, <2>2 DEF Responded, LastAnswer
  <1> QED
    BY <1>1, <1>2, <1>3, <1>4, <1>5

LEMMA IInvKept == IInv /\ [Next]_vars => IInv'
  <1> SUFFICES ASSUME IInv, [Next]_vars PROVE IInv'
    OBVIOUS
  <1>0. RequestTypeOK /\ response \in [Requests -> Responses]
    BY ExecutorTypes DEF IInv, CInv, TypeOK, Responses
  <1>1. CInv' /\ ExecutorTypeOK'
    BY CInvKept DEF IInv, CInv
  <1>2. ASSUME NEW r \in Requests,
               \/ Reject(r) \/ Refuse(r) \/ Route(r) \/ Unsent(r)
               \/ Execute(r) \/ Background(r)
        PROVE  IInv'
    <2>1. RequestStep(r)
      BY <1>2 DEF RequestStep, Reject, Refuse, Route, Unsent, Execute, Background
    <2>2. PICK resp \in Responses : response' = [response EXCEPT ![r] = resp]
      BY <1>2, RespondedKept
    <2>3. TypeOK'
      BY <1>0, <1>1, <2>2 DEF TypeOK, Responses
    <2>4. ASSUME NEW s \in Requests
          PROVE  (OriginAsked(s) /\ EndsRight(s) /\ Responded(s))'
      <3>1. CASE s = r
        BY <1>0, <1>2, <2>1, <3>1, OriginAskedKept, EndsRightKept, RespondedKept
        DEF IInv
      <3>2. CASE s # r
        <4>1. Same(s)
          BY <1>0, <2>1, <3>2, OthersUntouched
        <4>2. response'[s] = response[s]
          BY <1>0, <2>2, <3>2
        <4> QED
          BY <4>1, <4>2, SameOrigin DEF IInv
      <3> QED
        BY <3>1, <3>2
    <2> QED
      BY <1>1, <2>3, <2>4 DEF IInv
  <1>3. CASE (Tick /\ UNCHANGED response) \/ (DropEntry /\ UNCHANGED response)
             \/ UNCHANGED vars
    <2>1. UNCHANGED <<pc, outcome, origin, throughCache, response>>
      BY <1>3 DEF Tick, DropEntry, vars, executorVars, requestVars
    <2>2. \A s \in Requests : LastAnswer(s)' = LastAnswer(s)
      BY <2>1 DEF LastAnswer
    <2>3. TypeOK'
      BY <1>0, <1>1, <2>1 DEF TypeOK, Responses
    <2> QED
      BY <1>1, <2>1, <2>2, <2>3 DEF IInv, OriginAsked, EndsRight, Responded
  <1> QED
    BY <1>2, <1>3 DEF Next

LEMMA Inductive == Spec => []IInv
  <1>1. Init => IInv
    <2> SUFFICES ASSUME Init PROVE IInv
      OBVIOUS
    <2>1. CInv
      BY CacheInit0
    <2>2. TypeOK
      BY <2>1 DEF Init, TypeOK, CInv
    <2>3. \A r \in Requests : OriginAsked(r) /\ EndsRight(r) /\ Responded(r)
      BY Values DEF Init, ExecutorInit, OriginAsked, EndsRight, Responded
    <2> QED
      BY <2>1, <2>2, <2>3 DEF IInv
  <1> QED
    BY <1>1, IInvKept, PTL DEF Spec

(***************************************************************************)
(* The caches, the requests and their responses keep their types.          *)
(***************************************************************************)
THEOREM HandlerTyped == Spec => []TypeOK
  <1>1. IInv => TypeOK
    BY DEF IInv
  <1> QED
    BY <1>1, Inductive, PTL

(***************************************************************************)
(* No cache ever holds, so none ever serves, anything but a result.        *)
(***************************************************************************)
THEOREM ResultsOnly == Spec => []OnlyResultsAreCached
  <1>1. IInv => OnlyResultsAreCached
    BY DEF IInv, CInv, CachesGood, GoodEntry, OnlyResultsAreCached
  <1> QED
    BY <1>1, Inductive, PTL

(***************************************************************************)
(* Whatever the TTLs, the jitter of the local cache and the delays of      *)
(* Redis are, an answer from the cache is younger than what these allow.   *)
(***************************************************************************)
THEOREM FreshAnswers == Spec => []AnswersAreFresh
  <1>1. IInv => AnswersAreFresh
    <2> SUFFICES ASSUME IInv, NEW r \in Requests, outcome[r].kind = "cached"
                 PROVE  outcome[r].age < LocalBound(Method(r))
      BY DEF AnswersAreFresh, LocalBound
    <2> QED
      BY DEF IInv, CInv, Fresh
  <1> QED
    BY <1>1, Inductive, PTL

(***************************************************************************)
(* A call fails exactly when the last answer of the origin is a failure,   *)
(* with the status of the origin if it has one; and a call that the origin *)
(* failed is not sent to it again.                                         *)
(***************************************************************************)
THEOREM FailureIsOrigins == Spec => []FailsWithOrigin
  <1>1. IInv => FailsWithOrigin
    <2> SUFFICES ASSUME IInv, NEW r \in Requests
                 PROVE  /\ outcome[r].kind # "none" =>
                           /\ response[r].code \in Failed
                                <=> \/ LastAnswer(r) \in {"unreachable", "httpError"}
                                    \/ outcome[r].kind = "unsent"
                           /\ response[r].code = "OriginStatus"
                                <=> LastAnswer(r) = "httpError"
                           /\ response[r].body = "raw"
                                <=> LastAnswer(r) = "undecodable"
                        /\ origin[r].second # NoAnswer =>
                              origin[r].first \notin Failures
      BY DEF FailsWithOrigin
    <2>1. OriginAsked(r) /\ EndsRight(r) /\ Responded(r) /\ RequestTypeOK
      BY ExecutorTypes DEF IInv, CInv
    <2>2. outcome[r].kind \in {"none", "unsent", "cached", "answered", "failed",
                               "panicked"}
      BY <2>1 DEF RequestTypeOK, Outcome
    <2>3. origin[r].second # NoAnswer => origin[r].first \notin Failures
      BY <2>1 DEF OriginAsked, Unknown, Failures
    <2> USE <2>1 DEF EndsRight, Responded, ResponseTo, Response, Failed, Failures
    <2>4. CASE outcome[r].kind \in {"unsent", "cached", "panicked"}
      BY <2>3, <2>4, ExecutorConstants
    <2>5. CASE outcome[r].kind = "answered"
      BY <2>3, <2>5, ExecutorConstants
    <2>6. CASE outcome[r].kind = "failed"
      BY <2>3, <2>6, ExecutorConstants
    <2> QED
      BY <2>2, <2>3, <2>4, <2>5, <2>6
  <1> QED
    BY <1>1, Inductive, PTL
=============================================================================
