------------------------- MODULE UpstreamBans_proofs -------------------------
(***************************************************************************)
(* Proofs about UpstreamBans, for every set of upstreams, requests and     *)
(* methods, every configuration of error matching, every rate, ban window  *)
(* and detection window.                                                   *)
(***************************************************************************)
EXTENDS UpstreamBans, TLAPS

(***************************************************************************)
(* Of a breaker that is open the library's delay is the ban time left:     *)
(* both start with the opening and only time changes them.  Without it a   *)
(* filter could find no delay, and close the breaker, within a ban.        *)
(***************************************************************************)
GoodBreaker(b) ==
    /\ b \in Breaker
    /\ b.state = "open" => b.delay = b.ban

\* A goroutine that closes or records in a latency breaker has looked it up.
LookedUp(r) ==
    /\ pc[r] = "closeLatencies" => toCheck[r] # <<>> /\ Checked(r) # NoBreaker
    /\ pc[r] = "recordLatency" => Recording(r) # NoBreaker

RequestTypeOK(r) ==
    /\ pc[r] # "idle" => body[r] \in RequestBodies
    /\ pc[r] \in {"record", "lookup", "recordLatency"} => response[r] \in Responses

RequestsTypeOK ==
    /\ lock \in [Upstreams -> Requests \cup {NoRequest}]
    /\ pc \in [Requests -> {"idle", "errors", "closeErrors", "latencies",
                   "methods", "closeLatencies", "sent", "record", "lookup",
                   "recordLatency"}]
    /\ upstream \in [Requests -> Upstreams]
    /\ body \in [Requests -> RequestBodies \cup {NoBody}]
    /\ toCheck \in [Requests -> Seq(Methods)]
    /\ response \in [Requests -> Responses \cup {NoResponse}]
    /\ toRecord \in [Requests -> Seq(BOOLEAN)]
    /\ \A r \in Requests : RequestTypeOK(r)

BreakersOK ==
    /\ errorBreaker \in [Upstreams -> Breaker]
    /\ latencyBreaker \in [Upstreams -> [Methods -> Breaker \cup {NoBreaker}]]
    /\ \A u \in Upstreams : GoodBreaker(errorBreaker[u])
    /\ \A u \in Upstreams, m \in Methods :
          latencyBreaker[u][m] # NoBreaker => GoodBreaker(latencyBreaker[u][m])

IInv == RequestsTypeOK /\ BreakersOK /\ \A r \in Requests : LookedUp(r)
-----------------------------------------------------------------------------
(* What the operations of a breaker do to a good one.                      *)

LEMMA BreakerFields ==
    ASSUME NEW b \in Breaker
    PROVE  /\ b.state \in {"closed", "open"} /\ b.failed \in Seq(BOOLEAN)
           /\ b.delay \in 0..BanWindow /\ b.ban \in 0..BanWindow
           /\ BanWindow \in Nat \ {0}
  BY BreakerConstants DEF Breaker

LEMMA TailTyped ==
    ASSUME NEW failed \in Seq(BOOLEAN), failed # <<>>
    PROVE  Tail(failed) \in Seq(BOOLEAN)
  OBVIOUS

LEMMA GoodNew == GoodBreaker(NewCircuitBreaker)
  BY BreakerConstants DEF GoodBreaker, NewCircuitBreaker, Breaker

LEMMA GoodRecord ==
    ASSUME NEW b, GoodBreaker(b), NEW f \in BOOLEAN, NEW percent
    PROVE  /\ GoodBreaker(Record(b, f, percent))
           /\ b.state = "open" => Record(b, f, percent) = b
  <1> DEFINE failed == Recorded(b.failed, f)
             opened == [state |-> "open", failed |-> <<>>,
                        delay |-> BanWindow, ban |-> BanWindow]
  <1>1. b \in Breaker /\ b.failed \in Seq(BOOLEAN)
    BY DEF GoodBreaker, Breaker
  <1>2. failed \in Seq(BOOLEAN)
    <2>1. CASE Len(b.failed) = WindowSize
      <3>1. b.failed # <<>>
        BY <1>1, <2>1, BreakerConstants
      <3>2. Tail(b.failed) \in Seq(BOOLEAN)
        BY <1>1, <3>1, TailTyped
      <3>3. failed = Append(Tail(b.failed), f)
        BY <2>1 DEF Recorded
      <3> HIDE DEF failed
      <3> QED
        BY <3>2, <3>3
    <2>2. CASE Len(b.failed) # WindowSize
      BY <1>1, <2>2 DEF Recorded
    <2> QED
      BY <2>1, <2>2
  <1> HIDE DEF failed
  <1>3. GoodBreaker(opened)
    BY BreakerConstants DEF GoodBreaker, Breaker
  <1>4. b.state # "open" => GoodBreaker([b EXCEPT !.failed = failed])
    BY <1>1, <1>2 DEF GoodBreaker, Breaker
  <1>5. /\ b.state = "open" => Record(b, f, percent) = b
        /\ \/ Record(b, f, percent) = b
           \/ Record(b, f, percent) = opened
           \/ /\ b.state # "open"
              /\ Record(b, f, percent) = [b EXCEPT !.failed = failed]
    BY DEF Record, failed
  <1> QED
    BY <1>3, <1>4, <1>5

LEMMA GoodClose ==
    ASSUME NEW b, GoodBreaker(b)
    PROVE  GoodBreaker(Close(b))
  <1>1. b \in Breaker
    BY DEF GoodBreaker
  <1>2. CASE b.state = "open"
    <2>1. Close(b) = [state |-> "closed", failed |-> <<>>, delay |-> 0, ban |-> b.ban]
      BY <1>2 DEF Close, NewCircuitBreaker
    <2> QED
      BY <1>1, <2>1, BreakerFields DEF GoodBreaker, Breaker
  <1>3. CASE b.state # "open"
    BY <1>3 DEF Close
  <1> QED
    BY <1>2, <1>3

\* Time counts the delay and the ban down together.
LEMMA GoodTick ==
    ASSUME NEW b, GoodBreaker(b)
    PROVE  /\ GoodBreaker(Tick(b))
           /\ Tick(b).state = b.state
           /\ Tick(b).ban \in Nat
  <1>1. /\ b \in Breaker /\ b.delay \in 0..BanWindow /\ b.ban \in 0..BanWindow
        /\ BanWindow \in Nat
    BY BreakerFields DEF GoodBreaker
  <1>2. Less(b.delay) \in 0..BanWindow /\ Less(b.ban) \in 0..BanWindow
    BY <1>1 DEF Less
  <1>3. Tick(b) = [b EXCEPT !.delay = Less(b.delay), !.ban = Less(b.ban)]
    BY DEF Tick
  <1>4. /\ Tick(b) \in Breaker /\ Tick(b).state = b.state
        /\ Tick(b).delay = Less(b.delay) /\ Tick(b).ban = Less(b.ban)
    BY <1>1, <1>2, <1>3 DEF Breaker
  <1> QED
    BY <1>1, <1>2, <1>4 DEF GoodBreaker

LEMMA GoodExpire ==
    ASSUME NEW b, GoodBreaker(b)
    PROVE  /\ GoodBreaker(Expire(b))
           /\ Expire(b).state = b.state
           /\ Expire(b).ban = b.ban
  <1> DEFINE failed == IF b.failed = <<>> THEN b.failed ELSE Tail(b.failed)
  <1>1. b \in Breaker /\ b.failed \in Seq(BOOLEAN)
    BY DEF GoodBreaker, Breaker
  <1>2. failed \in Seq(BOOLEAN)
    <2>1. CASE b.failed = <<>>
      BY <1>1, <2>1
    <2>2. CASE b.failed # <<>>
      <3>1. Tail(b.failed) \in Seq(BOOLEAN)
        BY <1>1, <2>2, TailTyped
      <3> QED
        BY <2>2, <3>1
    <2> QED
      BY <2>1, <2>2
  <1>3. Expire(b) = [b EXCEPT !.failed = failed]
    BY DEF Expire
  <1> HIDE DEF failed
  <1> QED
    BY <1>1, <1>2, <1>3 DEF GoodBreaker, Breaker

\* What a response makes RecordRequest record is a sequence of outcomes.
LEMMA OutcomesTyped ==
    ASSUME NEW d \in Responses
    PROVE  RecordedErrors(d) \in Seq(BOOLEAN)
  <1>1. d \in RequestData
    BY BansConstants
  <1>2. CASE WithoutRPC(d)
    <2>1. isError(d.httpCode, <<>>, d.error) \in BOOLEAN
      BY DEF isError
    <2>2. RecordedErrors(d) = <<isError(d.httpCode, <<>>, d.error)>>
      BY <1>2 DEF RecordedErrors
    <2> HIDE DEF isError
    <2> QED
      BY <2>1, <2>2
  <1>3. CASE ~WithoutRPC(d)
    <2> DEFINE Body == Seq([error : BOOLEAN, code : Code, message : Message])
               recorded(i) == /\ d.body[i].error
                              /\ isError(<<>>, d.body[i].code, d.body[i].message)
    <2>1. d.body \in Body
      BY <1>1, <1>3 DEF RequestData, WithoutRPC
    <2>2. \A i \in DOMAIN d.body : recorded(i) \in BOOLEAN
      OBVIOUS
    <2>3. RecordedErrors(d) = [i \in DOMAIN d.body |-> recorded(i)]
      BY <1>3 DEF RecordedErrors
    <2>4. DOMAIN d.body = 1..Len(d.body) /\ Len(d.body) \in Nat
      BY <2>1
    <2> HIDE DEF recorded
    <2>5. RecordedErrors(d) \in [1..Len(d.body) -> BOOLEAN]
      BY <2>2, <2>3, <2>4
    <2> QED
      BY <2>4, <2>5
  <1> QED
    BY <1>2, <1>3
-----------------------------------------------------------------------------
(* Types.                                                                  *)

\* The methods of a request body are keys of the latency breakers.
LEMMA BodyMethods ==
    ASSUME NEW b \in RequestBodies
    PROVE  b.method \in Methods /\ b.methods \in Seq(Methods)
  BY BansConstants

LEMMA HeadTail ==
    ASSUME NEW S, NEW s \in Seq(S), s # <<>>
    PROVE  Head(s) \in S /\ Tail(s) \in Seq(S)
  OBVIOUS

\* A step of a request leaves what belongs to the others alone.
Apart(r, s) ==
    UNCHANGED <<pc[s], upstream[s], body[s], toCheck[s], response[s], toRecord[s]>>

LEMMA OthersApart ==
    ASSUME RequestsTypeOK, NEW r \in Requests, NEW s \in Requests, r # s,
           Arrive(r) \/ Filter(r) \/ Respond(r) \/ RecordRequest(r)
    PROVE  Apart(r, s)
  <1> USE DEF RequestsTypeOK, Goes, Returns, NextMethod, Apart
  <1>1. CASE Arrive(r)
    BY <1>1 DEF Arrive
  <1>2. CASE Filter(r)
    <2>1. CASE ErrorBanned(r) \/ ReadErrorDelay(r) \/ CloseErrors(r) \/ Lock(r)
      BY <2>1 DEF ErrorBanned, ReadErrorDelay, CloseErrors, Lock
    <2>2. CASE SkipMethod(r) \/ LatencyBanned(r) \/ ReadLatencyDelay(r)
      BY <2>2 DEF SkipMethod, LatencyBanned, ReadLatencyDelay
    <2>3. CASE CloseLatencies(r) \/ LeaveFilter(r)
      BY <2>3 DEF CloseLatencies, LeaveFilter
    <2> QED
      BY <1>2, <2>1, <2>2, <2>3 DEF Filter
  <1>3. CASE Respond(r)
    BY <1>3 DEF Respond
  <1>4. CASE RecordRequest(r)
    BY <1>4 DEF RecordRequest, RecordResponse, ErrorsRecorded, LookUpBreaker,
                RecordLatency
  <1> QED
    BY <1>1, <1>2, <1>3, <1>4

\* What a goroutine that returns leaves behind.
LEMMA ReturnsTyped ==
    ASSUME RequestsTypeOK, NEW r \in Requests, NEW from, Returns(r, from),
           lock' \in [Upstreams -> Requests \cup {NoRequest}]
    PROVE  RequestsTypeOK'
  BY DEF RequestsTypeOK, RequestTypeOK, Returns, Goes

LEMMA FilterTyped ==
    ASSUME RequestsTypeOK, NEW r \in Requests, LookedUp(r), Filter(r)
    PROVE  RequestsTypeOK'
  <1>0. /\ lock \in [Upstreams -> Requests \cup {NoRequest}]
        /\ upstream[r] \in Upstreams
        /\ lock' \in [Upstreams -> Requests \cup {NoRequest}]
    BY DEF RequestsTypeOK, Filter, ErrorBanned, ReadErrorDelay, CloseErrors, Lock,
           SkipMethod, LatencyBanned, ReadLatencyDelay, CloseLatencies, LeaveFilter,
           Unlock
  <1>1. ASSUME NEW from, Returns(r, from) PROVE RequestsTypeOK'
    BY <1>0, <1>1, ReturnsTyped
  <1>2. CASE ErrorBanned(r) \/ LatencyBanned(r)
    BY <1>1, <1>2 DEF ErrorBanned, LatencyBanned
  <1>3. CASE ReadErrorDelay(r) \/ CloseErrors(r) \/ ReadLatencyDelay(r)
    BY <1>0, <1>3 DEF ReadErrorDelay, CloseErrors, ReadLatencyDelay, Goes,
                      RequestsTypeOK, RequestTypeOK
  <1>4. CASE Lock(r)
    <2>1. body[r].methods \in Seq(Methods)
      BY <1>4, BodyMethods DEF Lock, Goes, RequestsTypeOK, RequestTypeOK
    <2> QED
      BY <1>0, <1>4, <2>1 DEF Lock, Goes, RequestsTypeOK, RequestTypeOK
  <1>5. CASE SkipMethod(r)
    <2>1. Tail(toCheck[r]) \in Seq(Methods)
      BY <1>5, HeadTail DEF SkipMethod, RequestsTypeOK
    <2> QED
      BY <1>0, <1>5, <2>1 DEF SkipMethod, NextMethod, RequestsTypeOK, RequestTypeOK
  <1>6. CASE CloseLatencies(r)
    <2>1. Tail(toCheck[r]) \in Seq(Methods)
      BY <1>6, HeadTail DEF CloseLatencies, Goes, LookedUp, RequestsTypeOK
    <2> QED
      BY <1>0, <1>6, <2>1 DEF CloseLatencies, Goes, NextMethod, RequestsTypeOK,
                              RequestTypeOK
  <1>7. CASE LeaveFilter(r)
    <2>1. CASE Goes(r, "methods", "sent")
               /\ UNCHANGED <<upstream, body, toCheck, response, toRecord>>
      BY <1>0, <2>1 DEF Goes, RequestsTypeOK, RequestTypeOK
    <2> QED
      BY <1>1, <1>7, <2>1 DEF LeaveFilter
  <1> QED
    BY <1>2, <1>3, <1>4, <1>5, <1>6, <1>7 DEF Filter

LEMMA RecordTyped ==
    ASSUME RequestsTypeOK, NEW r \in Requests, RecordRequest(r)
    PROVE  RequestsTypeOK'
  <1>0. lock' = lock /\ lock \in [Upstreams -> Requests \cup {NoRequest}]
    BY DEF RequestsTypeOK, RecordRequest, RecordResponse, ErrorsRecorded,
           LookUpBreaker, RecordLatency
  <1>1. CASE RecordResponse(r)
    <2>1. Tail(toRecord[r]) \in Seq(BOOLEAN)
      BY <1>1, HeadTail DEF RecordResponse, RequestsTypeOK
    <2> QED
      BY <1>1, <2>1 DEF RecordResponse, RequestsTypeOK, RequestTypeOK
  <1>2. CASE (ErrorsRecorded(r) /\ ReturnsError(response[r])) \/ RecordLatency(r)
    BY <1>0, <1>2, ReturnsTyped DEF ErrorsRecorded, RecordLatency
  <1>3. CASE ErrorsRecorded(r) /\ ~ReturnsError(response[r])
    BY <1>0, <1>3 DEF ErrorsRecorded, Goes, RequestsTypeOK, RequestTypeOK
  <1>4. CASE LookUpBreaker(r)
    BY <1>0, <1>4 DEF LookUpBreaker, Goes, RequestsTypeOK, RequestTypeOK
  <1> QED
    BY <1>1, <1>2, <1>3, <1>4 DEF RecordRequest

LEMMA RequestsTyped == IInv /\ [Next]_vars => RequestsTypeOK'
  <1> SUFFICES ASSUME IInv, [Next]_vars PROVE RequestsTypeOK'
    OBVIOUS
  <1>0. RequestsTypeOK /\ \A r \in Requests : LookedUp(r)
    BY DEF IInv
  <1>1. ASSUME NEW r \in Requests, Arrive(r) PROVE RequestsTypeOK'
    BY <1>0, <1>1 DEF Arrive, Goes, RequestsTypeOK, RequestTypeOK
  <1>2. ASSUME NEW r \in Requests, Filter(r) PROVE RequestsTypeOK'
    BY <1>0, <1>2, FilterTyped
  <1>3. ASSUME NEW r \in Requests, Respond(r) PROVE RequestsTypeOK'
    <2>1. PICK d \in Responses :
            /\ response' = [response EXCEPT ![r] = d]
            /\ toRecord' = [toRecord EXCEPT ![r] = RecordedErrors(d)]
      BY <1>3 DEF Respond
    <2>2. toRecord' \in [Requests -> Seq(BOOLEAN)]
      BY <1>0, <2>1, OutcomesTyped DEF RequestsTypeOK
    <2> QED
      BY <1>0, <1>3, <2>1, <2>2 DEF Respond, Goes, RequestsTypeOK, RequestTypeOK
  <1>4. ASSUME NEW r \in Requests, RecordRequest(r) PROVE RequestsTypeOK'
    BY <1>0, <1>4, RecordTyped
  <1>5. CASE Advance \/ Forget \/ UNCHANGED vars
    BY <1>0, <1>5 DEF Advance, Forget, ForAllBreakers, vars, requestVars,
                      RequestsTypeOK, RequestTypeOK
  <1> QED
    BY <1>1, <1>2, <1>3, <1>4, <1>5 DEF Next
-----------------------------------------------------------------------------
(* What steps do to the breakers.                                          *)

\* All that happens to the breakers, one breaker at a time or with time.
LEMMA BreakerSteps ==
    [Next]_vars =>
        \/ UNCHANGED <<errorBreaker, latencyBreaker>>
        \/ \E r \in Requests :
              \/ CloseErrors(r) \/ RecordResponse(r)
              \/ CloseLatencies(r) \/ LookUpBreaker(r) \/ RecordLatency(r)
        \/ Advance
        \/ Forget
  BY DEF Next, Arrive, Filter, ErrorBanned, ReadErrorDelay, Lock, SkipMethod,
         LatencyBanned, ReadLatencyDelay, LeaveFilter, Respond, RecordRequest,
         ErrorsRecorded, vars

\* A new breaker for the errors of u, or for the latencies of u and m.
SetsErrors(u, b) ==
    /\ errorBreaker' = [errorBreaker EXCEPT ![u] = b]
    /\ UNCHANGED latencyBreaker

SetsLatencies(u, m, b) ==
    /\ latencyBreaker' = [latencyBreaker EXCEPT ![u][m] = b]
    /\ UNCHANGED errorBreaker

LEMMA SetsGood ==
    ASSUME BreakersOK, NEW u \in Upstreams, NEW m \in Methods, NEW b,
           GoodBreaker(b), SetsErrors(u, b) \/ SetsLatencies(u, m, b)
    PROVE  BreakersOK'
  <1>1. b \in Breaker
    BY DEF GoodBreaker
  <1>2. CASE SetsErrors(u, b)
    BY <1>1, <1>2 DEF BreakersOK, SetsErrors
  <1>3. CASE SetsLatencies(u, m, b)
    <2>1. latencyBreaker' \in [Upstreams -> [Methods -> Breaker \cup {NoBreaker}]]
      BY <1>1, <1>3 DEF BreakersOK, SetsLatencies
    <2>2. \A v \in Upstreams, n \in Methods :
            latencyBreaker'[v][n] = IF v = u /\ n = m THEN b ELSE latencyBreaker[v][n]
      BY <1>1, <1>3 DEF BreakersOK, SetsLatencies
    <2> QED
      BY <1>3, <2>1, <2>2 DEF BreakersOK, SetsLatencies
  <1> QED
    BY <1>2, <1>3

(***************************************************************************)
(* A step of a request makes one good breaker of another, and leaves an    *)
(* open one alone unless the request is a filter that closes it.           *)
(***************************************************************************)
MakesErrors(r, u, b) ==
    /\ SetsErrors(u, b)
    /\ GoodBreaker(b)
    /\ \/ r \in ErrorClosers(u)
       \/ errorBreaker[u].state = "open" => b = errorBreaker[u]

MakesLatencies(r, u, m, b) ==
    /\ SetsLatencies(u, m, b)
    /\ GoodBreaker(b)
    /\ \/ r \in LatencyClosers(u, m)
       \/ LatencyState(u, m) = "open" => b = latencyBreaker[u][m]

LEMMA ErrorSteps ==
    ASSUME IInv, NEW r \in Requests, CloseErrors(r) \/ RecordResponse(r)
    PROVE  \E u \in Upstreams : \E b : MakesErrors(r, u, b)
  <1> DEFINE u == upstream[r]
  <1>1. u \in Upstreams /\ GoodBreaker(errorBreaker[u])
    BY DEF IInv, RequestsTypeOK, BreakersOK
  <1>2. CASE CloseErrors(r)
    <2>1. SetsErrors(u, Close(errorBreaker[u])) /\ r \in ErrorClosers(u)
      BY <1>2 DEF CloseErrors, Goes, SetsErrors, ErrorClosers
    <2> QED
      BY <1>1, <2>1, GoodClose DEF MakesErrors
  <1>3. CASE RecordResponse(r)
    <2>1. toRecord[r] \in Seq(BOOLEAN) /\ toRecord[r] # <<>>
      BY <1>3 DEF IInv, RequestsTypeOK, RecordResponse
    <2>2. PICK f \in BOOLEAN : f = Head(toRecord[r])
      BY <2>1, HeadTail
    <2>3. SetsErrors(u, Record(errorBreaker[u], f, ErrorRate))
      BY <1>3, <2>2 DEF RecordResponse, SetsErrors
    <2> QED
      BY <1>1, <2>3, GoodRecord DEF MakesErrors
  <1> QED
    BY <1>2, <1>3

LEMMA LatencySteps ==
    ASSUME IInv, NEW r \in Requests,
           CloseLatencies(r) \/ LookUpBreaker(r) \/ RecordLatency(r)
    PROVE  \E u \in Upstreams, m \in Methods : \E b : MakesLatencies(r, u, m, b)
  <1> DEFINE u == upstream[r]
  <1>0. /\ u \in Upstreams /\ RequestsTypeOK /\ BreakersOK /\ LookedUp(r)
        /\ NoBreaker \notin Breaker
    BY BansConstants DEF IInv, RequestsTypeOK
  <1>1. ASSUME NEW m \in Methods, latencyBreaker[u][m] # NoBreaker
        PROVE  /\ GoodBreaker(latencyBreaker[u][m])
               /\ LatencyState(u, m) = latencyBreaker[u][m].state
    BY <1>0, <1>1 DEF BreakersOK, LatencyState
  <1>2. CASE CloseLatencies(r)
    <2>1. PICK m \in Methods : m = Head(toCheck[r])
      BY <1>0, <1>2, HeadTail DEF RequestsTypeOK, LookedUp, CloseLatencies, Goes
    <2>2. /\ latencyBreaker[u][m] # NoBreaker
          /\ SetsLatencies(u, m, Close(latencyBreaker[u][m]))
          /\ r \in LatencyClosers(u, m)
      BY <1>0, <1>2, <2>1
      DEF LookedUp, CloseLatencies, Goes, Checked, LatencyBreaker,
          SetLatencyBreaker, SetsLatencies, LatencyClosers
    <2> QED
      BY <1>0, <1>1, <2>2, GoodClose DEF MakesLatencies
  <1>3. ASSUME LookUpBreaker(r) \/ RecordLatency(r)
        PROVE  /\ body[r] \in RequestBodies
               /\ body[r].method \in Methods
    BY <1>0, <1>3, BodyMethods
    DEF LookUpBreaker, RecordLatency, Returns, Goes, RequestsTypeOK, RequestTypeOK
  <1>4. CASE LookUpBreaker(r)
    <2>1. PICK m \in Methods : m = body[r].method
      BY <1>3, <1>4
    <2>2. CASE latencyBreaker[u][m] = NoBreaker
      <3>1. SetsLatencies(u, m, NewCircuitBreaker)
        BY <1>4, <2>1, <2>2
        DEF LookUpBreaker, SetLatencyBreaker, Recording, LatencyBreaker, SetsLatencies
      <3> QED
        BY <1>0, <2>2, <3>1, GoodNew DEF MakesLatencies, LatencyState
    <2>3. CASE latencyBreaker[u][m] # NoBreaker
      <3>1. SetsLatencies(u, m, latencyBreaker[u][m])
        BY <1>4, <2>1, <2>3
        DEF LookUpBreaker, SetLatencyBreaker, Recording, LatencyBreaker, SetsLatencies
      <3> QED
        BY <1>0, <1>1, <2>3, <3>1 DEF MakesLatencies
    <2> QED
      BY <2>2, <2>3
  <1>5. CASE RecordLatency(r)
    <2>1. PICK m \in Methods : m = body[r].method
      BY <1>3, <1>5
    <2>2. response[r].slow \in BOOLEAN
      BY <1>0, <1>5, BansConstants
      DEF RecordLatency, Returns, Goes, RequestsTypeOK, RequestTypeOK, RequestData
    <2>3. PICK f \in BOOLEAN : f = response[r].slow
      BY <2>2
    <2>4. /\ latencyBreaker[u][m] # NoBreaker
          /\ SetsLatencies(u, m,
                Record(latencyBreaker[u][m], f, LatencyTooHighRate))
      BY <1>0, <1>5, <2>1, <2>3
      DEF RecordLatency, Returns, Goes, LookedUp, Recording, LatencyBreaker,
          SetLatencyBreaker, SetsLatencies
    <2> QED
      BY <1>0, <1>1, <2>4, GoodRecord DEF MakesLatencies
  <1> QED
    BY <1>2, <1>4, <1>5

\* Time passes for every breaker there is.
LEMMA TimeSteps ==
    ASSUME BreakersOK
    PROVE  /\ Advance =>
                /\ \A u \in Upstreams : errorBreaker'[u] = Tick(errorBreaker[u])
                /\ \A u \in Upstreams, m \in Methods :
                      latencyBreaker'[u][m] =
                         IF latencyBreaker[u][m] = NoBreaker THEN NoBreaker
                         ELSE Tick(latencyBreaker[u][m])
           /\ Forget =>
                /\ \A u \in Upstreams : errorBreaker'[u] = Expire(errorBreaker[u])
                /\ \A u \in Upstreams, m \in Methods :
                      latencyBreaker'[u][m] =
                         IF latencyBreaker[u][m] = NoBreaker THEN NoBreaker
                         ELSE Expire(latencyBreaker[u][m])
           /\ Advance \/ Forget => UNCHANGED <<lock, requestVars>>
  BY DEF Advance, Forget, ForAllBreakers

LEMMA BreakersKept == IInv /\ [Next]_vars => BreakersOK'
  <1> SUFFICES ASSUME IInv, [Next]_vars PROVE BreakersOK'
    OBVIOUS
  <1>0. BreakersOK
    BY DEF IInv
  <1>1. CASE UNCHANGED <<errorBreaker, latencyBreaker>>
    BY <1>0, <1>1 DEF BreakersOK
  <1>2. ASSUME NEW r \in Requests, CloseErrors(r) \/ RecordResponse(r)
        PROVE  BreakersOK'
    <2>1. PICK u \in Upstreams : \E b : MakesErrors(r, u, b)
      BY <1>2, ErrorSteps
    <2>2. PICK b : MakesErrors(r, u, b)
      BY <2>1
    <2> QED
      BY <1>0, <2>2 DEF MakesErrors, SetsErrors, GoodBreaker, BreakersOK
  <1>3. ASSUME NEW r \in Requests,
               CloseLatencies(r) \/ LookUpBreaker(r) \/ RecordLatency(r)
        PROVE  BreakersOK'
    <2>1. PICK u \in Upstreams, m \in Methods : \E b : MakesLatencies(r, u, m, b)
      BY <1>3, LatencySteps
    <2>2. PICK b : MakesLatencies(r, u, m, b)
      BY <2>1
    <2> QED
      BY <1>0, <2>2, SetsGood DEF MakesLatencies
  <1>4. ASSUME Advance \/ Forget,
               \A u \in Upstreams : GoodBreaker(errorBreaker'[u]),
               \A u \in Upstreams, m \in Methods :
                  latencyBreaker'[u][m] # NoBreaker =>
                     GoodBreaker(latencyBreaker'[u][m])
        PROVE  BreakersOK'
    <2>1. errorBreaker' = [u \in Upstreams |-> errorBreaker'[u]]
      BY <1>4 DEF Advance, Forget, ForAllBreakers
    <2>2. latencyBreaker' =
             [u \in Upstreams |-> [m \in Methods |-> latencyBreaker'[u][m]]]
      BY <1>4 DEF Advance, Forget, ForAllBreakers
    <2>3. errorBreaker' \in [Upstreams -> Breaker]
      BY <1>4, <2>1 DEF GoodBreaker
    <2>4. latencyBreaker' \in [Upstreams -> [Methods -> Breaker \cup {NoBreaker}]]
      BY <1>4, <2>2 DEF GoodBreaker
    <2> QED
      BY <1>4, <2>3, <2>4 DEF BreakersOK
  <1>5. CASE Advance
    BY <1>0, <1>4, <1>5, TimeSteps, GoodTick DEF BreakersOK
  <1>6. CASE Forget
    BY <1>0, <1>4, <1>6, TimeSteps, GoodExpire DEF BreakersOK
  <1> QED
    BY <1>1, <1>2, <1>3, <1>5, <1>6, BreakerSteps

\* A breaker that has been looked up is there for good.
LEMMA BreakersStay ==
    ASSUME IInv, [Next]_vars, NEW u \in Upstreams, NEW m \in Methods,
           latencyBreaker[u][m] # NoBreaker
    PROVE  latencyBreaker'[u][m] # NoBreaker
  <1>0. /\ BreakersOK /\ \A b : GoodBreaker(b) => b # NoBreaker
        /\ GoodBreaker(latencyBreaker[u][m])
    BY BansConstants DEF IInv, BreakersOK, GoodBreaker
  <1>1. CASE latencyBreaker' = latencyBreaker
    BY <1>1
  <1>2. ASSUME NEW r \in Requests,
               CloseLatencies(r) \/ LookUpBreaker(r) \/ RecordLatency(r)
        PROVE  latencyBreaker'[u][m] # NoBreaker
    <2>1. PICK v \in Upstreams, n \in Methods : \E b : MakesLatencies(r, v, n, b)
      BY <1>2, LatencySteps
    <2>2. PICK b : MakesLatencies(r, v, n, b)
      BY <2>1
    <2>3. latencyBreaker'[u][m] \in {b, latencyBreaker[u][m]} /\ GoodBreaker(b)
      BY <1>0, <2>2 DEF MakesLatencies, SetsLatencies, BreakersOK
    <2> QED
      BY <1>0, <2>3
  <1>3. ASSUME NEW r \in Requests, CloseErrors(r) \/ RecordResponse(r)
        PROVE  latencyBreaker' = latencyBreaker
    BY <1>3 DEF CloseErrors, RecordResponse
  <1>4. CASE Advance \/ Forget
    BY <1>0, <1>4, TimeSteps, GoodTick, GoodExpire
  <1> QED
    BY <1>1, <1>2, <1>3, <1>4, BreakerSteps

\* Only the two actions that look a breaker up take a goroutine to where it
\* needs one.
LEMMA LookedUpKept ==
    ASSUME IInv, [Next]_vars, NEW r \in Requests
    PROVE  LookedUp(r)'
  <1>0. /\ RequestsTypeOK /\ RequestsTypeOK' /\ BreakersOK /\ LookedUp(r)
        /\ \A b : GoodBreaker(b) => b # NoBreaker
    BY RequestsTyped, BansConstants DEF IInv, GoodBreaker
  <1>1. ASSUME UNCHANGED <<pc[r], upstream[r], body[r], toCheck[r]>>
        PROVE  LookedUp(r)'
    <2>1. CASE pc[r] = "closeLatencies"
      <3>1. /\ toCheck[r] # <<>> /\ Checked(r) # NoBreaker
            /\ upstream[r] \in Upstreams
        BY <1>0, <2>1 DEF LookedUp, RequestsTypeOK
      <3>2. Head(toCheck[r]) \in Methods
        BY <1>0, <3>1, HeadTail DEF RequestsTypeOK
      <3>3. PICK u \in Upstreams, m \in Methods :
               u = upstream[r] /\ m = Head(toCheck[r])
        BY <3>1, <3>2
      <3>4. latencyBreaker'[u][m] # NoBreaker
        BY <3>1, <3>3, BreakersStay DEF Checked, LatencyBreaker
      <3> QED
        BY <1>1, <2>1, <3>1, <3>3, <3>4 DEF LookedUp, Checked, LatencyBreaker
    <2>2. CASE pc[r] = "recordLatency"
      <3>1. /\ Recording(r) # NoBreaker
            /\ upstream[r] \in Upstreams /\ body[r].method \in Methods
        BY <1>0, <2>2, BodyMethods DEF LookedUp, RequestsTypeOK, RequestTypeOK
      <3>2. PICK u \in Upstreams, m \in Methods :
               u = upstream[r] /\ m = body[r].method
        BY <3>1
      <3>3. latencyBreaker'[u][m] # NoBreaker
        BY <3>1, <3>2, BreakersStay DEF Recording, LatencyBreaker
      <3> QED
        BY <1>1, <2>2, <3>2, <3>3 DEF LookedUp, Recording, LatencyBreaker
    <2> QED
      BY <1>1, <2>1, <2>2 DEF LookedUp
  <1>2. CASE ReadLatencyDelay(r)
    BY <1>0, <1>2 DEF ReadLatencyDelay, Goes, RequestsTypeOK, LookedUp, Checked,
                      LatencyBreaker
  <1>3. CASE LookUpBreaker(r)
    <2>1. PICK u \in Upstreams, m \in Methods :
             u = upstream[r] /\ m = body[r].method
      BY <1>0, <1>3, BodyMethods
      DEF LookUpBreaker, Goes, RequestsTypeOK, RequestTypeOK
    <2>2. PICK b : /\ b # NoBreaker
                   /\ latencyBreaker' = [latencyBreaker EXCEPT ![u][m] = b]
      BY <1>0, <1>3, <2>1, GoodNew
      DEF LookUpBreaker, SetLatencyBreaker, Recording, LatencyBreaker
    <2>3. latencyBreaker'[u][m] = b
      BY <1>0, <2>2 DEF BreakersOK
    <2> QED
      BY <1>0, <1>3, <2>1, <2>2, <2>3
      DEF LookUpBreaker, Goes, RequestsTypeOK, LookedUp, Recording, LatencyBreaker
  <1>4. ASSUME pc'[r] \notin {"closeLatencies", "recordLatency"}
        PROVE  LookedUp(r)'
    BY <1>4 DEF LookedUp
  <1>5. CASE \/ Arrive(r) \/ ErrorBanned(r) \/ ReadErrorDelay(r) \/ CloseErrors(r)
             \/ Lock(r) \/ LatencyBanned(r) \/ CloseLatencies(r) \/ LeaveFilter(r)
             \/ Respond(r) \/ ErrorsRecorded(r) \/ RecordLatency(r)
    BY <1>0, <1>4, <1>5
    DEF RequestsTypeOK, Goes, Returns, Arrive, ErrorBanned, ReadErrorDelay,
        CloseErrors, Lock, LatencyBanned, CloseLatencies, LeaveFilter, Respond,
        ErrorsRecorded, RecordLatency
  <1>6. CASE SkipMethod(r) \/ RecordResponse(r)
    BY <1>0, <1>4, <1>6 DEF SkipMethod, RecordResponse
  <1>7. ASSUME NEW s \in Requests, s # r,
               Arrive(s) \/ Filter(s) \/ Respond(s) \/ RecordRequest(s)
        PROVE  LookedUp(r)'
    BY <1>0, <1>1, <1>7, OthersApart DEF Apart
  <1>8. CASE Advance \/ Forget \/ UNCHANGED vars
    BY <1>1, <1>8 DEF Advance, Forget, ForAllBreakers, requestVars, vars
  <1> QED
    BY <1>2, <1>3, <1>5, <1>6, <1>7, <1>8 DEF Next, Filter, RecordRequest

LEMMA InitOK == Init => IInv
  <1> SUFFICES ASSUME Init PROVE IInv
    OBVIOUS
  <1>1. RequestsTypeOK
    BY DEF Init, RequestsTypeOK, RequestTypeOK
  <1>2. BreakersOK
    BY GoodNew DEF Init, BreakersOK, GoodBreaker
  <1>3. \A r \in Requests : LookedUp(r)
    BY DEF Init, LookedUp
  <1> QED
    BY <1>1, <1>2, <1>3 DEF IInv

LEMMA IInvKept == IInv /\ [Next]_vars => IInv'
  <1> SUFFICES ASSUME IInv, [Next]_vars PROVE IInv'
    OBVIOUS
  <1>1. RequestsTypeOK'
    BY RequestsTyped
  <1>2. BreakersOK'
    BY BreakersKept
  <1>3. \A r \in Requests : LookedUp(r)'
    BY LookedUpKept
  <1> QED
    BY <1>1, <1>2, <1>3 DEF IInv

THEOREM Invariance == Spec => []IInv
  BY InitOK, IInvKept, PTL DEF Spec

(***************************************************************************)
(* The state keeps its types: counts of a breaker's outcomes, delays and   *)
(* bans within their bounds, a body for every request being filtered or    *)
(* sent and an answer for every one being recorded.                        *)
(***************************************************************************)
THEOREM BansTyped == Spec => []TypeOK
  <1>1. IInv => TypeOK
    BY DEF IInv, RequestsTypeOK, RequestTypeOK, BreakersOK, TypeOK
  <1> QED
    BY <1>1, Invariance, PTL
-----------------------------------------------------------------------------
(* Bans last.                                                              *)

\* Only a filter that found no delay comes to close a breaker.
LEMMA NewErrorClosers ==
    ASSUME IInv, [Next]_vars, NEW u \in Upstreams,
           Settled(errorBreaker[u], ErrorClosers(u))
    PROVE  ErrorClosers(u)' = {}
  <1>0. RequestsTypeOK /\ BreakersOK
    BY DEF IInv
  <1>1. IsDelaying(errorBreaker[u])
    BY <1>0, BreakerFields DEF BreakersOK, GoodBreaker, Settled, IsDelaying
  <1> SUFFICES ASSUME NEW s \in Requests, (pc[s] = "closeErrors" /\ upstream[s] = u)'
               PROVE  FALSE
    BY DEF ErrorClosers
  <1>2. ~(pc[s] = "closeErrors" /\ upstream[s] = u)
    BY DEF Settled, ErrorClosers
  <1>3. CASE UNCHANGED <<pc[s], upstream[s]>>
    BY <1>2, <1>3
  <1>4. CASE ReadErrorDelay(s)
    BY <1>0, <1>1, <1>4 DEF ReadErrorDelay, RequestsTypeOK, ErrorBreaker
  <1>5. CASE \/ Arrive(s) \/ ErrorBanned(s) \/ CloseErrors(s) \/ Lock(s)
             \/ LatencyBanned(s) \/ ReadLatencyDelay(s) \/ CloseLatencies(s)
             \/ LeaveFilter(s) \/ Respond(s) \/ ErrorsRecorded(s)
             \/ LookUpBreaker(s) \/ RecordLatency(s)
    BY <1>0, <1>5
    DEF RequestsTypeOK, Goes, Returns, Arrive, ErrorBanned, CloseErrors, Lock,
        LatencyBanned, ReadLatencyDelay, CloseLatencies, LeaveFilter, Respond,
        ErrorsRecorded, LookUpBreaker, RecordLatency
  <1>6. CASE SkipMethod(s) \/ RecordResponse(s)
    BY <1>3, <1>6 DEF SkipMethod, RecordResponse
  <1>7. ASSUME NEW r \in Requests, r # s,
               Arrive(r) \/ Filter(r) \/ Respond(r) \/ RecordRequest(r)
        PROVE  UNCHANGED <<pc[s], upstream[s]>>
    BY <1>0, <1>7, OthersApart DEF Apart
  <1>8. CASE Advance \/ Forget \/ UNCHANGED vars
    BY <1>3, <1>8 DEF Advance, Forget, ForAllBreakers, requestVars, vars
  <1> QED
    BY <1>3, <1>4, <1>5, <1>6, <1>7, <1>8 DEF Next, Filter, RecordRequest

LEMMA NewLatencyClosers ==
    ASSUME IInv, [Next]_vars, NEW u \in Upstreams, NEW m \in Methods,
           LatencySettled(u, m)
    PROVE  LatencyClosers(u, m)' = {}
  <1>0. RequestsTypeOK /\ BreakersOK
    BY DEF IInv
  <1>1. IsDelaying(latencyBreaker[u][m])
    BY <1>0, BreakerFields
    DEF BreakersOK, GoodBreaker, LatencySettled, Settled, IsDelaying
  <1> DEFINE Closes(s) ==
        pc[s] = "closeLatencies" /\ upstream[s] = u /\ Head(toCheck[s]) = m
  <1> SUFFICES ASSUME NEW s \in Requests, Closes(s)'
               PROVE  FALSE
    BY DEF LatencyClosers
  <1>2. ~Closes(s)
    BY DEF LatencySettled, Settled, LatencyClosers
  <1>3. CASE UNCHANGED <<pc[s], upstream[s], toCheck[s]>>
    BY <1>2, <1>3
  <1>4. CASE ReadLatencyDelay(s)
    BY <1>0, <1>1, <1>4 DEF ReadLatencyDelay, RequestsTypeOK, Checked, LatencyBreaker
  <1>5. CASE \/ Arrive(s) \/ ErrorBanned(s) \/ ReadErrorDelay(s) \/ CloseErrors(s)
             \/ Lock(s) \/ LatencyBanned(s) \/ CloseLatencies(s)
             \/ LeaveFilter(s) \/ Respond(s) \/ ErrorsRecorded(s)
             \/ LookUpBreaker(s) \/ RecordLatency(s)
    BY <1>0, <1>5
    DEF RequestsTypeOK, Goes, Returns, Arrive, ErrorBanned, ReadErrorDelay,
        CloseErrors, Lock, LatencyBanned, CloseLatencies, LeaveFilter, Respond,
        ErrorsRecorded, LookUpBreaker, RecordLatency
  <1>6. CASE SkipMethod(s) \/ RecordResponse(s)
    BY <1>3, <1>6 DEF SkipMethod, RecordResponse
  <1>7. ASSUME NEW r \in Requests, r # s,
               Arrive(r) \/ Filter(r) \/ Respond(r) \/ RecordRequest(r)
        PROVE  UNCHANGED <<pc[s], upstream[s], toCheck[s]>>
    BY <1>0, <1>7, OthersApart DEF Apart
  <1>8. CASE Advance \/ Forget \/ UNCHANGED vars
    BY <1>3, <1>8 DEF Advance, Forget, ForAllBreakers, requestVars, vars
  <1> QED
    BY <1>3, <1>4, <1>5, <1>6, <1>7, <1>8 DEF Next, Filter, RecordRequest

\* What a step makes of the breakers of a settled ban.
LEMMA BannedErrorBreaker ==
    ASSUME IInv, [Next]_vars, NEW u \in Upstreams,
           Settled(errorBreaker[u], ErrorClosers(u))
    PROVE  /\ errorBreaker'[u].state = "open"
           /\ errorBreaker'[u].ban \in Nat
  <1>0. /\ BreakersOK /\ BreakersOK'
        /\ GoodBreaker(errorBreaker[u]) /\ errorBreaker[u].state = "open"
        /\ ErrorClosers(u) = {}
    BY BreakersKept DEF IInv, BreakersOK, Settled
  <1>1. errorBreaker'[u].ban \in Nat
    BY <1>0, BreakerFields DEF BreakersOK
  <1>2. CASE errorBreaker'[u] = errorBreaker[u]
    BY <1>0, <1>1, <1>2
  <1>3. ASSUME NEW r \in Requests, CloseErrors(r) \/ RecordResponse(r)
        PROVE  errorBreaker'[u] = errorBreaker[u]
    <2>1. PICK v \in Upstreams : \E b : MakesErrors(r, v, b)
      BY <1>3, ErrorSteps
    <2>2. PICK b : MakesErrors(r, v, b)
      BY <2>1
    <2> QED
      BY <1>0, <2>2 DEF MakesErrors, SetsErrors, BreakersOK
  <1>4. ASSUME NEW r \in Requests,
               CloseLatencies(r) \/ LookUpBreaker(r) \/ RecordLatency(r)
        PROVE  errorBreaker'[u] = errorBreaker[u]
    BY <1>4 DEF CloseLatencies, LookUpBreaker, RecordLatency
  <1>5. CASE Advance \/ Forget
    BY <1>0, <1>1, <1>5, TimeSteps, GoodTick, GoodExpire
  <1> QED
    BY <1>2, <1>3, <1>4, <1>5, BreakerSteps

LEMMA BannedLatencyBreaker ==
    ASSUME IInv, [Next]_vars, NEW u \in Upstreams, NEW m \in Methods,
           LatencySettled(u, m)
    PROVE  /\ latencyBreaker'[u][m] # NoBreaker
           /\ latencyBreaker'[u][m].state = "open"
           /\ latencyBreaker'[u][m].ban \in Nat
  <1> DEFINE b == latencyBreaker[u][m]
  <1>0. /\ BreakersOK /\ BreakersOK'
        /\ b # NoBreaker /\ GoodBreaker(b) /\ b.state = "open"
        /\ LatencyState(u, m) = "open" /\ LatencyClosers(u, m) = {}
    BY BreakersKept DEF IInv, BreakersOK, LatencySettled, Settled, LatencyState
  <1>1. latencyBreaker'[u][m] # NoBreaker
    BY <1>0, BreakersStay
  <1>2. latencyBreaker'[u][m].ban \in Nat
    BY <1>0, <1>1, BreakerFields DEF BreakersOK
  <1>3. CASE latencyBreaker'[u][m] = b
    BY <1>0, <1>1, <1>2, <1>3
  <1>4. ASSUME NEW r \in Requests,
               CloseLatencies(r) \/ LookUpBreaker(r) \/ RecordLatency(r)
        PROVE  latencyBreaker'[u][m] = b
    <2>1. PICK v \in Upstreams, n \in Methods : \E c : MakesLatencies(r, v, n, c)
      BY <1>4, LatencySteps
    <2>2. PICK c : MakesLatencies(r, v, n, c)
      BY <2>1
    <2>3. CASE v = u /\ n = m
      BY <1>0, <2>2, <2>3 DEF MakesLatencies, SetsLatencies, BreakersOK
    <2>4. CASE ~(v = u /\ n = m)
      BY <1>0, <2>2, <2>4 DEF MakesLatencies, SetsLatencies, BreakersOK
    <2> QED
      BY <2>3, <2>4
  <1>5. ASSUME NEW r \in Requests, CloseErrors(r) \/ RecordResponse(r)
        PROVE  latencyBreaker'[u][m] = b
    BY <1>5 DEF CloseErrors, RecordResponse
  <1>6. CASE Advance \/ Forget
    BY <1>0, <1>1, <1>2, <1>6, TimeSteps, GoodTick, GoodExpire
  <1> HIDE DEF b
  <1> QED
    BY <1>3, <1>4, <1>5, <1>6, BreakerSteps DEF b

(***************************************************************************)
(* A ban that no filter is judging when it is imposed lasts until its ban  *)
(* window has passed, whatever requests are recorded, looked up, filtered  *)
(* or answered meanwhile: for the breaker of errors of every upstream and  *)
(* the breaker of latencies of every upstream and method.                  *)
(***************************************************************************)
THEOREM BansHold == Spec => BansLast
  <1>1. ASSUME IInv, [Next]_vars, NEW u \in Upstreams
        PROVE  ErrorBanLasts(u)
    <2> SUFFICES ASSUME Settled(errorBreaker[u], ErrorClosers(u)),
                        errorBreaker'[u].ban # 0
                 PROVE  Settled(errorBreaker[u], ErrorClosers(u))'
      BY DEF ErrorBanLasts
    <2>1. ErrorClosers(u)' = {}
      BY <1>1, NewErrorClosers
    <2>2. /\ errorBreaker'[u].state = "open"
          /\ errorBreaker'[u].ban \in Nat
      BY <1>1, BannedErrorBreaker
    <2> QED
      BY <2>1, <2>2 DEF Settled
  <1>2. ASSUME IInv, [Next]_vars, NEW u \in Upstreams, NEW m \in Methods
        PROVE  LatencyBanLasts(u, m)
    <2> SUFFICES ASSUME LatencySettled(u, m), latencyBreaker'[u][m].ban # 0
                 PROVE  LatencySettled(u, m)'
      BY DEF LatencyBanLasts
    <2>1. LatencyClosers(u, m)' = {}
      BY <1>2, NewLatencyClosers
    <2>2. /\ latencyBreaker'[u][m] # NoBreaker
          /\ latencyBreaker'[u][m].state = "open"
          /\ latencyBreaker'[u][m].ban \in Nat
      BY <1>2, BannedLatencyBreaker
    <2> QED
      BY <2>1, <2>2 DEF LatencySettled, Settled
  <1>3. IInv /\ [Next]_vars =>
            [\A u \in Upstreams :
                /\ ErrorBanLasts(u)
                /\ \A m \in Methods : LatencyBanLasts(u, m)]_vars
    BY <1>1, <1>2
  <1> QED
    BY <1>3, Invariance, PTL DEF Spec, BansLast
=============================================================================
