---------------------------- MODULE UpstreamBans ----------------------------
(***************************************************************************)
(* internal/checks/error.go and latency.go with healthCheckManager's       *)
(* RecordRequest: how the outcomes of requests ban an upstream, and how    *)
(* the filters IsErrorRateAcceptable and IsLatencyAcceptable lift the ban. *)
(*                                                                         *)
(* Every request runs in its own goroutine.  The breakers are atomic, but  *)
(* ErrorStats.IsOpen and LatencyStats.IsOpen are two calls: they read the  *)
(* remaining delay and, if there is none, close the breaker.  The lock of  *)
(* LatencyCheck is held while a filter reads or a breaker is looked up,    *)
(* not while a latency is recorded.                                        *)
(***************************************************************************)
EXTENDS CircuitBreaker, ErrorMatching

CONSTANTS
    Upstreams, Requests,
    Methods,                    \* keys of methodLatencyBreaker: RPC methods, Batch
    Batch,                      \* "batch"
    RequestBodies,              \* what clients send
    Responses,                  \* what upstreams answer: httpCode, body, error,
                                \* and whether the latency reaches the threshold
    ErrorRate,                  \* errors.rate in percent
    LatencyTooHighRate,         \* 50 in the code
    NoBreaker, NoRequest, NoResponse

(***************************************************************************)
(* A request body has the methods of its subrequests, which the filters    *)
(* get (RequestMetadataParser.Parse), and a method of its own, by which    *)
(* its latency is recorded (GetMethod).                                    *)
(***************************************************************************)
SingleRequestBody(m) == [methods |-> <<m>>, method |-> m]

BatchRequestBody(ms) == [methods |-> ms, method |-> Batch]

ASSUME BansConstants ==
    /\ Responses \subseteq RequestData
    /\ NoBreaker \notin Breaker
    /\ Batch \in Methods
    /\ \A b \in RequestBodies :
          /\ b \in [methods : Seq(Methods), method : Methods]
          /\ b \in {SingleRequestBody(b.method), BatchRequestBody(b.methods)}

VARIABLES
    errorBreaker,        \* per upstream
    latencyBreaker,      \* per upstream and method; NoBreaker before first use
    lock,                \* LatencyCheck.lock: the request that holds it
    pc, upstream, body,
    toCheck,             \* the methods the latency filter still has to look at
    response,            \* the data of RecordRequest
    toRecord             \* the outcomes RecordRequest still has to record

requestVars == <<pc, upstream, body, toCheck, response, toRecord>>
vars == <<errorBreaker, latencyBreaker, lock, requestVars>>

TypeOK ==
    /\ errorBreaker \in [Upstreams -> Breaker]
    /\ latencyBreaker \in [Upstreams -> [Methods -> Breaker \cup {NoBreaker}]]
    /\ lock \in [Upstreams -> Requests \cup {NoRequest}]
    /\ pc \in [Requests -> {"idle", "errors", "closeErrors", "latencies",
                   "methods", "closeLatencies", "sent", "record", "lookup",
                   "recordLatency"}]
    /\ upstream \in [Requests -> Upstreams]
    /\ body \in [Requests -> RequestBodies \cup {NoBody}]
    /\ toCheck \in [Requests -> Seq(Methods)]
    /\ response \in [Requests -> Responses \cup {NoResponse}]
    /\ toRecord \in [Requests -> Seq(BOOLEAN)]
    /\ \A r \in Requests :
          /\ pc[r] # "idle" => body[r] \in RequestBodies
          /\ pc[r] \in {"record", "lookup", "recordLatency"} =>
                response[r] \in Responses

Init ==
    /\ errorBreaker = [u \in Upstreams |-> NewCircuitBreaker]
    /\ latencyBreaker = [u \in Upstreams |-> [m \in Methods |-> NoBreaker]]
    /\ lock = [u \in Upstreams |-> NoRequest]
    /\ pc = [r \in Requests |-> "idle"]
    /\ upstream \in [Requests -> Upstreams]
    /\ body = [r \in Requests |-> NoBody]
    /\ toCheck = [r \in Requests |-> <<>>]
    /\ response = [r \in Requests |-> NoResponse]
    /\ toRecord = [r \in Requests |-> <<>>]

Goes(r, from, to) == pc[r] = from /\ pc' = [pc EXCEPT ![r] = to]

\* The goroutine is done with this upstream.
Returns(r, from) ==
    /\ Goes(r, from, "idle")
    /\ body' = [body EXCEPT ![r] = NoBody]
    /\ toCheck' = [toCheck EXCEPT ![r] = <<>>]
    /\ response' = [response EXCEPT ![r] = NoResponse]
    /\ UNCHANGED <<upstream, toRecord>>

LatencyBreaker(r, m) == latencyBreaker[upstream[r]][m]

SetLatencyBreaker(r, m, b) ==
    latencyBreaker' = [latencyBreaker EXCEPT ![upstream[r]][m] = b]

Unlock(r) == lock' = [lock EXCEPT ![upstream[r]] = NoRequest]

-----------------------------------------------------------------------------
(* The filters of a request for one upstream.                              *)

Arrive(r) ==
    /\ Goes(r, "idle", "errors")
    /\ \E u \in Upstreams : upstream' = [upstream EXCEPT ![r] = u]
    /\ \E b \in RequestBodies : body' = [body EXCEPT ![r] = b]
    /\ UNCHANGED <<errorBreaker, latencyBreaker, lock, toCheck, response, toRecord>>

ErrorBreaker(r) == errorBreaker[upstream[r]]

\* ErrorStats.IsOpen: a banned upstream is filtered out.
ErrorBanned(r) ==
    /\ IsDelaying(ErrorBreaker(r))
    /\ Returns(r, "errors")
    /\ UNCHANGED <<errorBreaker, latencyBreaker, lock>>

\* Mutant: closes the breaker without looking at the delay.
ReadErrorDelayAlwaysCloses(r) ==
    /\ Goes(r, "errors", "closeErrors")
    /\ UNCHANGED <<errorBreaker, latencyBreaker, lock, upstream, body, toCheck,
                   response, toRecord>>

\* ErrorStats.IsOpen: the delay is over ...
ReadErrorDelay(r) ==
    /\ ~IsDelaying(ErrorBreaker(r))
    /\ Goes(r, "errors", "closeErrors")
    /\ UNCHANGED <<errorBreaker, latencyBreaker, lock, upstream, body, toCheck,
                   response, toRecord>>

\* ... so close the breaker.
CloseErrors(r) ==
    /\ Goes(r, "closeErrors", "latencies")
    /\ errorBreaker' = [errorBreaker EXCEPT ![upstream[r]] = Close(@)]
    /\ UNCHANGED <<latencyBreaker, lock, upstream, body, toCheck, response,
                   toRecord>>

\* LatencyCheck.IsPassing locks and looks at one method after the other.
Lock(r) ==
    /\ lock[upstream[r]] = NoRequest
    /\ lock' = [lock EXCEPT ![upstream[r]] = r]
    /\ Goes(r, "latencies", "methods")
    /\ toCheck' = [toCheck EXCEPT ![r] = body[r].methods]
    /\ UNCHANGED <<errorBreaker, latencyBreaker, upstream, body, response, toRecord>>

\* The breaker of the method that the filter is at.
Checked(r) == LatencyBreaker(r, Head(toCheck[r]))

NextMethod(r) == toCheck' = [toCheck EXCEPT ![r] = Tail(@)]

SkipMethod(r) ==
    /\ pc[r] = "methods"
    /\ toCheck[r] # <<>>
    /\ Checked(r) = NoBreaker
    /\ NextMethod(r)
    /\ UNCHANGED <<errorBreaker, latencyBreaker, lock, pc, upstream, body, response,
                   toRecord>>

\* Mutant: returns with the lock held.
LatencyBannedKeepsLock(r) ==
    /\ toCheck[r] # <<>>
    /\ Checked(r) # NoBreaker
    /\ IsDelaying(Checked(r))
    /\ Returns(r, "methods")
    /\ UNCHANGED <<errorBreaker, latencyBreaker, lock>>

\* LatencyStats.IsOpen: the upstream is banned for the method, and so for the
\* request, whatever breakers of other methods the loop has closed.
LatencyBanned(r) ==
    /\ toCheck[r] # <<>>
    /\ Checked(r) # NoBreaker
    /\ IsDelaying(Checked(r))
    /\ Returns(r, "methods")
    /\ Unlock(r)
    /\ UNCHANGED <<errorBreaker, latencyBreaker>>

\* Mutant: closes the breaker without looking at the delay.
ReadLatencyDelayAlwaysCloses(r) ==
    /\ toCheck[r] # <<>>
    /\ Checked(r) # NoBreaker
    /\ Goes(r, "methods", "closeLatencies")
    /\ UNCHANGED <<errorBreaker, latencyBreaker, lock, upstream, body, toCheck,
                   response, toRecord>>

\* LatencyStats.IsOpen: the delay is over ...
ReadLatencyDelay(r) ==
    /\ toCheck[r] # <<>>
    /\ Checked(r) # NoBreaker
    /\ ~IsDelaying(Checked(r))
    /\ Goes(r, "methods", "closeLatencies")
    /\ UNCHANGED <<errorBreaker, latencyBreaker, lock, upstream, body, toCheck,
                   response, toRecord>>

\* ... so close the breaker.
CloseLatencies(r) ==
    /\ Goes(r, "closeLatencies", "methods")
    /\ SetLatencyBreaker(r, Head(toCheck[r]), Close(Checked(r)))
    /\ NextMethod(r)
    /\ UNCHANGED <<errorBreaker, lock, upstream, body, response, toRecord>>

\* The filter passes.  The request may go to this upstream or to another.
LeaveFilter(r) ==
    /\ toCheck[r] = <<>>
    /\ \/ /\ Goes(r, "methods", "sent")
          /\ UNCHANGED <<upstream, body, toCheck, response, toRecord>>
       \/ Returns(r, "methods")
    /\ Unlock(r)
    /\ UNCHANGED <<errorBreaker, latencyBreaker>>
-----------------------------------------------------------------------------
(* healthCheckManager.RecordRequest for the answer of the upstream.        *)

Respond(r) ==
    /\ Goes(r, "sent", "record")
    /\ \E d \in Responses :
          /\ response' = [response EXCEPT ![r] = d]
          /\ toRecord' = [toRecord EXCEPT ![r] = RecordedErrors(d)]
    /\ UNCHANGED <<errorBreaker, latencyBreaker, lock, upstream, body, toCheck>>

\* One call of RecordResponse; a batch makes one for each subresponse.
RecordResponse(r) ==
    /\ pc[r] = "record"
    /\ toRecord[r] # <<>>
    /\ errorBreaker' = [errorBreaker EXCEPT ![upstream[r]] =
                           Record(@, Head(toRecord[r]), ErrorRate)]
    /\ toRecord' = [toRecord EXCEPT ![r] = Tail(@)]
    /\ UNCHANGED <<latencyBreaker, lock, pc, upstream, body, toCheck, response>>

\* The latency only counts if ErrorCheck.RecordRequest returned false.
ErrorsRecorded(r) ==
    /\ pc[r] = "record"
    /\ toRecord[r] = <<>>
    /\ IF ReturnsError(response[r]) THEN Returns(r, "record")
       ELSE /\ Goes(r, "record", "lookup")
            /\ UNCHANGED <<upstream, body, toCheck, response, toRecord>>
    /\ UNCHANGED <<errorBreaker, latencyBreaker, lock>>

\* The breaker that the latency counts in: of a batch it is the one of Batch,
\* which the filter of the batch has not looked at.
Recording(r) == LatencyBreaker(r, body[r].method)

\* getLatencyCircuitBreaker, under the lock.
LookUpBreaker(r) ==
    /\ lock[upstream[r]] = NoRequest
    /\ Goes(r, "lookup", "recordLatency")
    /\ SetLatencyBreaker(r, body[r].method,
          IF Recording(r) = NoBreaker THEN NewCircuitBreaker ELSE Recording(r))
    /\ UNCHANGED <<errorBreaker, lock, upstream, body, toCheck, response, toRecord>>

\* LatencyStats.RecordLatency, without the lock.
RecordLatency(r) ==
    /\ Returns(r, "recordLatency")
    /\ SetLatencyBreaker(r, body[r].method,
          Record(Recording(r), response[r].slow, LatencyTooHighRate))
    /\ UNCHANGED <<errorBreaker, lock>>

-----------------------------------------------------------------------------
(* Time.                                                                   *)

ForAllBreakers(Op(_)) ==
    /\ errorBreaker' = [u \in Upstreams |-> Op(errorBreaker[u])]
    /\ latencyBreaker' = [u \in Upstreams |-> [m \in Methods |->
          IF latencyBreaker[u][m] = NoBreaker THEN NoBreaker
          ELSE Op(latencyBreaker[u][m])]]
    /\ UNCHANGED <<lock, requestVars>>

Advance == ForAllBreakers(Tick)

\* Outcomes grow older than the detection window.
Forget == ForAllBreakers(Expire)

Filter(r) ==
    \/ ErrorBanned(r) \/ ReadErrorDelay(r) \/ CloseErrors(r)
    \/ Lock(r) \/ SkipMethod(r) \/ LatencyBanned(r) \/ ReadLatencyDelay(r)
    \/ CloseLatencies(r) \/ LeaveFilter(r)

RecordRequest(r) == RecordResponse(r) \/ ErrorsRecorded(r) \/ LookUpBreaker(r)
                    \/ RecordLatency(r)

Next ==
    \/ \E r \in Requests : Arrive(r) \/ Filter(r) \/ Respond(r) \/ RecordRequest(r)
    \/ Advance
    \/ Forget

Spec == Init /\ [][Next]_vars

(***************************************************************************)
(* Time passes and goroutines run; that requests of every kind keep        *)
(* arriving for every upstream is assumed only for the lifting of bans.  A *)
(* blocked Lock is granted in turn (sync.Mutex has a starvation mode).     *)
(***************************************************************************)
ArrivesFor(r, u, b) == Arrive(r) /\ upstream'[r] = u /\ body'[r] = b

Fairness ==
    /\ WF_vars(Advance)
    /\ \A r \in Requests :
          /\ SF_vars(Filter(r) \/ RecordRequest(r))
          /\ WF_vars(Respond(r))
    /\ \A u \in Upstreams, b \in RequestBodies :
          SF_vars(\E r \in Requests : ArrivesFor(r, u, b))

FairSpec == Spec /\ Fairness

-----------------------------------------------------------------------------
(***************************************************************************)
(* A ban ends: after the ban window the breaker is closed again, so that   *)
(* the upstream gets requests and new outcomes count, although only a      *)
(* filter that reads the breaker closes it.  Every filter reads the one of *)
(* errors.  One of latencies is read for requests of its method, and only  *)
(* if errors do not ban the upstream: so its ban may last for ever if they *)
(* do so again and again.  That of Batch, which no filter reads, does last *)
(* for ever, and keeps no request from the upstream.                       *)
(***************************************************************************)
LatencyState(u, m) ==
    IF latencyBreaker[u][m] = NoBreaker THEN "none" ELSE latencyBreaker[u][m].state

ErrorBanEnds(u) == errorBreaker[u].state = "open" ~> errorBreaker[u].state = "closed"

LatencyBanEnds(u, m) ==
    \/ LatencyState(u, m) = "open" ~> LatencyState(u, m) = "closed"
    \/ []<>IsDelaying(errorBreaker[u])

BansEnd ==
    \A u \in Upstreams :
        /\ ErrorBanEnds(u)
        /\ \A m \in Methods :
              SingleRequestBody(m) \in RequestBodies => LatencyBanEnds(u, m)

(***************************************************************************)
(* "We also must reset the circuit breaker manually if it is not supposed  *)
(* to be open" (error.go, latency.go): it is supposed to be until the ban  *)
(* window has passed, but a filter between the two calls of IsOpen closes  *)
(* a breaker that has just opened.  What the two calls still guarantee: a  *)
(* ban that no filter is judging when it is imposed lasts for the whole    *)
(* window.  As a step: if the breaker is open, ban time is left and no     *)
(* filter is between the two calls, then either the ban time runs out or   *)
(* all of this still holds after it.                                       *)
(***************************************************************************)
Settled(b, closers) == b.state = "open" /\ b.ban > 0 /\ closers = {}

ErrorClosers(u) == {r \in Requests : pc[r] = "closeErrors" /\ upstream[r] = u}

LatencyClosers(u, m) ==
    {r \in Requests : /\ pc[r] = "closeLatencies"
                      /\ upstream[r] = u
                      /\ Head(toCheck[r]) = m}

LatencySettled(u, m) ==
    /\ latencyBreaker[u][m] # NoBreaker
    /\ Settled(latencyBreaker[u][m], LatencyClosers(u, m))

ErrorBanLasts(u) ==
    Settled(errorBreaker[u], ErrorClosers(u)) =>
        \/ Settled(errorBreaker[u], ErrorClosers(u))'
        \/ errorBreaker'[u].ban = 0

LatencyBanLasts(u, m) ==
    LatencySettled(u, m) =>
        \/ LatencySettled(u, m)'
        \/ latencyBreaker'[u][m].ban = 0

BansLast ==
    [][\A u \in Upstreams :
          /\ ErrorBanLasts(u)
          /\ \A m \in Methods : LatencyBanLasts(u, m)]_vars
=============================================================================
