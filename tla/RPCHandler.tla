----------------------------- MODULE RPCHandler -----------------------------
(***************************************************************************)
(* internal/server/rpc_handler.go: RPCHandler.ServeHTTP around the routing *)
(* and the executor.  A request that is no JSON RPC call is rejected, one  *)
(* that finds no healthy upstream is refused, and what the executor ends   *)
(* with becomes a status code and a body.                                  *)
(*                                                                         *)
(* Routing names an upstream or none in one step here; Routing.tla has it  *)
(* in detail.  The status of an origin that failed stands for any from 400 *)
(* on.                                                                     *)
(***************************************************************************)
EXTENDS RequestExecutor

CONSTANT Defects        \* bound: what is wrong with the requests of clients

ASSUME DefectsAssumption ==
    Defects \subseteq {"method", "contentType", "unreadable", "undecodable"}

VARIABLE response       \* what the client of each request got

vars == <<executorVars, response>>

Response(code, body) == [code |-> code, body |-> body]

NoResponse == Response("none", "none")

\* How ServeHTTP rejects what is not a call, for the first thing wrong with it:
\* the HTTP method, the content type, a body that cannot be read or decoded.
Rejection ==
    [method |-> Response("MethodNotAllowed", "message"),
     contentType |-> Response("UnsupportedMediaType", "message"),
     unreadable |-> Response("InternalServerError", "message"),
     undecodable |-> Response("BadRequest", "rpcError")]

\* route.NoHealthyUpstreamsError.
NoHealthyUpstreams == Response("ServiceUnavailable", "message")

\* What ServeHTTP makes of the outcome o when a was the origin's answer:
\* OriginError has the origin's status, if there was one; the content of a
\* DecodeError is passed on; an origin that answered nothing leaves no body;
\* and net/http closes the connection of a handler that panics.
ResponseTo(o, a) ==
    CASE o.kind = "panicked" -> Response("closed", "none")
      [] o.kind = "cached" -> Response("OK", "rpcResponse")
      [] o.kind = "answered" ->
            Response("OK", IF a = "empty" THEN "none" ELSE "rpcResponse")
      [] o.kind = "failed" /\ a = "undecodable" -> Response("OK", "raw")
      [] o.kind = "failed" /\ a = "httpError" -> Response("OriginStatus", "message")
      [] OTHER -> Response("InternalServerError", "message")

-----------------------------------------------------------------------------
TypeOK ==
    /\ ExecutorTypeOK
    /\ response \in [Requests ->
           {NoResponse, NoHealthyUpstreams} \cup {Rejection[d] : d \in Defects}
           \cup {ResponseTo([kind |-> k, age |-> 0], a) :
                    k \in {"unsent", "cached", "answered", "failed", "panicked"},
                    a \in Answers}]

Init ==
    /\ ExecutorInit
    /\ response = [r \in Requests |-> NoResponse]

Responds(r, resp) == response' = [response EXCEPT ![r] = resp]

\* A request that ServeHTTP answers itself.
RespondAtOnce(r, resp) ==
    /\ pc[r] = "idle"
    /\ writer[r].pc = "idle"
    /\ Responds(r, resp)
    /\ outcome' = [outcome EXCEPT ![r] = Ended("none", 0)]
    /\ origin' = [origin EXCEPT ![r] = NoOrigin]
    /\ UNCHANGED <<cacheVars, pc, query, throughCache, held, waited, writer>>

Reject(r) == \E d \in Defects : RespondAtOnce(r, Rejection[d])

Refuse(r) == RespondAtOnce(r, NoHealthyUpstreams)

\* A call that has been routed.
Route(r) == Arrive(r) /\ Responds(r, NoResponse)

\* A call that the executor cannot send to where it has been routed.
Unsent(r) ==
    /\ CannotSend(r)
    /\ Responds(r, ResponseTo(outcome'[r], NoAnswer))

\* The executor takes a step for it, and ServeHTTP responds after its last.
Execute(r) ==
    /\ HandleRequestParallel(r)
    /\ IF pc'[r] = "idle"
       THEN Responds(r, ResponseTo(outcome'[r], LastAnswer(r)'))
       ELSE UNCHANGED response

Background(r) == Set(r) /\ UNCHANGED response

Next ==
    \/ \E r \in Requests :
          \/ Reject(r) \/ Refuse(r) \/ Route(r) \/ Unsent(r)
          \/ Execute(r) \/ Background(r)
    \/ Tick /\ UNCHANGED response
    \/ DropEntry /\ UNCHANGED response

Spec == Init /\ [][Next]_vars

(***************************************************************************)
(* A request's goroutine runs, Redis answers or times out, and the origin  *)
(* answers (the HTTP client has no timeout: an assumption).                *)
(***************************************************************************)
FairSpec ==
    Spec /\ \A r \in Requests : WF_vars(Execute(r)) /\ WF_vars(Background(r))

-----------------------------------------------------------------------------
(***************************************************************************)
(* "Cache miss or error, proceed with the request to origin": no trouble   *)
(* with a cache fails a call, only the origin's last answer does, or that  *)
(* there is no request to send.  And "These errors indicates a cache miss  *)
(* and request failure to origin.  We want this error to bubble up": that  *)
(* answer always does, with the status of the origin when it has one, and  *)
(* a call that the origin failed is not sent to it again.  What cannot be  *)
(* decoded is passed on, as an answer.                                     *)
(***************************************************************************)
Failed == {"MethodNotAllowed", "UnsupportedMediaType", "BadRequest",
           "InternalServerError", "ServiceUnavailable", "OriginStatus"}

FailsWithOrigin ==
    \A r \in Requests :
        /\ outcome[r].kind # "none" =>
              /\ response[r].code \in Failed
                     <=> \/ LastAnswer(r) \in {"unreachable", "httpError"}
                         \/ outcome[r].kind = "unsent"
              /\ response[r].code = "OriginStatus" <=> LastAnswer(r) = "httpError"
              /\ response[r].body = "raw" <=> LastAnswer(r) = "undecodable"
        /\ origin[r].second # NoAnswer => origin[r].first \notin Failures

(***************************************************************************)
(* A call ends with a response, or with its connection closed, whatever    *)
(* the caches do and whatever the origin answers.                          *)
(***************************************************************************)
RequestsEnd ==
    \A r \in Requests :
        pc[r] # "idle" ~> pc[r] = "idle" /\ response[r] # NoResponse
=============================================================================
