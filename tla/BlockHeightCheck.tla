-------------------------- MODULE BlockHeightCheck --------------------------
(***************************************************************************)
(* internal/checks/blockheight.go: how the gateway follows the block       *)
(* height of each upstream.  Two goroutines work on one BlockHeightCheck   *)
(* without a lock:                                                         *)
(*                                                                         *)
(*   the runner      NewBlockHeightChecker calls Initialize, then the      *)
(*                   HealthCheckManager calls RunCheck, one call at a time *)
(*                   (runChecksOnce waits for every check of a round);     *)
(*   the subscriber  started by subscribeNewHeads, it runs onNewHead and   *)
(*                   onError for what the Websockets client delivers.      *)
(*                                                                         *)
(* A step of either is one access to what the other can also see: a field  *)
(* of the check, a call of the store (atomic: ChainMetadataStore), a       *)
(* request to the node.  The node and the Ethereum client are external.    *)
(***************************************************************************)
EXTENDS MetadataStore, Sequences

CONSTANTS
    Configs,        \* the kinds of upstreams to consider
    MaxHead,        \* bound: the highest block of any node
    MaxBuffered     \* bound: heads the client buffers for the subscriber

\* useWS: a wsURL is configured and useWsForBlockHeight is not false.
\* travelsBack: the node may report a lower height later.
\* mayClose: the subscription may end with a nil error.
Config == [useWS : BOOLEAN, travelsBack : BOOLEAN, mayClose : BOOLEAN]

ASSUME CheckConstants ==
    /\ Configs \subseteq Config
    /\ MaxHead \in Nat /\ MaxBuffered \in Nat \ {0}
    /\ {"wsError", "httpError"} \subseteq Errors

VARIABLES
    config,           \* the kind of each upstream
    \* the node behind the upstream, and the client's subscription
    head,             \* the node's latest block
    link,             \* "none", "live", "broken" (an error is due), "closed"
    heads,            \* new heads the client holds for the subscriber
    \* the fields of the check
    useWSForBlockHeight, webSocketError, blockHeightError, blockHeight,
    httpClient,       \* whether it is not nil
    \* the goroutines
    runnerPC,
    answer,           \* the header the node answered the poll with
    subscriberPC,
    header            \* the argument of the running onNewHead

nodeVars == <<head, link, heads>>
fieldVars == <<useWSForBlockHeight, webSocketError, blockHeightError,
               blockHeight, httpClient>>
runnerVars == <<runnerPC, answer>>
subscriberVars == <<subscriberPC, header>>
vars == <<config, storeVars, nodeVars, fieldVars, runnerVars, subscriberVars>>

Optional == Errors \cup {NoError}

TypeOK ==
    /\ config \in [Upstreams -> Config]
    /\ StoreTypeOK
    /\ head \in [Upstreams -> Nat]
    /\ link \in [Upstreams -> {"none", "live", "broken", "closed"}]
    /\ heads \in [Upstreams -> Seq(Nat)]
    /\ useWSForBlockHeight \in [Upstreams -> BOOLEAN]
    /\ webSocketError \in [Upstreams -> Optional]
    /\ blockHeightError \in [Upstreams -> Optional]
    /\ blockHeight \in [Upstreams -> Nat]
    /\ httpClient \in [Upstreams -> BOOLEAN]
    /\ runnerPC \in [Upstreams -> {"initWS", "initHTTP", "idle", "reinitHTTP",
                       "request", "inflight", "observe", "initError"}]
    /\ answer \in [Upstreams -> Nat]
    /\ subscriberPC \in [Upstreams -> {"none", "select", "observe", "clearWS",
                       "clear", "clearStore", "fail", "failStore", "done"}]
    /\ header \in [Upstreams -> Nat]

Init ==
    /\ config \in [Upstreams -> Configs]
    /\ StoreInit
    /\ head = [u \in Upstreams |-> 1]
    /\ link = [u \in Upstreams |-> "none"]
    /\ heads = [u \in Upstreams |-> <<>>]
    /\ useWSForBlockHeight = [u \in Upstreams |-> FALSE]
    /\ webSocketError = [u \in Upstreams |-> NoError]
    /\ blockHeightError = [u \in Upstreams |-> NoError]
    /\ blockHeight = [u \in Upstreams |-> 0]
    /\ httpClient = [u \in Upstreams |-> FALSE]
    /\ runnerPC = [u \in Upstreams |-> "initWS"]
    /\ answer = [u \in Upstreams |-> 0]
    /\ subscriberPC = [u \in Upstreams |-> "none"]
    /\ header = [u \in Upstreams |-> 0]

RunnerGoes(u, from, to) ==
    /\ runnerPC[u] = from
    /\ runnerPC' = [runnerPC EXCEPT ![u] = to]

SubscriberGoes(u, from, to) ==
    /\ subscriberPC[u] = from
    /\ subscriberPC' = [subscriberPC EXCEPT ![u] = to]

-----------------------------------------------------------------------------
(* The node and the client's subscription.                                 *)

\* A new block, announced to the subscriber of a live subscription.
NewBlock(u) ==
    /\ head[u] < MaxHead
    /\ link[u] = "live" => Len(heads[u]) < MaxBuffered
    /\ head' = [head EXCEPT ![u] = @ + 1]
    /\ heads' = [heads EXCEPT ![u] =
                    IF link[u] = "live" THEN Append(@, head[u] + 1) ELSE @]
    /\ UNCHANGED <<config, storeVars, link, fieldVars, runnerVars,
                   subscriberVars>>

TravelBack(u) ==
    /\ config[u].travelsBack
    /\ head[u] > 1
    /\ head' = [head EXCEPT ![u] = @ - 1]
    /\ UNCHANGED <<config, storeVars, link, heads, fieldVars, runnerVars,
                   subscriberVars>>

\* The connection is lost: subscription.Err() will yield an error, or a nil
\* error if the client was closed.
LoseLink(u) ==
    /\ link[u] = "live"
    /\ \/ link' = [link EXCEPT ![u] = "broken"]
       \/ config[u].mayClose /\ link' = [link EXCEPT ![u] = "closed"]
    /\ UNCHANGED <<config, storeVars, head, heads, fieldVars, runnerVars,
                   subscriberVars>>

-----------------------------------------------------------------------------
(* The runner: Initialize.                                                 *)

InitializeWithoutWS(u) ==
    /\ ~config[u].useWS
    /\ RunnerGoes(u, "initWS", "initHTTP")
    /\ UNCHANGED <<config, storeVars, nodeVars, fieldVars, answer,
                   subscriberVars>>

\* subscribeNewHead fails to get a client or to subscribe.
SubscribeFails(u) ==
    /\ config[u].useWS
    /\ RunnerGoes(u, "initWS", "initHTTP")
    /\ useWSForBlockHeight' = [useWSForBlockHeight EXCEPT ![u] = TRUE]
    /\ webSocketError' = [webSocketError EXCEPT ![u] = "wsError"]
    /\ UNCHANGED <<config, storeVars, nodeVars, blockHeightError, blockHeight,
                   httpClient, answer, subscriberVars>>

Subscribe(u) ==
    /\ config[u].useWS
    /\ RunnerGoes(u, "initWS", "initHTTP")
    /\ useWSForBlockHeight' = [useWSForBlockHeight EXCEPT ![u] = TRUE]
    /\ link' = [link EXCEPT ![u] = "live"]
    /\ SubscriberGoes(u, "none", "select")
    /\ UNCHANGED <<config, storeVars, head, heads, webSocketError,
                   blockHeightError, blockHeight, httpClient, answer, header>>

\* initializeHTTP, called from Initialize and again by a RunCheck that finds
\* no client; the latter goes on to poll.
InitializeHTTP(u) ==
    /\ \/ RunnerGoes(u, "initHTTP", "idle")
       \/ RunnerGoes(u, "reinitHTTP", "request")
    /\ httpClient' = [httpClient EXCEPT ![u] = TRUE]
    /\ UNCHANGED <<config, storeVars, nodeVars, useWSForBlockHeight,
                   webSocketError, blockHeightError, blockHeight, answer,
                   subscriberVars>>

InitializeHTTPFails(u) ==
    /\ \/ RunnerGoes(u, "initHTTP", "initError")
       \/ RunnerGoes(u, "reinitHTTP", "initError")
    /\ blockHeightError' = [blockHeightError EXCEPT ![u] = "httpError"]
    /\ UNCHANGED <<config, storeVars, nodeVars, useWSForBlockHeight,
                   webSocketError, blockHeight, httpClient, answer,
                   subscriberVars>>

\* The rest of setError.  Without a client a RunCheck then does nothing.
StoreInitError(u) ==
    /\ RunnerGoes(u, "initError", "idle")
    /\ ProcessErrorUpdate(u, "httpError")
    /\ UNCHANGED <<config, nodeVars, fieldVars, answer, subscriberVars>>
-----------------------------------------------------------------------------
(* The runner: RunCheck.                                                   *)

\* Mutant: polls over HTTP all the time.
RunCheckAlways(u) ==
    /\ RunnerGoes(u, "idle", IF httpClient[u] THEN "request" ELSE "reinitHTTP")
    /\ UNCHANGED <<config, storeVars, nodeVars, fieldVars, answer,
                   subscriberVars>>

\* Poll over HTTP unless a Websockets subscription has not failed.
RunCheck(u) ==
    /\ useWSForBlockHeight[u] => webSocketError[u] # NoError
    /\ RunnerGoes(u, "idle", IF httpClient[u] THEN "request" ELSE "reinitHTTP")
    /\ UNCHANGED <<config, storeVars, nodeVars, fieldVars, answer,
                   subscriberVars>>

\* The node handles HeaderByNumber; the answer travels back.
NodeAnswers(u) ==
    /\ RunnerGoes(u, "request", "inflight")
    /\ answer' = [answer EXCEPT ![u] = head[u]]
    /\ UNCHANGED <<config, storeVars, nodeVars, fieldVars, subscriberVars>>

\* The poll succeeds; SetBlockHeight sets the field.
PollReturns(u) ==
    /\ RunnerGoes(u, "inflight", "observe")
    /\ blockHeightError' = [blockHeightError EXCEPT ![u] = NoError]
    /\ blockHeight' = [blockHeight EXCEPT ![u] = answer[u]]
    /\ UNCHANGED <<config, storeVars, nodeVars, useWSForBlockHeight,
                   webSocketError, httpClient, answer, subscriberVars>>

\* The request or its answer is lost, or RPCRequestTimeout expires.  Only the
\* field records the error.
PollFails(u) ==
    /\ RunnerGoes(u, "request", "idle") \/ RunnerGoes(u, "inflight", "idle")
    /\ blockHeightError' = [blockHeightError EXCEPT ![u] = "httpError"]
    /\ UNCHANGED <<config, storeVars, nodeVars, useWSForBlockHeight,
                   webSocketError, blockHeight, httpClient, answer,
                   subscriberVars>>

\* Mutant: the polled height is not reported.
ObservePollLost(u) ==
    /\ RunnerGoes(u, "observe", "idle")
    /\ UNCHANGED <<config, storeVars, nodeVars, fieldVars, answer,
                   subscriberVars>>

ObservePoll(u) ==
    /\ RunnerGoes(u, "observe", "idle")
    /\ ProcessBlockHeightUpdate(u, answer[u])
    /\ UNCHANGED <<config, nodeVars, fieldVars, answer, subscriberVars>>

-----------------------------------------------------------------------------
(* The subscriber: onNewHead.                                              *)

\* Mutant: onNewHead does not call SetBlockHeight.
TakeHeadWithoutField(u) ==
    /\ heads[u] # <<>>
    /\ SubscriberGoes(u, "select", "observe")
    /\ header' = [header EXCEPT ![u] = Head(heads[u])]
    /\ heads' = [heads EXCEPT ![u] = Tail(@)]
    /\ UNCHANGED <<config, storeVars, head, link, fieldVars, runnerVars>>

TakeHead(u) ==
    /\ heads[u] # <<>>
    /\ SubscriberGoes(u, "select", "observe")
    /\ header' = [header EXCEPT ![u] = Head(heads[u])]
    /\ heads' = [heads EXCEPT ![u] = Tail(@)]
    /\ blockHeight' = [blockHeight EXCEPT ![u] = Head(heads[u])]
    /\ UNCHANGED <<config, storeVars, head, link, useWSForBlockHeight,
                   webSocketError, blockHeightError, httpClient, runnerVars>>

ObserveHead(u) ==
    /\ SubscriberGoes(u, "observe", "clearWS")
    /\ ProcessBlockHeightUpdate(u, header[u])
    /\ UNCHANGED <<config, nodeVars, fieldVars, runnerVars, header>>

ClearWebSocketError(u) ==
    /\ SubscriberGoes(u, "clearWS", "clear")
    /\ webSocketError' = [webSocketError EXCEPT ![u] = NoError]
    /\ UNCHANGED <<config, storeVars, nodeVars, useWSForBlockHeight,
                   blockHeightError, blockHeight, httpClient, runnerVars,
                   header>>

ClearError(u) ==
    /\ SubscriberGoes(u, "clear", "clearStore")
    /\ blockHeightError' = [blockHeightError EXCEPT ![u] = NoError]
    /\ UNCHANGED <<config, storeVars, nodeVars, useWSForBlockHeight,
                   webSocketError, blockHeight, httpClient, runnerVars,
                   header>>

StoreNoError(u) ==
    /\ SubscriberGoes(u, "clearStore", "select")
    /\ ProcessErrorUpdate(u, NoError)
    /\ UNCHANGED <<config, nodeVars, fieldVars, runnerVars, header>>

(* The subscriber: onError, after which the goroutine returns.             *)

\* Mutant: onError does not set webSocketError.
TakeErrorWithoutField(u) ==
    /\ link[u] = "broken"
    /\ SubscriberGoes(u, "select", "fail")
    /\ UNCHANGED <<config, storeVars, nodeVars, fieldVars, runnerVars, header>>

TakeError(u) ==
    /\ link[u] = "broken"
    /\ SubscriberGoes(u, "select", "fail")
    /\ webSocketError' = [webSocketError EXCEPT ![u] = "wsError"]
    /\ UNCHANGED <<config, storeVars, nodeVars, useWSForBlockHeight,
                   blockHeightError, blockHeight, httpClient, runnerVars,
                   header>>

SetError(u) ==
    /\ SubscriberGoes(u, "fail", "failStore")
    /\ blockHeightError' = [blockHeightError EXCEPT ![u] = webSocketError[u]]
    /\ UNCHANGED <<config, storeVars, nodeVars, useWSForBlockHeight,
                   webSocketError, blockHeight, httpClient, runnerVars,
                   header>>

StoreError(u) ==
    /\ SubscriberGoes(u, "failStore", "done")
    /\ ProcessErrorUpdate(u, webSocketError[u])
    /\ UNCHANGED <<config, nodeVars, fieldVars, runnerVars, header>>

\* Mutant: onError with the empty message of the nil error.
TakeClosedAsError(u) ==
    /\ link[u] = "closed"
    /\ SubscriberGoes(u, "select", "done")
    /\ webSocketError' = [webSocketError EXCEPT ![u] = ""]
    /\ UNCHANGED <<config, storeVars, nodeVars, useWSForBlockHeight,
                   blockHeightError, blockHeight, httpClient, runnerVars,
                   header>>

\* subscription.Err() yields nil: the goroutine returns without a trace.
TakeClosed(u) ==
    /\ link[u] = "closed"
    /\ SubscriberGoes(u, "select", "done")
    /\ UNCHANGED <<config, storeVars, nodeVars, fieldVars, runnerVars, header>>

-----------------------------------------------------------------------------
Node(u) == NewBlock(u) \/ TravelBack(u) \/ LoseLink(u)

Initialize(u) ==
    \/ InitializeWithoutWS(u) \/ SubscribeFails(u) \/ Subscribe(u)
    \/ InitializeHTTP(u) \/ InitializeHTTPFails(u) \/ StoreInitError(u)

Poll(u) == RunCheck(u) \/ NodeAnswers(u) \/ PollReturns(u) \/ PollFails(u)
           \/ ObservePoll(u)

OnNewHead(u) == TakeHead(u) \/ ObserveHead(u) \/ ClearWebSocketError(u)
                \/ ClearError(u) \/ StoreNoError(u)

OnError(u) == TakeError(u) \/ SetError(u) \/ StoreError(u) \/ TakeClosed(u)

Next == \E u \in Upstreams :
           Node(u) \/ Initialize(u) \/ Poll(u) \/ OnNewHead(u) \/ OnError(u)

Spec == Init /\ [][Next]_vars

(***************************************************************************)
(* The manager's ticker calls RunCheck for ever and a poll ends within     *)
(* RPCRequestTimeout; the subscriber is a goroutine in a select loop.      *)
(***************************************************************************)
Fairness == \A u \in Upstreams :
    /\ WF_vars(Initialize(u) \/ Poll(u))
    /\ WF_vars(OnNewHead(u) \/ OnError(u))

\* Assumed of an upstream only where said: its HTTP endpoint keeps answering.
Answering == \A u \in Upstreams :
    /\ SF_vars(InitializeHTTP(u))
    /\ SF_vars(NodeAnswers(u))
    /\ SF_vars(PollReturns(u))

FairSpec == Spec /\ Fairness /\ Answering

-----------------------------------------------------------------------------
\* Initialize has returned and RunCheck polls over HTTP.
Polling(u) ==
    /\ runnerPC[u] \notin {"initWS", "initHTTP"}
    /\ useWSForBlockHeight[u] => webSocketError[u] # NoError

RunnerInPoll(u) ==
    runnerPC[u] \in {"reinitHTTP", "request", "inflight", "observe"}

SubscriberMayReport(u) ==
    subscriberPC[u] \in {"select", "observe", "clearWS", "clear", "clearStore"}

(***************************************************************************)
(* The runner and the subscriber never report heights of one upstream at   *)
(* the same time, although no lock keeps them apart: a poll only starts    *)
(* once the subscriber can report no more.  The unsynchronised blockHeight *)
(* of the check relies on it.                                              *)
(***************************************************************************)
OneHeightReporter ==
    \A u \in Upstreams : ~(RunnerInPoll(u) /\ SubscriberMayReport(u))

(***************************************************************************)
(* Whenever neither goroutine is in the middle of a report, the height the *)
(* check holds is the height the store holds.                              *)
(***************************************************************************)
CheckAgreesWithStore ==
    \A u \in Upstreams :
        /\ runnerPC[u] # "observe"
        /\ subscriberPC[u] # "observe"
        => blockHeight[u] = heightByUpstreamID[u]

(***************************************************************************)
(* The store never goes back in height for a node that does not: no late   *)
(* answer to a poll overwrites a newer head, nor a buffered head a newer   *)
(* answer.                                                                 *)
(***************************************************************************)
NoRegress ==
    \A u \in Upstreams : ~config[u].travelsBack =>
        heightByUpstreamID[u] <= heightByUpstreamID'[u]

HeightNeverRegresses == [][NoRegress]_vars

(***************************************************************************)
(* While its HTTP endpoint answers, an upstream that is polled, or whose   *)
(* subscription has announced its last block, ends up in the store at that *)
(* height, even if the subscription breaks before the block is delivered.  *)
(***************************************************************************)
StoreCatchesUp ==
    \A u \in Upstreams :
        /\ ~config[u].travelsBack /\ ~config[u].mayClose
        /\ head[u] = MaxHead
        /\ \/ Polling(u)
           \/ heads[u] # <<>> /\ heads[u][Len(heads[u])] = MaxHead
        ~> heightByUpstreamID[u] = MaxHead

(***************************************************************************)
(* A lost subscription is noticed and HTTP polling takes over; and the     *)
(* error it leaves in the store does not outlive the fallback: while the   *)
(* HTTP endpoint answers, a poll clears it.                                *)
(***************************************************************************)
FallbackHeals ==
    \A u \in Upstreams :
        /\ link[u] = "broken" ~> Polling(u)
        /\ errorByUpstreamID[u] = "wsError" ~> errorByUpstreamID[u] = NoError

(***************************************************************************)
(* node_filter.go says of an upstream it rejects for its Error: "most      *)
(* recent health check did not succeed", and BlockHeightCheck.IsPassing    *)
(* fails a check whose last attempt failed.  The filters reject when the   *)
(* store has an error; so a failed attempt should leave one there.         *)
(***************************************************************************)
FailedCheckIsStored ==
    \A u \in Upstreams :
        /\ runnerPC[u] = "idle"
        /\ subscriberPC[u] \in {"none", "select", "done"}
        /\ blockHeightError[u] # NoError
        => errorByUpstreamID[u] # NoError
=============================================================================
