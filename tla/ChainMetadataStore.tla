------------------------- MODULE ChainMetadataStore -------------------------
(***************************************************************************)
(* internal/metadata/store.go as it runs.  Every method of the store sends *)
(* a closure over the unbuffered opChannel; one server goroutine, started  *)
(* by Start, receives the closures and runs them.  The maps carry no lock: *)
(* the closure of a height update changes them one assignment at a time.   *)
(*                                                                         *)
(* A send on an unbuffered channel completes when the server receives, so  *)
(* an update returns to its caller BEFORE the closure has run.  A query    *)
(* then waits on the returnChannel its closure sends on.                   *)
(***************************************************************************)
EXTENDS StoreCalls

VARIABLES
    callerPC,    \* "idle", "send" (blocked on opChannel), "receive"
    call,        \* the call the caller is in, or NoCall
    status,      \* the last status received by each caller
    serverPC,    \* "range" (receiving) or the next statement of the closure
    op,          \* the call whose closure the server runs, or NoCall
    opCaller,    \* the callers waiting on the closure's returnChannel
    reply        \* the closure's local variable blockHeightStatus

vars == <<storeVars, callerPC, call, status, serverPC, op, opCaller, reply>>

TypeOK ==
    /\ StoreTypeOK
    /\ callerPC \in [Callers -> {"idle", "send", "receive"}]
    /\ call \in [Callers -> Calls \cup {NoCall}]
    /\ status \in [Callers -> BlockHeightStatus \cup {NoStatus}]
    /\ serverPC \in {"range", "global", "group", "upstream", "error",
                     "read", "reply"}
    /\ op \in Calls \cup {NoCall}
    /\ opCaller \subseteq Callers
    /\ reply \in BlockHeightStatus \cup {NoStatus}

Init ==
    /\ StoreInit
    /\ callerPC = [c \in Callers |-> "idle"]
    /\ call = [c \in Callers |-> NoCall]
    /\ status = [c \in Callers |-> NoStatus]
    /\ serverPC = "range"
    /\ op = NoCall
    /\ opCaller = {}
    /\ reply = NoStatus

-----------------------------------------------------------------------------
(* The callers.                                                            *)

Invoke(c) ==
    /\ callerPC[c] = "idle"
    /\ callerPC' = [callerPC EXCEPT ![c] = "send"]
    /\ \E o \in CallsOf[c] : call' = [call EXCEPT ![c] = o]
    /\ UNCHANGED <<storeVars, status, serverPC, op, opCaller, reply>>

\* The rendezvous on opChannel of an update: the caller returns.
SendUpdate(c) ==
    /\ callerPC[c] = "send"
    /\ serverPC = "range"
    /\ call[c] \in HeightUpdate \cup ErrorUpdate
    /\ callerPC' = [callerPC EXCEPT ![c] = "idle"]
    /\ call' = [call EXCEPT ![c] = NoCall]
    /\ serverPC' = IF call[c] \in HeightUpdate THEN "global" ELSE "error"
    /\ op' = call[c]
    /\ UNCHANGED <<storeVars, status, opCaller, reply>>

\* The rendezvous of a query: the caller goes on to receive the reply.
SendQuery(c) ==
    /\ callerPC[c] = "send"
    /\ serverPC = "range"
    /\ call[c] \in StatusQuery
    /\ callerPC' = [callerPC EXCEPT ![c] = "receive"]
    /\ serverPC' = "read"
    /\ op' = call[c]
    /\ opCaller' = {c}
    /\ UNCHANGED <<storeVars, call, status, reply>>

\* The rendezvous on returnChannel.
Receive(c) ==
    /\ callerPC[c] = "receive"
    /\ serverPC = "reply"
    /\ c \in opCaller
    /\ status' = [status EXCEPT ![c] = reply]
    /\ callerPC' = [callerPC EXCEPT ![c] = "idle"]
    /\ call' = [call EXCEPT ![c] = NoCall]
    /\ serverPC' = "range"
    /\ op' = NoCall
    /\ opCaller' = {}
    /\ reply' = NoStatus
    /\ UNCHANGED storeVars

-----------------------------------------------------------------------------
(* The server goroutine: the statements of the closures.                   *)

RunGlobal ==
    /\ serverPC = "global"
    /\ updateGlobalHeight(op.height)
    /\ serverPC' = "group"
    /\ UNCHANGED <<maxHeightByGroupID, heightByUpstreamID, errorByUpstreamID,
                   callerPC, call, status, op, opCaller, reply>>

RunGroup ==
    /\ serverPC = "group"
    /\ updateHeightForGroup(GroupOf[op.upstream], op.height)
    /\ serverPC' = "upstream"
    /\ UNCHANGED <<globalMaxHeight, heightByUpstreamID, errorByUpstreamID,
                   callerPC, call, status, op, opCaller, reply>>

\* Mutant: the closure ends without clearing the error.
RunUpstreamAndReturn ==
    /\ serverPC = "upstream"
    /\ updateHeightForUpstream(op.upstream, op.height)
    /\ serverPC' = "range"
    /\ op' = NoCall
    /\ UNCHANGED <<globalMaxHeight, maxHeightByGroupID, errorByUpstreamID,
                   callerPC, call, status, opCaller, reply>>

RunUpstream ==
    /\ serverPC = "upstream"
    /\ updateHeightForUpstream(op.upstream, op.height)
    /\ serverPC' = "error"
    /\ UNCHANGED <<globalMaxHeight, maxHeightByGroupID, errorByUpstreamID,
                   callerPC, call, status, op, opCaller, reply>>

\* A height update clears the error; an error update stores its argument.
RunError ==
    /\ serverPC = "error"
    /\ updateErrorForUpstream(op.upstream,
          IF op \in ErrorUpdate THEN op.error ELSE NoError)
    /\ serverPC' = "range"
    /\ op' = NoCall
    /\ UNCHANGED <<globalMaxHeight, maxHeightByGroupID, heightByUpstreamID,
                   callerPC, call, status, opCaller, reply>>

\* Mutant: closes returnChannel instead, so that the caller receives a zero value.
RunQueryAndClose ==
    /\ serverPC = "read"
    /\ reply' = [GetBlockHeightStatus(op.upstream) EXCEPT !.UpstreamID = ""]
    /\ serverPC' = "reply"
    /\ UNCHANGED <<storeVars, callerPC, call, status, op, opCaller>>

\* Mutant: the closure returns without sending.
RunQueryWithoutReply ==
    /\ serverPC = "read"
    /\ serverPC' = "range"
    /\ op' = NoCall
    /\ UNCHANGED <<storeVars, callerPC, call, status, opCaller, reply>>

RunQuery ==
    /\ serverPC = "read"
    /\ reply' = GetBlockHeightStatus(op.upstream)
    /\ serverPC' = "reply"
    /\ UNCHANGED <<storeVars, callerPC, call, status, op, opCaller>>

Serve == RunGlobal \/ RunGroup \/ RunUpstream \/ RunError \/ RunQuery

Next ==
    \/ Serve
    \/ \E c \in Callers :
          Invoke(c) \/ SendUpdate(c) \/ SendQuery(c) \/ Receive(c)

Spec == Init /\ [][Next]_vars

(***************************************************************************)
(* The Go scheduler runs the server and the callers.  Senders blocked on a *)
(* channel are queued first come first served by the runtime, so the       *)
(* server does not pass over one caller for ever: strong fairness.         *)
(***************************************************************************)
Fairness ==
    /\ WF_vars(Serve)
    /\ \A c \in Callers :
          /\ SF_vars(SendUpdate(c) \/ SendQuery(c))
          /\ WF_vars(Receive(c))

FairSpec == Spec /\ Fairness

-----------------------------------------------------------------------------
(***************************************************************************)
(* The store as its callers see it: a closure that the server has received *)
(* counts as run to its end.                                               *)
(***************************************************************************)
AtomicGlobalMax ==
    IF serverPC = "global" THEN Larger(globalMaxHeight, op.height)
                           ELSE globalMaxHeight

AtomicMaxByGroup ==
    IF serverPC \in {"global", "group"}
    THEN [maxHeightByGroupID EXCEPT ![GroupOf[op.upstream]] =
             Larger(@, op.height)]
    ELSE maxHeightByGroupID

AtomicHeight ==
    IF serverPC \in {"global", "group", "upstream"}
    THEN [heightByUpstreamID EXCEPT ![op.upstream] = op.height]
    ELSE heightByUpstreamID

AtomicError ==
    IF serverPC \in {"global", "group", "upstream", "error"}
    THEN [errorByUpstreamID EXCEPT ![op.upstream] =
             IF op \in ErrorUpdate THEN op.error ELSE NoError]
    ELSE errorByUpstreamID

AtomicStatus ==
    [c \in Callers |->
        IF c \in opCaller THEN GetBlockHeightStatus(op.upstream)
                          ELSE status[c]]

Atomic == INSTANCE AtomicMetadataStore WITH
    globalMaxHeight    <- AtomicGlobalMax,
    maxHeightByGroupID <- AtomicMaxByGroup,
    heightByUpstreamID <- AtomicHeight,
    errorByUpstreamID  <- AtomicError,
    pending            <- {c \in Callers : callerPC[c] = "send"},
    status             <- AtomicStatus

(***************************************************************************)
(* The store implements the atomic object: although an update returns      *)
(* before its closure runs and the closure changes four maps one by one,   *)
(* no caller can tell; it reads its own writes and sees no half update.    *)
(***************************************************************************)
ImplementsAtomic == Atomic!AtomicSpec

(***************************************************************************)
(* A status handed to a caller is consistent: the upstream's height is not *)
(* above its group's maximum, nor that above the global maximum.  The      *)
(* filters MaxHeightForGroup and NearGlobalMaxHeight compare these fields. *)
(***************************************************************************)
StatusConsistent ==
    \A c \in Callers : status[c] # NoStatus =>
        /\ status[c].BlockHeight <= status[c].GroupMaxBlockHeight
        /\ status[c].GroupMaxBlockHeight <= status[c].GlobalMaxBlockHeight

(***************************************************************************)
(* The maxima a caller is told never go back from one of its queries to    *)
(* the next: the global one between any two, a group's between two         *)
(* queries about upstreams of the group.                                   *)
(***************************************************************************)
StatusMaximaGrow ==
    \A c \in Callers :
        status[c] # NoStatus /\ status'[c] # status[c] =>
            /\ status[c].GlobalMaxBlockHeight <= status'[c].GlobalMaxBlockHeight
            /\ GroupOf[status[c].UpstreamID] = GroupOf[status'[c].UpstreamID]
               => status[c].GroupMaxBlockHeight <= status'[c].GroupMaxBlockHeight

CallersSeeMaximaGrow == [][StatusMaximaGrow]_vars

(***************************************************************************)
(* No call hangs: every height update, error update and query returns, so  *)
(* neither the checks nor the requests block on the store.                 *)
(***************************************************************************)
CallsReturn == \A c \in Callers : callerPC[c] = "send" ~> callerPC[c] = "idle"
=============================================================================
