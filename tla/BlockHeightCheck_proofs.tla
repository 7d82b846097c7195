----------------------- MODULE BlockHeightCheck_proofs -----------------------
(***************************************************************************)
(* Proofs about BlockHeightCheck, for every set of upstreams, every kind   *)
(* of upstream and every bound on heights and buffered heads.              *)
(***************************************************************************)
EXTENDS BlockHeightCheck, TLAPS

(***************************************************************************)
(* Who may report: a subscriber exists only once Initialize has noted the  *)
(* subscription, it reports only while no error of the subscription is     *)
(* recorded, and a poll runs only if there is none or one is recorded.     *)
(***************************************************************************)
Roles(u) ==
    /\ runnerPC[u] = "initWS" =>
          /\ subscriberPC[u] = "none"
          /\ link[u] = "none"
          /\ webSocketError[u] = NoError
    /\ SubscriberMayReport(u) =>
          useWSForBlockHeight[u] /\ webSocketError[u] = NoError
    /\ RunnerInPoll(u) => (useWSForBlockHeight[u] => webSocketError[u] # NoError)

\* The field blockHeight: one goroutine is reporting it or the store holds it.
HeightReported(u) ==
    /\ subscriberPC[u] = "observe" => blockHeight[u] = header[u]
    /\ runnerPC[u] = "observe" => blockHeight[u] = answer[u]
    /\ runnerPC[u] # "observe" /\ subscriberPC[u] # "observe" =>
          blockHeight[u] = heightByUpstreamID[u]

(***************************************************************************)
(* Of a node that never goes back, everything under way to the store is at *)
(* least what the store holds and at most the node's height: the buffered  *)
(* heads, which are in order, the head being reported, the answer to a     *)
(* poll.                                                                   *)
(***************************************************************************)
HeadsInOrder(u) ==
    /\ link[u] = "none" => heads[u] = <<>>
    /\ \A i \in 1..Len(heads[u]) : heads[u][i] <= head[u]
    /\ \A i, j \in 1..Len(heads[u]) : i <= j => heads[u][i] <= heads[u][j]
    /\ SubscriberMayReport(u) =>
          \A i \in 1..Len(heads[u]) : heightByUpstreamID[u] <= heads[u][i]

ReportsInOrder(u) ==
    /\ heightByUpstreamID[u] <= head[u]
    /\ subscriberPC[u] = "observe" =>
          /\ heightByUpstreamID[u] <= header[u]
          /\ header[u] <= head[u]
          /\ \A i \in 1..Len(heads[u]) : header[u] <= heads[u][i]
    /\ runnerPC[u] \in {"inflight", "observe"} =>
          heightByUpstreamID[u] <= answer[u] /\ answer[u] <= head[u]

Ordered(u) == ~config[u].travelsBack => HeadsInOrder(u) /\ ReportsInOrder(u)

IInv == /\ TypeOK
        /\ \A u \in Upstreams : Roles(u) /\ HeightReported(u) /\ Ordered(u)
-----------------------------------------------------------------------------
LEMMA ErrorKinds ==
    /\ "wsError" \in Optional /\ "httpError" \in Optional /\ NoError \in Optional
    /\ "wsError" # NoError
  BY NoErrorAssumption, CheckConstants DEF Optional

\* The store keeps its type through the two calls a check makes.
LEMMA StoreTyped ==
    ASSUME StoreTypeOK, NEW u \in Upstreams
    PROVE  /\ \A h \in Nat : ProcessBlockHeightUpdate(u, h) => StoreTypeOK'
           /\ \A e \in Optional : ProcessErrorUpdate(u, e) => StoreTypeOK'
           /\ UNCHANGED storeVars => StoreTypeOK'
  <1> USE DEF StoreTypeOK
  <1>1. ASSUME NEW h \in Nat, ProcessBlockHeightUpdate(u, h) PROVE StoreTypeOK'
    <2>1. globalMaxHeight' \in Nat
      BY <1>1 DEF ProcessBlockHeightUpdate, updateGlobalHeight, Larger
    <2>2. maxHeightByGroupID' \in [Groups -> Nat]
      BY <1>1, GroupOfAssumption
      DEF ProcessBlockHeightUpdate, updateHeightForGroup, Larger
    <2>3. heightByUpstreamID' \in [Upstreams -> Nat]
      BY <1>1 DEF ProcessBlockHeightUpdate, updateHeightForUpstream
    <2>4. errorByUpstreamID' \in [Upstreams -> Errors \cup {NoError}]
      BY <1>1 DEF ProcessBlockHeightUpdate, updateErrorForUpstream
    <2> QED
      BY <2>1, <2>2, <2>3, <2>4
  <1>2. ASSUME NEW e \in Optional, ProcessErrorUpdate(u, e) PROVE StoreTypeOK'
    BY <1>2 DEF ProcessErrorUpdate, updateErrorForUpstream, Optional
  <1>3. UNCHANGED storeVars => StoreTypeOK'
    BY DEF storeVars
  <1> QED
    BY <1>1, <1>2, <1>3

LEMMA TypeInit == Init => TypeOK
  <1> SUFFICES ASSUME Init PROVE TypeOK
    OBVIOUS
  <1>1. StoreTypeOK
    BY DEF Init, StoreInit, StoreTypeOK
  <1>2. heads \in [Upstreams -> Seq(Nat)]
    BY DEF Init
  <1> QED
    BY <1>1, <1>2, CheckConstants DEF Init, TypeOK, Optional

LEMMA TypeNext == TypeOK /\ [Next]_vars => TypeOK'
  <1> SUFFICES ASSUME TypeOK, [Next]_vars PROVE TypeOK'
    OBVIOUS
  <1> USE ErrorKinds DEF TypeOK, RunnerGoes, SubscriberGoes
  <1>s. StoreTypeOK /\ (UNCHANGED storeVars => StoreTypeOK')
    BY DEF StoreTypeOK, storeVars
  <1>1. ASSUME NEW u \in Upstreams, Node(u) PROVE TypeOK'
    <2>1. CASE NewBlock(u)
      <3>1. head' \in [Upstreams -> Nat]
        BY <2>1 DEF NewBlock
      <3>2. heads' \in [Upstreams -> Seq(Nat)]
        <4>1. Append(heads[u], head[u] + 1) \in Seq(Nat)
          OBVIOUS
        <4> QED
          BY <2>1, <4>1 DEF NewBlock
      <3> QED
        BY <2>1, <1>s, <3>1, <3>2 DEF NewBlock, fieldVars, runnerVars, subscriberVars
    <2>2. CASE TravelBack(u)
      BY <2>2, <1>s DEF TravelBack, fieldVars, runnerVars, subscriberVars
    <2>3. CASE LoseLink(u)
      BY <2>3, <1>s DEF LoseLink, fieldVars, runnerVars, subscriberVars
    <2> QED
      BY <1>1, <2>1, <2>2, <2>3 DEF Node
  <1>2. ASSUME NEW u \in Upstreams, Initialize(u) PROVE TypeOK'
    <2> USE DEF nodeVars, fieldVars, subscriberVars
    <2>1. CASE InitializeWithoutWS(u)
      BY <2>1, <1>s DEF InitializeWithoutWS
    <2>2. CASE SubscribeFails(u)
      BY <2>2, <1>s DEF SubscribeFails
    <2>3. CASE Subscribe(u)
      BY <2>3, <1>s DEF Subscribe
    <2>4. CASE InitializeHTTP(u)
      BY <2>4, <1>s DEF InitializeHTTP
    <2>5. CASE InitializeHTTPFails(u)
      BY <2>5, <1>s DEF InitializeHTTPFails
    <2>6. CASE StoreInitError(u)
      BY <2>6, <1>s, StoreTyped DEF StoreInitError
    <2> QED
      BY <1>2, <2>1, <2>2, <2>3, <2>4, <2>5, <2>6 DEF Initialize
  <1>3. ASSUME NEW u \in Upstreams, Poll(u) PROVE TypeOK'
    <2> USE DEF nodeVars, fieldVars, subscriberVars
    <2>1. CASE RunCheck(u)
      BY <2>1, <1>s DEF RunCheck
    <2>2. CASE NodeAnswers(u)
      BY <2>2, <1>s DEF NodeAnswers
    <2>3. CASE PollReturns(u)
      BY <2>3, <1>s DEF PollReturns
    <2>4. CASE PollFails(u)
      BY <2>4, <1>s DEF PollFails
    <2>5. CASE ObservePoll(u)
      BY <2>5, <1>s, StoreTyped DEF ObservePoll
    <2> QED
      BY <1>3, <2>1, <2>2, <2>3, <2>4, <2>5 DEF Poll
  <1>4. ASSUME NEW u \in Upstreams, OnNewHead(u) PROVE TypeOK'
    <2> USE DEF nodeVars, fieldVars, runnerVars
    <2>1. CASE TakeHead(u)
      <3>1. Head(heads[u]) \in Nat /\ Tail(heads[u]) \in Seq(Nat)
        BY <2>1 DEF TakeHead
      <3>2. heads' \in [Upstreams -> Seq(Nat)]
        BY <2>1, <3>1 DEF TakeHead
      <3> QED
        BY <2>1, <1>s, <3>1, <3>2 DEF TakeHead
    <2>2. CASE ObserveHead(u)
      BY <2>2, <1>s, StoreTyped DEF ObserveHead
    <2>3. CASE ClearWebSocketError(u)
      BY <2>3, <1>s DEF ClearWebSocketError
    <2>4. CASE ClearError(u)
      BY <2>4, <1>s DEF ClearError
    <2>5. CASE StoreNoError(u)
      BY <2>5, <1>s, StoreTyped DEF StoreNoError
    <2> QED
      BY <1>4, <2>1, <2>2, <2>3, <2>4, <2>5 DEF OnNewHead
  <1>5. ASSUME NEW u \in Upstreams, OnError(u) PROVE TypeOK'
    <2> USE DEF nodeVars, fieldVars, runnerVars
    <2>1. CASE TakeError(u)
      BY <2>1, <1>s DEF TakeError
    <2>2. CASE SetError(u)
      BY <2>2, <1>s DEF SetError
    <2>3. CASE StoreError(u)
      <3>1. webSocketError[u] \in Optional
        OBVIOUS
      <3> QED
        BY <2>3, <1>s, <3>1, StoreTyped DEF StoreError
    <2>4. CASE TakeClosed(u)
      BY <2>4, <1>s DEF TakeClosed
    <2> QED
      BY <1>5, <2>1, <2>2, <2>3, <2>4 DEF OnError
  <1>6. CASE UNCHANGED vars
    BY <1>6, <1>s
    DEF vars, nodeVars, fieldVars, runnerVars, subscriberVars
  <1> QED
    BY <1>1, <1>2, <1>3, <1>4, <1>5, <1>6 DEF Next

(***************************************************************************)
(* The fields of every check and the maps of the store keep their types.   *)
(***************************************************************************)
THEOREM CheckTyped == Spec => []TypeOK
  BY TypeInit, TypeNext, PTL DEF Spec
-----------------------------------------------------------------------------
Step(u) == Node(u) \/ Initialize(u) \/ Poll(u) \/ OnNewHead(u) \/ OnError(u)

\* Upstream v is as it was: its node, its check and its entries in the store.
Same(v) ==
    /\ config'[v] = config[v]
    /\ heightByUpstreamID'[v] = heightByUpstreamID[v]
    /\ head'[v] = head[v] /\ link'[v] = link[v] /\ heads'[v] = heads[v]
    /\ useWSForBlockHeight'[v] = useWSForBlockHeight[v]
    /\ webSocketError'[v] = webSocketError[v]
    /\ blockHeight'[v] = blockHeight[v]
    /\ runnerPC'[v] = runnerPC[v] /\ answer'[v] = answer[v]
    /\ subscriberPC'[v] = subscriberPC[v] /\ header'[v] = header[v]

\* The checks of different upstreams do not touch each other's state.
LEMMA OthersUntouched ==
    ASSUME TypeOK, NEW u \in Upstreams, Step(u), NEW v \in Upstreams, v # u
    PROVE  Same(v)
  <1> USE DEF TypeOK, StoreTypeOK, Same, RunnerGoes, SubscriberGoes, storeVars,
              nodeVars, fieldVars, runnerVars, subscriberVars,
              ProcessErrorUpdate, ProcessBlockHeightUpdate,
              updateHeightForUpstream
  <1>1. CASE Node(u)
    BY <1>1 DEF Node, NewBlock, TravelBack, LoseLink
  <1>2. CASE Initialize(u)
    BY <1>2 DEF Initialize, InitializeWithoutWS, SubscribeFails, Subscribe,
                InitializeHTTP, InitializeHTTPFails, StoreInitError
  <1>3. CASE Poll(u)
    BY <1>3 DEF Poll, RunCheck, NodeAnswers, PollReturns, PollFails, ObservePoll
  <1>4. CASE OnNewHead(u)
    BY <1>4 DEF OnNewHead, TakeHead, ObserveHead, ClearWebSocketError,
                ClearError, StoreNoError
  <1>5. CASE OnError(u)
    BY <1>5 DEF OnError, TakeError, SetError, StoreError, TakeClosed
  <1> QED
    BY <1>1, <1>2, <1>3, <1>4, <1>5 DEF Step

LEMMA SameKeeps ==
    ASSUME NEW v \in Upstreams, Same(v), Roles(v), HeightReported(v), Ordered(v)
    PROVE  Roles(v)' /\ HeightReported(v)' /\ Ordered(v)'
  BY DEF Same, Roles, HeightReported, Ordered, HeadsInOrder, ReportsInOrder,
         SubscriberMayReport, RunnerInPoll

LEMMA RolesKept ==
    ASSUME TypeOK, NEW u \in Upstreams, Roles(u), Step(u)
    PROVE  Roles(u)'
  <1> USE ErrorKinds
      DEF TypeOK, Roles, SubscriberMayReport, RunnerInPoll, RunnerGoes,
          SubscriberGoes, nodeVars, fieldVars, runnerVars, subscriberVars
  <1>1. CASE Node(u)
    BY <1>1 DEF Node, NewBlock, TravelBack, LoseLink
  <1>2. CASE Initialize(u)
    <2>1. CASE InitializeWithoutWS(u) \/ SubscribeFails(u)
      BY <2>1 DEF InitializeWithoutWS, SubscribeFails
    <2>2. CASE Subscribe(u)
      BY <2>2 DEF Subscribe
    <2>3. CASE InitializeHTTP(u)
      BY <2>3 DEF InitializeHTTP
    <2>4. CASE InitializeHTTPFails(u) \/ StoreInitError(u)
      BY <2>4 DEF InitializeHTTPFails, StoreInitError
    <2> QED
      BY <1>2, <2>1, <2>2, <2>3, <2>4 DEF Initialize
  <1>3. CASE Poll(u)
    BY <1>3 DEF Poll, RunCheck, NodeAnswers, PollReturns, PollFails, ObservePoll
  <1>4. CASE OnNewHead(u)
    BY <1>4 DEF OnNewHead, TakeHead, ObserveHead, ClearWebSocketError,
                ClearError, StoreNoError
  <1>5. CASE OnError(u)
    BY <1>5 DEF OnError, TakeError, SetError, StoreError, TakeClosed
  <1> QED
    BY <1>1, <1>2, <1>3, <1>4, <1>5 DEF Step

\* By its role, the goroutine that sets the field is alone in a report.
LEMMA HeightReportedKept ==
    ASSUME TypeOK, NEW u \in Upstreams, Roles(u), HeightReported(u), Step(u)
    PROVE  HeightReported(u)'
  <1> USE DEF TypeOK, StoreTypeOK, HeightReported, RunnerGoes, SubscriberGoes,
              storeVars, nodeVars, fieldVars, runnerVars, subscriberVars,
              ProcessErrorUpdate, ProcessBlockHeightUpdate,
              updateHeightForUpstream
  <1>0. ~(RunnerInPoll(u) /\ SubscriberMayReport(u))
    BY DEF Roles
  <1>1. CASE Node(u)
    BY <1>1 DEF Node, NewBlock, TravelBack, LoseLink
  <1>2. CASE Initialize(u)
    BY <1>2 DEF Initialize, InitializeWithoutWS, SubscribeFails, Subscribe,
                InitializeHTTP, InitializeHTTPFails, StoreInitError
  <1>3. CASE Poll(u)
    <2> USE <1>0 DEF RunnerInPoll, SubscriberMayReport
    <2>1. CASE PollReturns(u)
      BY <2>1 DEF PollReturns
    <2>2. CASE ObservePoll(u)
      BY <2>2 DEF ObservePoll
    <2>3. CASE RunCheck(u) \/ NodeAnswers(u) \/ PollFails(u)
      BY <2>3 DEF RunCheck, NodeAnswers, PollFails
    <2> QED
      BY <1>3, <2>1, <2>2, <2>3 DEF Poll
  <1>4. CASE OnNewHead(u)
    <2> USE <1>0 DEF RunnerInPoll, SubscriberMayReport
    <2>1. CASE TakeHead(u)
      BY <2>1 DEF TakeHead
    <2>2. CASE ObserveHead(u)
      BY <2>2 DEF ObserveHead
    <2>3. CASE ClearWebSocketError(u) \/ ClearError(u) \/ StoreNoError(u)
      BY <2>3 DEF ClearWebSocketError, ClearError, StoreNoError
    <2> QED
      BY <1>4, <2>1, <2>2, <2>3 DEF OnNewHead
  <1>5. CASE OnError(u)
    BY <1>5 DEF OnError, TakeError, SetError, StoreError, TakeClosed
  <1> QED
    BY <1>1, <1>2, <1>3, <1>4, <1>5 DEF Step

\* A new block is the highest so far, so it may join the buffered heads.
LEMMA NewBlockOrdered ==
    ASSUME TypeOK, NEW u \in Upstreams, Ordered(u), NewBlock(u)
    PROVE  Ordered(u)'
  <1> SUFFICES ASSUME ~config[u].travelsBack
               PROVE  HeadsInOrder(u)' /\ ReportsInOrder(u)'
    BY DEF NewBlock, Ordered
  <1> DEFINE old == heads[u]
             new == heads'[u]
             h   == head[u]
  <1>1. /\ old \in Seq(Nat) /\ h \in Nat /\ head'[u] = h + 1
        /\ \A i \in 1..Len(old) : old[i] \in Nat
        /\ answer[u] \in Nat /\ header[u] \in Nat /\ heightByUpstreamID[u] \in Nat
    BY DEF TypeOK, StoreTypeOK, NewBlock
  <1>2. /\ UNCHANGED <<link, runnerPC, subscriberPC, answer, header,
                       heightByUpstreamID>>
        /\ SubscriberMayReport(u)' <=> SubscriberMayReport(u)
    BY DEF NewBlock, storeVars, runnerVars, subscriberVars, SubscriberMayReport
  <1>3. HeadsInOrder(u) /\ ReportsInOrder(u)
    BY DEF Ordered
  <1>4. CASE link[u] = "live"
    <2>1. new = Append(old, h + 1)
      BY <1>4 DEF NewBlock, TypeOK
    <2>2. /\ Len(new) = Len(old) + 1
          /\ \A i \in 1..Len(new) :
                \/ i \in 1..Len(old) /\ new[i] = old[i]
                \/ i = Len(old) + 1 /\ new[i] = h + 1
      BY <1>1, <2>1
    <2>3. \A i \in 1..Len(old) : old[i] <= h
      BY <1>3 DEF HeadsInOrder
    <2>4. \A i, j \in 1..Len(old) : i <= j => old[i] <= old[j]
      BY <1>3 DEF HeadsInOrder
    <2> HIDE DEF new, old, h
    <2>5. \A i \in 1..Len(new) : new[i] <= h + 1
      BY <1>1, <2>2, <2>3
    <2>6. \A i, j \in 1..Len(new) : i <= j => new[i] <= new[j]
      <3> SUFFICES ASSUME NEW i \in 1..Len(new), NEW j \in 1..Len(new), i <= j
                   PROVE  new[i] <= new[j]
        OBVIOUS
      <3>0. Len(old) \in Nat
        BY <1>1
      <3>1. CASE j = Len(old) + 1
        <4>1. new[j] = h + 1
          BY <2>2, <3>0, <3>1
        <4> QED
          BY <2>5, <4>1
      <3>2. CASE j \in 1..Len(old)
        <4>1. i \in 1..Len(old) /\ j # Len(old) + 1 /\ i # Len(old) + 1
          BY <3>0, <3>2
        <4>2. new[i] = old[i] /\ new[j] = old[j]
          BY <2>2, <4>1
        <4> QED
          BY <2>4, <3>2, <4>1, <4>2
      <3> QED
        BY <2>2, <3>1, <3>2
    <2>7. SubscriberMayReport(u) =>
            \A i \in 1..Len(new) : heightByUpstreamID[u] <= new[i]
      <3>1. SubscriberMayReport(u) =>
              \A i \in 1..Len(old) : heightByUpstreamID[u] <= old[i]
        BY <1>3 DEF HeadsInOrder, old
      <3>2. heightByUpstreamID[u] <= h
        BY <1>3 DEF ReportsInOrder, h
      <3>3. heightByUpstreamID[u] <= h + 1
        BY <1>1, <3>2
      <3> QED
        BY <2>2, <3>1, <3>3
    <2>8. HeadsInOrder(u)'
      BY <1>1, <1>2, <1>4, <2>5, <2>6, <2>7 DEF HeadsInOrder, new, h
    <2>9. subscriberPC[u] = "observe" => \A i \in 1..Len(new) : header[u] <= new[i]
      <3>1. subscriberPC[u] = "observe" =>
              header[u] <= h /\ \A i \in 1..Len(old) : header[u] <= old[i]
        BY <1>3 DEF ReportsInOrder, h, old
      <3>2. header[u] <= h => header[u] <= h + 1
        BY <1>1
      <3> QED
        BY <2>2, <3>1, <3>2
    <2>10. ReportsInOrder(u)'
      BY <1>1, <1>2, <1>3, <2>9 DEF ReportsInOrder, new, h
    <2> QED
      BY <2>8, <2>10
  <1>5. CASE link[u] # "live"
    <2>1. new = old
      BY <1>5 DEF NewBlock, TypeOK
    <2> QED
      BY <1>1, <1>2, <1>3, <2>1 DEF HeadsInOrder, ReportsInOrder
  <1> QED
    BY <1>4, <1>5

\* The first of the buffered heads is the lowest and the store holds less.
LEMMA TakeHeadOrdered ==
    ASSUME TypeOK, NEW u \in Upstreams, Ordered(u), Roles(u), TakeHead(u)
    PROVE  Ordered(u)'
  <1> SUFFICES ASSUME ~config[u].travelsBack
               PROVE  HeadsInOrder(u)' /\ ReportsInOrder(u)'
    BY DEF TakeHead, Ordered
  <1> DEFINE old == heads[u]
             new == heads'[u]
  <1>1. /\ old \in Seq(Nat) /\ Len(old) \in Nat \ {0}
        /\ \A i \in 1..Len(old) : old[i] \in Nat
        /\ new = Tail(old) /\ header'[u] = old[1]
    BY DEF TakeHead, TypeOK
  <1>2. /\ Len(new) = Len(old) - 1
        /\ \A i \in 1..Len(new) : i + 1 \in 1..Len(old) /\ new[i] = old[i + 1]
    BY <1>1
  <1>3. HeadsInOrder(u) /\ ReportsInOrder(u)
    BY DEF Ordered
  <1>4. UNCHANGED <<link, runnerPC, answer, head, heightByUpstreamID>>
    BY DEF TakeHead, storeVars, runnerVars
  <1>5. subscriberPC[u] = "select" /\ subscriberPC'[u] = "observe"
    BY DEF TakeHead, SubscriberGoes, TypeOK
  <1>6. 1 \in 1..Len(old)
    BY <1>1
  <1>7. /\ \A i \in 1..Len(old) : old[i] <= head[u] /\ old[1] <= old[i]
        /\ \A i, j \in 1..Len(old) : i <= j => old[i] <= old[j]
        /\ \A i \in 1..Len(old) : heightByUpstreamID[u] <= old[i]
        /\ link[u] # "none"
    BY <1>1, <1>3, <1>5, <1>6 DEF HeadsInOrder, SubscriberMayReport
  <1>8. HeadsInOrder(u)'
    <2> HIDE DEF new, old
    <2>1. \A i \in 1..Len(new) : new[i] <= head[u] /\ heightByUpstreamID[u] <= new[i]
      BY <1>2, <1>7
    <2>2. \A i, j \in 1..Len(new) : i <= j => new[i] <= new[j]
      BY <1>1, <1>2, <1>7
    <2> QED
      BY <1>4, <1>7, <2>1, <2>2 DEF HeadsInOrder, new
  <1>9. ReportsInOrder(u)'
    <2> HIDE DEF new, old
    <2>1. \A i \in 1..Len(new) : old[1] <= new[i]
      BY <1>2, <1>7
    <2>2. heightByUpstreamID[u] <= old[1] /\ old[1] <= head[u]
      BY <1>6, <1>7
    <2> QED
      BY <1>1, <1>3, <1>4, <2>1, <2>2 DEF ReportsInOrder, new
  <1> QED
    BY <1>8, <1>9

LEMMA OrderedKept ==
    ASSUME TypeOK, NEW u \in Upstreams, Roles(u), Ordered(u), Step(u)
    PROVE  Ordered(u)'
  <1>a. CASE NewBlock(u)
    BY <1>a, NewBlockOrdered
  <1>b. CASE TakeHead(u)
    BY <1>b, TakeHeadOrdered
  <1> USE DEF TypeOK, StoreTypeOK, Ordered, HeadsInOrder, ReportsInOrder,
              SubscriberMayReport, RunnerGoes, SubscriberGoes, storeVars,
              nodeVars, fieldVars, runnerVars, subscriberVars,
              ProcessErrorUpdate, ProcessBlockHeightUpdate,
              updateHeightForUpstream
  <1>0. ~(RunnerInPoll(u) /\ SubscriberMayReport(u))
    BY DEF Roles
  <1>1. CASE TravelBack(u) \/ LoseLink(u)
    BY <1>1 DEF TravelBack, LoseLink
  <1>2. CASE Initialize(u)
    <2>1. CASE Subscribe(u)
      <3>1. link[u] = "none" /\ heightByUpstreamID'[u] = heightByUpstreamID[u]
        BY <2>1 DEF Subscribe, Roles
      <3>2. ~config[u].travelsBack => heads[u] = <<>>
        BY <3>1
      <3> QED
        BY <2>1, <3>1, <3>2 DEF Subscribe
    <2>2. CASE InitializeWithoutWS(u) \/ SubscribeFails(u) \/ InitializeHTTP(u)
               \/ InitializeHTTPFails(u) \/ StoreInitError(u)
      BY <2>2 DEF InitializeWithoutWS, SubscribeFails, InitializeHTTP,
                  InitializeHTTPFails, StoreInitError
    <2> QED
      BY <1>2, <2>1, <2>2 DEF Initialize
  <1>3. CASE Poll(u)
    <2> USE <1>0 DEF RunnerInPoll
    <2>1. CASE ObservePoll(u)
      BY <2>1 DEF ObservePoll
    <2>2. CASE NodeAnswers(u)
      BY <2>2 DEF NodeAnswers
    <2>3. CASE RunCheck(u) \/ PollReturns(u) \/ PollFails(u)
      BY <2>3 DEF RunCheck, PollReturns, PollFails
    <2> QED
      BY <1>3, <2>1, <2>2, <2>3 DEF Poll
  <1>4. CASE ObserveHead(u)
    BY <1>0, <1>4 DEF ObserveHead, RunnerInPoll
  <1>5. CASE ClearWebSocketError(u) \/ ClearError(u) \/ StoreNoError(u)
    BY <1>5 DEF ClearWebSocketError, ClearError, StoreNoError
  <1>6. CASE OnError(u)
    BY <1>6 DEF OnError, TakeError, SetError, StoreError, TakeClosed
  <1> QED
    BY <1>a, <1>b, <1>1, <1>2, <1>3, <1>4, <1>5, <1>6
    DEF Step, Node, OnNewHead
-----------------------------------------------------------------------------
LEMMA Inductive == Spec => []IInv
  <1>1. Init => IInv
    <2> SUFFICES ASSUME Init PROVE IInv
      OBVIOUS
    <2>1. \A u \in Upstreams : Roles(u) /\ HeightReported(u)
      BY DEF Init, StoreInit, Roles, HeightReported, SubscriberMayReport,
             RunnerInPoll
    <2>2. \A u \in Upstreams : Ordered(u)
      BY DEF Init, StoreInit, Ordered, HeadsInOrder, ReportsInOrder
    <2> QED
      BY <2>1, <2>2, TypeInit DEF IInv
  <1>2. IInv /\ [Next]_vars => IInv'
    <2> SUFFICES ASSUME IInv, [Next]_vars PROVE IInv'
      OBVIOUS
    <2>1. TypeOK'
      BY TypeNext DEF IInv
    <2>2. ASSUME NEW u \in Upstreams, Step(u), NEW v \in Upstreams
          PROVE  Roles(v)' /\ HeightReported(v)' /\ Ordered(v)'
      <3>1. CASE v = u
        BY <2>2, <3>1, RolesKept, HeightReportedKept, OrderedKept DEF IInv
      <3>2. CASE v # u
        BY <2>2, <3>2, OthersUntouched, SameKeeps DEF IInv
      <3> QED
        BY <3>1, <3>2
    <2>3. CASE UNCHANGED vars
      <3>1. \A v \in Upstreams : Same(v)
        BY <2>3 DEF Same, vars, storeVars, nodeVars, fieldVars, runnerVars,
                    subscriberVars
      <3> QED
        BY <2>1, <3>1, SameKeeps DEF IInv
    <2> QED
      BY <2>1, <2>2, <2>3 DEF IInv, Next, Step
  <1> QED
    BY <1>1, <1>2, PTL DEF Spec

(***************************************************************************)
(* The runner and the subscriber of a check never report heights at the    *)
(* same time: what keeps the unlocked field blockHeight consistent.        *)
(***************************************************************************)
THEOREM OneReporter == Spec => []OneHeightReporter
  <1>1. IInv => OneHeightReporter
    BY DEF IInv, Roles, OneHeightReporter
  <1> QED
    BY <1>1, Inductive, PTL

(***************************************************************************)
(* When no report is under way, the check and the store hold one height.   *)
(***************************************************************************)
THEOREM CheckAndStoreAgree == Spec => []CheckAgreesWithStore
  <1>1. IInv => CheckAgreesWithStore
    BY DEF IInv, HeightReported, CheckAgreesWithStore
  <1> QED
    BY <1>1, Inductive, PTL

(***************************************************************************)
(* No report of a check takes the height the store holds for an upstream   *)
(* back, unless the node itself goes back: polls, buffered heads and the   *)
(* change from the subscription to polling stay in order.                  *)
(***************************************************************************)
THEOREM NoLateReport == Spec => HeightNeverRegresses
  <1>1. IInv /\ [Next]_vars => [NoRegress]_vars
    <2> SUFFICES ASSUME IInv, Next, NEW v \in Upstreams, ~config[v].travelsBack
                 PROVE  heightByUpstreamID[v] <= heightByUpstreamID'[v]
      BY DEF NoRegress
    <2> USE DEF IInv, TypeOK, StoreTypeOK
    <2>0. PICK u \in Upstreams : Step(u)
      BY DEF Next, Step
    <2>t. heightByUpstreamID[v] \in Nat
      OBVIOUS
    <2>1. CASE v # u
      <3>1. Same(v)
        BY <2>0, <2>1, OthersUntouched
      <3> QED
        BY <2>t, <3>1 DEF Same
    <2>2. CASE heightByUpstreamID' = heightByUpstreamID
      BY <2>t, <2>2
    <2>3. CASE v = u /\ ObservePoll(u)
      BY <2>3 DEF ObservePoll, RunnerGoes, Ordered, ReportsInOrder,
                  ProcessBlockHeightUpdate, updateHeightForUpstream
    <2>4. CASE v = u /\ ObserveHead(u)
      BY <2>4 DEF ObserveHead, SubscriberGoes, Ordered, ReportsInOrder,
                  ProcessBlockHeightUpdate, updateHeightForUpstream
    <2>5. \/ heightByUpstreamID' = heightByUpstreamID
          \/ ObservePoll(u) \/ ObserveHead(u)
      BY <2>0
      DEF Step, Node, NewBlock, TravelBack, LoseLink, Initialize,
          InitializeWithoutWS, SubscribeFails, Subscribe, InitializeHTTP,
          InitializeHTTPFails, StoreInitError, Poll, RunCheck, NodeAnswers,
          PollReturns, PollFails, OnNewHead, TakeHead, ClearWebSocketError,
          ClearError, StoreNoError, OnError, TakeError, SetError, StoreError,
          TakeClosed, ProcessErrorUpdate, storeVars
    <2> QED
      BY <2>1, <2>2, <2>3, <2>4, <2>5
  <1> QED
    BY <1>1, Inductive, PTL DEF Spec, HeightNeverRegresses
=============================================================================
