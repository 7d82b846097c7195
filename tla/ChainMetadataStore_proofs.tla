---------------------- MODULE ChainMetadataStore_proofs ----------------------
(***************************************************************************)
(* Proofs about ChainMetadataStore, for every set of upstreams, groups,    *)
(* callers and heights.                                                    *)
(***************************************************************************)
EXTENDS ChainMetadataStore, TLAPS

(***************************************************************************)
(* Who is where: the server runs a closure exactly when it has an op, the  *)
(* labels of a height update only run height updates, and a query is       *)
(* served for the one caller that waits for its reply.                     *)
(***************************************************************************)
Handshake ==
    /\ serverPC = "range" => op = NoCall
    /\ serverPC \in {"global", "group", "upstream"} => op \in HeightUpdate
    /\ serverPC = "error" => op \in HeightUpdate \cup ErrorUpdate
    /\ serverPC \in {"read", "reply"} => op \in StatusQuery
    /\ serverPC \in {"read", "reply"} =>
          \E c \in Callers : opCaller = {c} /\ callerPC[c] = "receive"
    /\ serverPC \notin {"read", "reply"} => opCaller = {}
    /\ \A c \in Callers :
          /\ callerPC[c] = "receive" => opCaller = {c} /\ call[c] \in StatusQuery
          /\ callerPC[c] = "send" => call[c] \in Calls
          /\ callerPC[c] = "idle" => call[c] = NoCall

(***************************************************************************)
(* The maxima stay ordered at every statement of a height update, because  *)
(* the closure raises the global maximum first and the height last.        *)
(***************************************************************************)
UpdateInOrder ==
    /\ serverPC \in {"group", "upstream"} => op.height <= globalMaxHeight
    /\ serverPC = "upstream" =>
          op.height <= maxHeightByGroupID[GroupOf[op.upstream]]

ReplyCurrent == serverPC = "reply" => reply = GetBlockHeightStatus(op.upstream)

\* What a caller was told is consistent and bounded by the store's maxima.
StatusBounded ==
    \A c \in Callers : status[c] # NoStatus =>
        /\ status[c].BlockHeight <= status[c].GroupMaxBlockHeight
        /\ status[c].GroupMaxBlockHeight <= status[c].GlobalMaxBlockHeight
        /\ status[c].GroupMaxBlockHeight <=
              maxHeightByGroupID[GroupOf[status[c].UpstreamID]]
        /\ status[c].GlobalMaxBlockHeight <= globalMaxHeight

IInv == TypeOK /\ Handshake /\ MaximaOrdered /\ UpdateInOrder /\ ReplyCurrent
        /\ StatusBounded
-----------------------------------------------------------------------------
LEMMA CallKinds ==
    /\ HeightUpdate \subseteq Calls /\ ErrorUpdate \subseteq Calls
    /\ StatusQuery \subseteq Calls
    /\ \A o \in HeightUpdate : o \notin ErrorUpdate /\ o \notin StatusQuery
    /\ \A o \in ErrorUpdate : o \notin HeightUpdate /\ o \notin StatusQuery
    /\ \A o \in StatusQuery : o \notin HeightUpdate /\ o \notin ErrorUpdate
    /\ NoCall \notin Calls
    /\ \A o \in Calls : o.upstream \in Upstreams /\ GroupOf[o.upstream] \in Groups
    /\ \A o \in HeightUpdate : o.height \in Nat
    /\ \A o \in ErrorUpdate : o.error \in Errors \cup {NoError}
  BY GroupOfAssumption, HeightsAssumption
  DEF Calls, HeightUpdate, ErrorUpdate, StatusQuery, NoCall

LEMMA StatusType ==
    ASSUME StoreTypeOK, NEW u \in Upstreams
    PROVE  GetBlockHeightStatus(u) \in BlockHeightStatus
  BY GroupOfAssumption DEF StoreTypeOK, GetBlockHeightStatus, BlockHeightStatus

LEMMA InitIInv == Init => IInv
  BY GroupOfAssumption, CallKinds
  DEF Init, StoreInit, IInv, TypeOK, StoreTypeOK, Handshake, MaximaOrdered,
      UpdateInOrder, ReplyCurrent, StatusBounded

LEMMA TypeStep == TypeOK /\ Handshake /\ [Next]_vars => TypeOK'
<1> SUFFICES ASSUME TypeOK, Handshake, [Next]_vars PROVE TypeOK'
  OBVIOUS
<1> USE CallKinds, GroupOfAssumption
<1>1. CASE UNCHANGED vars
  BY <1>1 DEF vars, storeVars, TypeOK, StoreTypeOK
<1>2. ASSUME NEW c \in Callers, Invoke(c) PROVE TypeOK'
  <2>1. PICK o \in Calls : call' = [call EXCEPT ![c] = o]
    BY <1>2, CallsOfAssumption DEF Invoke
  <2> QED
    BY <1>2, <2>1 DEF Invoke, TypeOK, StoreTypeOK, storeVars
<1>3. ASSUME NEW c \in Callers, SendUpdate(c) PROVE TypeOK'
  BY <1>3 DEF SendUpdate, TypeOK, StoreTypeOK, storeVars
<1>4. ASSUME NEW c \in Callers, SendQuery(c) PROVE TypeOK'
  BY <1>4 DEF SendQuery, TypeOK, StoreTypeOK, storeVars
<1>5. ASSUME NEW c \in Callers, Receive(c) PROVE TypeOK'
  BY <1>5 DEF Receive, TypeOK, StoreTypeOK, storeVars
<1>6. CASE RunGlobal
  BY <1>6 DEF RunGlobal, updateGlobalHeight, Larger, Handshake, TypeOK, StoreTypeOK
<1>7. CASE RunGroup
  BY <1>7 DEF RunGroup, updateHeightForGroup, Larger, Handshake, TypeOK, StoreTypeOK
<1>8. CASE RunUpstream
  BY <1>8 DEF RunUpstream, updateHeightForUpstream, Handshake, TypeOK, StoreTypeOK
<1>9. CASE RunError
  BY <1>9 DEF RunError, updateErrorForUpstream, Handshake, TypeOK, StoreTypeOK
<1>10. CASE RunQuery
  <2>1. reply' \in BlockHeightStatus
    BY <1>10, StatusType DEF RunQuery, TypeOK, Handshake
  <2> QED
    BY <1>10, <2>1 DEF RunQuery, TypeOK, StoreTypeOK, storeVars
<1> QED
  BY <1>1, <1>2, <1>3, <1>4, <1>5, <1>6, <1>7, <1>8, <1>9, <1>10 DEF Next, Serve

LEMMA HandshakeStep == TypeOK /\ Handshake /\ [Next]_vars => Handshake'
<1> SUFFICES ASSUME TypeOK, Handshake, [Next]_vars PROVE Handshake'
  OBVIOUS
<1> USE CallKinds
<1>1. CASE UNCHANGED vars
  BY <1>1 DEF vars, Handshake
<1>2. ASSUME NEW c \in Callers, Invoke(c) PROVE Handshake'
  <2>1. PICK o \in Calls : call' = [call EXCEPT ![c] = o]
    BY <1>2, CallsOfAssumption DEF Invoke
  <2> QED
    BY <1>2, <2>1 DEF Invoke, TypeOK, Handshake
<1>3. ASSUME NEW c \in Callers, SendUpdate(c) PROVE Handshake'
  BY <1>3 DEF SendUpdate, TypeOK, Handshake
<1>4. ASSUME NEW c \in Callers, SendQuery(c) PROVE Handshake'
  BY <1>4 DEF SendQuery, TypeOK, Handshake
<1>5. ASSUME NEW c \in Callers, Receive(c) PROVE Handshake'
  BY <1>5 DEF Receive, TypeOK, Handshake
<1>6. CASE Serve
  BY <1>6 DEF Serve, RunGlobal, RunGroup, RunUpstream, RunError, RunQuery, Handshake
<1> QED
  BY <1>1, <1>2, <1>3, <1>4, <1>5, <1>6 DEF Next

(***************************************************************************)
(* No action lowers a maximum, and the only actions that touch a map run   *)
(* one statement of a height update.                                       *)
(***************************************************************************)
LEMMA MaximaGrowStep == TypeOK /\ Handshake /\ [Next]_vars => MaximaGrow
<1> SUFFICES ASSUME TypeOK, Handshake, [Next]_vars PROVE MaximaGrow
  OBVIOUS
<1> USE CallKinds DEF TypeOK, StoreTypeOK, MaximaGrow
<1>1. CASE UNCHANGED storeVars
  BY <1>1 DEF storeVars
<1>2. CASE RunGlobal
  BY <1>2 DEF RunGlobal, updateGlobalHeight, Larger, Handshake
<1>3. CASE RunGroup
  BY <1>3 DEF RunGroup, updateHeightForGroup, Larger, Handshake
<1>4. CASE RunUpstream \/ RunError
  BY <1>4 DEF RunUpstream, RunError
<1>5. ASSUME NEW c \in Callers,
             Invoke(c) \/ SendUpdate(c) \/ SendQuery(c) \/ Receive(c)
      PROVE  UNCHANGED storeVars
  BY <1>5 DEF Invoke, SendUpdate, SendQuery, Receive
<1> QED
  BY <1>1, <1>2, <1>3, <1>4, <1>5 DEF Next, Serve, RunQuery, vars

LEMMA MaximaOrderedStep == IInv /\ [Next]_vars => MaximaOrdered' /\ UpdateInOrder'
<1> SUFFICES ASSUME IInv, [Next]_vars PROVE MaximaOrdered' /\ UpdateInOrder'
  OBVIOUS
<1> USE CallKinds, GroupOfAssumption
    DEF IInv, TypeOK, StoreTypeOK, Handshake, MaximaOrdered, UpdateInOrder
<1>1. CASE UNCHANGED vars
  BY <1>1 DEF vars, storeVars
<1>2. ASSUME NEW c \in Callers, Invoke(c)
      PROVE  MaximaOrdered' /\ UpdateInOrder'
  BY <1>2 DEF Invoke, storeVars
<1>3. ASSUME NEW c \in Callers, SendUpdate(c) \/ SendQuery(c) \/ Receive(c)
      PROVE  MaximaOrdered' /\ UpdateInOrder'
  BY <1>3 DEF SendUpdate, SendQuery, Receive, storeVars
<1>4. CASE RunGlobal
  BY <1>4 DEF RunGlobal, updateGlobalHeight, Larger
<1>5. CASE RunGroup
  BY <1>5 DEF RunGroup, updateHeightForGroup, Larger
<1>6. CASE RunUpstream
  BY <1>6 DEF RunUpstream, updateHeightForUpstream
<1>7. CASE RunError \/ RunQuery
  BY <1>7 DEF RunError, RunQuery, storeVars
<1> QED
  BY <1>1, <1>2, <1>3, <1>4, <1>5, <1>6, <1>7 DEF Next, Serve

LEMMA ReplyStep == IInv /\ [Next]_vars => ReplyCurrent'
<1> SUFFICES ASSUME IInv, [Next]_vars PROVE ReplyCurrent'
  OBVIOUS
<1> USE DEF IInv, ReplyCurrent, Handshake
<1>1. CASE UNCHANGED vars
  BY <1>1 DEF vars, storeVars, GetBlockHeightStatus
<1>2. ASSUME NEW c \in Callers,
             Invoke(c) \/ SendUpdate(c) \/ SendQuery(c) \/ Receive(c)
      PROVE  ReplyCurrent'
  BY <1>2 DEF Invoke, SendUpdate, SendQuery, Receive, storeVars,
              GetBlockHeightStatus
<1>3. CASE RunGlobal \/ RunGroup \/ RunUpstream \/ RunError
  BY <1>3 DEF RunGlobal, RunGroup, RunUpstream, RunError
<1>4. CASE RunQuery
  BY <1>4 DEF RunQuery, storeVars, GetBlockHeightStatus
<1> QED
  BY <1>1, <1>2, <1>3, <1>4 DEF Next, Serve

(***************************************************************************)
(* A status only changes when its caller receives a reply, and the reply   *)
(* is what the store holds at that moment.                                 *)
(***************************************************************************)
LEMMA ReceivedStatus ==
    ASSUME IInv, NEW c \in Callers, Receive(c)
    PROVE  /\ status' = [status EXCEPT ![c] = GetBlockHeightStatus(op.upstream)]
           /\ op.upstream \in Upstreams
           /\ UNCHANGED storeVars
  BY CallKinds DEF IInv, ReplyCurrent, Handshake, Receive

LEMMA StatusBoundedStep == IInv /\ [Next]_vars => StatusBounded'
<1> SUFFICES ASSUME IInv, [Next]_vars, NEW c \in Callers, status'[c] # NoStatus
             PROVE  /\ status'[c].BlockHeight <= status'[c].GroupMaxBlockHeight
                    /\ status'[c].GroupMaxBlockHeight <=
                          status'[c].GlobalMaxBlockHeight
                    /\ status'[c].GroupMaxBlockHeight <=
                          maxHeightByGroupID'[GroupOf[status'[c].UpstreamID]]
                    /\ status'[c].GlobalMaxBlockHeight <= globalMaxHeight'
  BY DEF StatusBounded
<1>1. CASE status'[c] = status[c]
  <2>1. status[c] \in BlockHeightStatus /\ TypeOK'
    BY <1>1, TypeStep DEF IInv, TypeOK
  <2>2. GroupOf[status[c].UpstreamID] \in Groups
    BY <2>1, GroupOfAssumption DEF BlockHeightStatus
  <2>3. MaximaGrow
    BY MaximaGrowStep DEF IInv
  <2> QED
    BY <1>1, <2>1, <2>2, <2>3
    DEF IInv, StatusBounded, MaximaGrow, TypeOK, StoreTypeOK, BlockHeightStatus
<1>2. ASSUME NEW d \in Callers, Receive(d), d = c PROVE
                    /\ status'[c].BlockHeight <= status'[c].GroupMaxBlockHeight
                    /\ status'[c].GroupMaxBlockHeight <=
                          status'[c].GlobalMaxBlockHeight
                    /\ status'[c].GroupMaxBlockHeight <=
                          maxHeightByGroupID'[GroupOf[status'[c].UpstreamID]]
                    /\ status'[c].GlobalMaxBlockHeight <= globalMaxHeight'
  <2>1. /\ status'[c] = GetBlockHeightStatus(op.upstream)
        /\ op.upstream \in Upstreams
        /\ UNCHANGED storeVars
    BY <1>2, ReceivedStatus DEF IInv, TypeOK
  <2> QED
    BY <2>1, GroupOfAssumption
    DEF GetBlockHeightStatus, storeVars, IInv, MaximaOrdered, TypeOK, StoreTypeOK
<1>3. status'[c] = status[c] \/ \E d \in Callers : Receive(d) /\ d = c
  BY DEF Next, Serve, RunGlobal, RunGroup, RunUpstream, RunError, RunQuery,
         Invoke, SendUpdate, SendQuery, Receive, vars, IInv, TypeOK
<1> QED
  BY <1>1, <1>2, <1>3

LEMMA IInvStep == IInv /\ [Next]_vars => IInv'
  BY TypeStep, HandshakeStep, MaximaOrderedStep, ReplyStep, StatusBoundedStep
  DEF IInv

LEMMA IInvInvariant == Spec => []IInv
  BY InitIInv, IInvStep, PTL DEF Spec
-----------------------------------------------------------------------------
(***************************************************************************)
(* The variables keep their types, whatever calls are made.                *)
(***************************************************************************)
THEOREM TypeInvariance == Spec => []TypeOK
<1>1. IInv => TypeOK
  BY DEF IInv
<1> QED
  BY <1>1, IInvInvariant, PTL

(***************************************************************************)
(* A status a caller received never shows a height above its group's       *)
(* maximum or a group maximum above the global one.                        *)
(***************************************************************************)
THEOREM StatusIsConsistent == Spec => []StatusConsistent
<1>1. IInv => StatusConsistent
  BY DEF IInv, StatusBounded, StatusConsistent
<1> QED
  BY <1>1, IInvInvariant, PTL

(***************************************************************************)
(* No caller sees the maxima go back between two of its queries.           *)
(***************************************************************************)
THEOREM CallersSeeMaximaGrowing == Spec => CallersSeeMaximaGrow
<1>1. IInv /\ [Next]_vars => [StatusMaximaGrow]_vars
  <2> SUFFICES ASSUME IInv, [Next]_vars,
                      NEW c \in Callers, status[c] # NoStatus,
                      status'[c] # status[c]
               PROVE  /\ status[c].GlobalMaxBlockHeight <=
                            status'[c].GlobalMaxBlockHeight
                      /\ GroupOf[status[c].UpstreamID] =
                            GroupOf[status'[c].UpstreamID] =>
                         status[c].GroupMaxBlockHeight <=
                            status'[c].GroupMaxBlockHeight
    BY DEF StatusMaximaGrow
  <2>1. Receive(c)
    BY DEF Next, Serve, RunGlobal, RunGroup, RunUpstream, RunError, RunQuery,
           Invoke, SendUpdate, SendQuery, Receive, vars, IInv, TypeOK
  <2>2. /\ status'[c] = GetBlockHeightStatus(op.upstream)
        /\ op.upstream \in Upstreams
    BY <2>1, ReceivedStatus DEF IInv, TypeOK
  <2> QED
    BY <2>2 DEF GetBlockHeightStatus, IInv, StatusBounded
<1> QED
  BY <1>1, IInvInvariant, PTL DEF Spec, CallersSeeMaximaGrow
-----------------------------------------------------------------------------
(***************************************************************************)
(* Refinement.  The server's own statements are stutters of the atomic     *)
(* store; a rendezvous on opChannel is the step at which a call takes      *)
(* effect; the rendezvous on returnChannel is the return of a query.       *)
(***************************************************************************)
LEMMA InitRefines == Init => Atomic!AtomicInit
  BY DEF Init, StoreInit, Atomic!AtomicInit, Atomic!StoreInit, AtomicGlobalMax,
         AtomicMaxByGroup, AtomicHeight, AtomicError, AtomicStatus,
         NoCall, Atomic!NoCall

LEMMA InvokeRefines ==
    ASSUME IInv, NEW c \in Callers, Invoke(c)
    PROVE  Atomic!Invoke(c)
  BY DEF IInv, TypeOK, Handshake, Invoke, storeVars, Atomic!Invoke,
         Atomic!storeVars, AtomicGlobalMax, AtomicMaxByGroup, AtomicHeight,
         AtomicError, AtomicStatus, NoCall, Atomic!NoCall, GetBlockHeightStatus

LEMMA ServeRefines ==
    ASSUME IInv, Serve
    PROVE  UNCHANGED Atomic!atomicVars
<1> USE DEF IInv, TypeOK, StoreTypeOK, Handshake
<1>1. UNCHANGED AtomicGlobalMax
  BY DEF Serve, RunGlobal, RunGroup, RunUpstream, RunError, RunQuery, storeVars,
         updateGlobalHeight, AtomicGlobalMax
<1>2. UNCHANGED AtomicMaxByGroup
  BY DEF Serve, RunGlobal, RunGroup, RunUpstream, RunError, RunQuery, storeVars,
         updateHeightForGroup, AtomicMaxByGroup
<1>3. UNCHANGED AtomicHeight
  BY DEF Serve, RunGlobal, RunGroup, RunUpstream, RunError, RunQuery, storeVars,
         updateHeightForUpstream, AtomicHeight
<1>4. UNCHANGED AtomicError
  BY DEF Serve, RunGlobal, RunGroup, RunUpstream, RunError, RunQuery, storeVars,
         updateErrorForUpstream, AtomicError
<1>5. UNCHANGED AtomicStatus
  BY DEF Serve, RunGlobal, RunGroup, RunUpstream, RunError, RunQuery, storeVars,
         AtomicStatus, GetBlockHeightStatus
<1>6. UNCHANGED <<callerPC, call>>
  BY DEF Serve, RunGlobal, RunGroup, RunUpstream, RunError, RunQuery
<1> QED
  BY <1>1, <1>2, <1>3, <1>4, <1>5, <1>6 DEF Atomic!atomicVars, Atomic!storeVars

LEMMA SendUpdateRefines ==
    ASSUME IInv, NEW c \in Callers, SendUpdate(c)
    PROVE  Atomic!Update(c)
<1> USE CallKinds DEF IInv, TypeOK, StoreTypeOK, Handshake, SendUpdate, storeVars
<1>1. /\ c \in {x \in Callers : callerPC[x] = "send"}
      /\ {x \in Callers : callerPC'[x] = "send"} =
            {x \in Callers : callerPC[x] = "send"} \ {c}
      /\ call' = [call EXCEPT ![c] = Atomic!NoCall]
      /\ UNCHANGED AtomicStatus
  BY DEF NoCall, Atomic!NoCall, AtomicStatus
<1>2. CASE call[c] \in HeightUpdate
  <2>1. Atomic!ProcessBlockHeightUpdate(call[c].upstream, call[c].height)
    BY <1>2 DEF Atomic!ProcessBlockHeightUpdate, Atomic!updateGlobalHeight,
                Atomic!updateHeightForGroup, Atomic!updateHeightForUpstream,
                Atomic!updateErrorForUpstream, AtomicGlobalMax,
                AtomicMaxByGroup, AtomicHeight, AtomicError,
                Larger, Atomic!Larger
  <2>2. call[c] \in Atomic!HeightUpdate
    BY <1>2 DEF HeightUpdate, Atomic!HeightUpdate
  <2> QED
    BY <1>1, <2>1, <2>2 DEF Atomic!Update
<1>3. CASE call[c] \in ErrorUpdate
  <2>1. Atomic!ProcessErrorUpdate(call[c].upstream, call[c].error)
    BY <1>3 DEF Atomic!ProcessErrorUpdate, Atomic!updateErrorForUpstream,
                AtomicGlobalMax, AtomicMaxByGroup, AtomicHeight, AtomicError
  <2>2. call[c] \in Atomic!ErrorUpdate
    BY <1>3 DEF ErrorUpdate, Atomic!ErrorUpdate
  <2> QED
    BY <1>1, <2>1, <2>2 DEF Atomic!Update
<1> QED
  BY <1>2, <1>3

LEMMA SendQueryRefines ==
    ASSUME IInv, NEW c \in Callers, SendQuery(c)
    PROVE  Atomic!Query(c)
<1> USE CallKinds DEF IInv, TypeOK, Handshake, SendQuery, storeVars
<1>1. /\ c \in {x \in Callers : callerPC[x] = "send"}
      /\ {x \in Callers : callerPC'[x] = "send"} =
            {x \in Callers : callerPC[x] = "send"} \ {c}
      /\ call[c] \in Atomic!StatusQuery
  BY DEF StatusQuery, Atomic!StatusQuery
<1>2. /\ UNCHANGED <<AtomicGlobalMax, AtomicMaxByGroup, AtomicHeight, AtomicError>>
      /\ AtomicGlobalMax = globalMaxHeight
      /\ AtomicMaxByGroup = maxHeightByGroupID
      /\ AtomicHeight = heightByUpstreamID
      /\ AtomicError = errorByUpstreamID
  BY DEF AtomicGlobalMax, AtomicMaxByGroup, AtomicHeight, AtomicError
<1>3. AtomicStatus' = [AtomicStatus EXCEPT ![c] =
                          Atomic!GetBlockHeightStatus(call[c].upstream)]
  BY <1>2 DEF AtomicStatus, GetBlockHeightStatus, Atomic!GetBlockHeightStatus
<1> QED
  BY <1>1, <1>2, <1>3 DEF Atomic!Query, Atomic!storeVars

LEMMA ReceiveRefines ==
    ASSUME IInv, NEW c \in Callers, Receive(c)
    PROVE  Atomic!Return(c)
<1> USE CallKinds DEF IInv, TypeOK, Handshake
<1>1. UNCHANGED <<AtomicGlobalMax, AtomicMaxByGroup, AtomicHeight, AtomicError>>
  BY DEF Receive, storeVars, AtomicGlobalMax, AtomicMaxByGroup, AtomicHeight,
         AtomicError
<1>2. UNCHANGED AtomicStatus
  <2>1. /\ status' = [status EXCEPT ![c] = GetBlockHeightStatus(op.upstream)]
        /\ opCaller = {c}
        /\ opCaller' = {}
    BY ReceivedStatus DEF Receive
  <2> QED
    BY <2>1 DEF AtomicStatus
<1>3. /\ call[c] # Atomic!NoCall
      /\ c \notin {x \in Callers : callerPC[x] = "send"}
      /\ call' = [call EXCEPT ![c] = Atomic!NoCall]
      /\ {x \in Callers : callerPC'[x] = "send"} =
            {x \in Callers : callerPC[x] = "send"}
  BY DEF Receive, NoCall, Atomic!NoCall
<1> QED
  BY <1>1, <1>2, <1>3 DEF Atomic!Return, Atomic!storeVars

(***************************************************************************)
(* The channel and the one server goroutine make the store an atomic       *)
(* object, for every set of callers.                                       *)
(***************************************************************************)
THEOREM Refinement == Spec => ImplementsAtomic
<1>1. IInv /\ [Next]_vars => [Atomic!AtomicNext]_(Atomic!atomicVars)
  <2> SUFFICES ASSUME IInv, [Next]_vars
               PROVE  Atomic!AtomicNext \/ UNCHANGED Atomic!atomicVars
    OBVIOUS
  <2>1. CASE UNCHANGED vars
    BY <2>1 DEF vars, storeVars, Atomic!atomicVars, Atomic!storeVars,
       AtomicGlobalMax, AtomicMaxByGroup, AtomicHeight, AtomicError,
       AtomicStatus, GetBlockHeightStatus
  <2>2. CASE Serve
    BY <2>2, ServeRefines
  <2>3. ASSUME NEW c \in Callers,
               Invoke(c) \/ SendUpdate(c) \/ SendQuery(c) \/ Receive(c)
        PROVE  Atomic!AtomicNext
    BY <2>3, InvokeRefines, SendUpdateRefines, SendQueryRefines, ReceiveRefines
    DEF Atomic!AtomicNext
  <2> QED
    BY <2>1, <2>2, <2>3 DEF Next
<1> QED
  BY <1>1, InitRefines, IInvInvariant, PTL
  DEF Spec, ImplementsAtomic, Atomic!AtomicSpec
=============================================================================
