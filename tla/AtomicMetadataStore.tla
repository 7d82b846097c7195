------------------------ MODULE AtomicMetadataStore ------------------------
(***************************************************************************)
(* What ChainMetadataStore promises the goroutines that call it: an atomic *)
(* object.  Each call takes effect in one step between its invocation and  *)
(* its return.  In particular a height or error update has taken effect    *)
(* when the call returns, and a status is a snapshot of all four maps.     *)
(***************************************************************************)
EXTENDS StoreCalls

VARIABLES
    call,        \* the call each caller is in, or NoCall
    pending,     \* the callers whose call has not taken effect
    status       \* the status each caller last received

atomicVars == <<storeVars, call, pending, status>>

AtomicTypeOK ==
    /\ StoreTypeOK
    /\ call \in [Callers -> Calls \cup {NoCall}]
    /\ pending \subseteq Callers
    /\ status \in [Callers -> BlockHeightStatus \cup {NoStatus}]

AtomicInit ==
    /\ StoreInit
    /\ call = [c \in Callers |-> NoCall]
    /\ pending = {}
    /\ status = [c \in Callers |-> NoStatus]

-----------------------------------------------------------------------------
Invoke(c) ==
    /\ call[c] = NoCall
    /\ \E op \in CallsOf[c] : call' = [call EXCEPT ![c] = op]
    /\ pending' = pending \cup {c}
    /\ UNCHANGED <<storeVars, status>>

\* An update takes effect; its caller may return in the same step.
Update(c) ==
    /\ c \in pending
    /\ \/ /\ call[c] \in HeightUpdate
          /\ ProcessBlockHeightUpdate(call[c].upstream, call[c].height)
       \/ /\ call[c] \in ErrorUpdate
          /\ ProcessErrorUpdate(call[c].upstream, call[c].error)
    /\ pending' = pending \ {c}
    /\ call' = [call EXCEPT ![c] = NoCall]
    /\ UNCHANGED status

\* A status is read; it is handed to the caller when the call returns.
Query(c) ==
    /\ c \in pending
    /\ call[c] \in StatusQuery
    /\ status' = [status EXCEPT ![c] = GetBlockHeightStatus(call[c].upstream)]
    /\ pending' = pending \ {c}
    /\ UNCHANGED <<storeVars, call>>

Return(c) ==
    /\ call[c] # NoCall
    /\ c \notin pending
    /\ call' = [call EXCEPT ![c] = NoCall]
    /\ UNCHANGED <<storeVars, pending, status>>

AtomicNext == \E c \in Callers : Invoke(c) \/ Update(c) \/ Query(c) \/ Return(c)

AtomicSpec == AtomicInit /\ [][AtomicNext]_atomicVars
=============================================================================
