------------------------- MODULE PriorityRoundRobin -------------------------
(***************************************************************************)
(* PriorityRoundRobinStrategy of internal/route/routing_strategy.go.  All  *)
(* requests of a chain share one counter.  A request adds one to it with   *)
(* an atomic instruction, and then reads it again, in a separate step, to  *)
(* index the upstreams of the best priority that has any.                  *)
(*                                                                         *)
(* The counter is an unsigned word that is converted to a signed one; Go's *)
(* remainder has the sign of the dividend, and a negative index panics.    *)
(***************************************************************************)
EXTENDS Integers, Sequences, FiniteSets, SequencesExt

CONSTANTS
    Requests, Upstreams,
    WordValues,          \* how many values a word has: 2^64 in the code
    NoUpstream, Panic,   \* "no healthy upstreams found"; index out of range
    MaxRequests          \* bound: requests that the counter serves in a run

ASSUME RoundRobinConstants ==
    /\ WordValues \in Nat /\ WordValues >= 4 /\ WordValues % 2 = 0
    /\ MaxRequests \in Nat
    /\ NoUpstream \notin Upstreams /\ Panic \notin Upstreams \cup {NoUpstream}

VARIABLES
    counter,
    pc, upstreams,      \* each request: where it is, and the list it indexes
    result,             \* its last result
    served,             \* how many requests have been started
    recent              \* the last picks, fewer than twice through the list, of
                        \* requests that had one list and did not overlap

roundRobinVars == <<counter, pc, upstreams, result, served, recent>>

RoundRobinTypeOK ==
    /\ counter \in 0..(WordValues - 1)
    /\ pc \in [Requests -> {"idle", "add", "index"}]
    /\ upstreams \in [Requests -> Seq(Upstreams)]
    /\ result \in [Requests -> Upstreams \cup {NoUpstream, Panic}]
    /\ served \in 0..MaxRequests
    /\ recent \in [list : Seq(Upstreams), picks : Seq(Upstreams)]

NothingRecent == [list |-> <<>>, picks |-> <<>>]

RoundRobinInit ==
    /\ counter = 0
    /\ pc = [r \in Requests |-> "idle"]
    /\ upstreams = [r \in Requests |-> <<>>]
    /\ result = [r \in Requests |-> NoUpstream]
    /\ served = 0
    /\ recent = NothingRecent

-----------------------------------------------------------------------------
\* The first priority in sorted order with an upstream, if there is one.
BestPriority(input) ==
    {p \in DOMAIN input : input[p] # <<>> /\
        \A q \in DOMAIN input : input[q] # <<>> => p <= q}

\* The values of a word that a signed one has too.
Half == WordValues \div 2

\* int(counter): two's complement.
Signed(word) == IF word < Half THEN word ELSE word - WordValues

\* Mutant: the remainder is one too large.
RemPlusOne(a, b) == IF a >= 0 THEN (a % b) + 1 ELSE -((-a) % b)

\* a % b in Go truncates towards zero.
Rem(a, b) == IF a >= 0 THEN a % b ELSE -((-a) % b)

\* upstreams[int(s.counter)%len(upstreams)]
AtIndex(list, word) ==
    LET i == Rem(Signed(word), Len(list)) IN
    IF i < 0 \/ i >= Len(list) THEN Panic ELSE list[i + 1]

\* recent after a pick.  An overlapping request ends the series of picks,
\* another list starts a new one.
Continued(r, pick) ==
    LET list == upstreams[r]
        picks == Append(IF recent.list = list THEN recent.picks ELSE <<>>, pick)
    IN IF pick = Panic \/ \E q \in Requests \ {r} : pc[q] # "idle"
       THEN NothingRecent
       ELSE [list |-> list,
             picks |-> SubSeq(picks, 1 + Len(picks) - Min({Len(picks), Len(list)}),
                              Len(picks))]

\* RouteNextRequest up to the atomic add: choose the list.  input maps
\* priorities to the IDs of their upstreams.
RouteNextRequest(r, input) ==
    /\ pc[r] = "idle"
    /\ served < MaxRequests
    /\ served' = served + 1
    /\ \/ /\ BestPriority(input) = {}
          /\ result' = [result EXCEPT ![r] = NoUpstream]
          /\ UNCHANGED <<pc, upstreams>>
       \/ \E p \in BestPriority(input) :
             /\ upstreams' = [upstreams EXCEPT ![r] = input[p]]
             /\ pc' = [pc EXCEPT ![r] = "add"]
             /\ UNCHANGED result
    /\ UNCHANGED <<counter, recent>>

\* Mutants: the sum does not wrap around; every request adds twice.
AddWithoutWrap(r) ==
    /\ pc[r] = "add"
    /\ counter' = counter + 1
    /\ pc' = [pc EXCEPT ![r] = "index"]
    /\ UNCHANGED <<upstreams, result, served, recent>>
AddTwice(r) ==
    /\ pc[r] = "add"
    /\ counter' = (counter + 2) % WordValues
    /\ pc' = [pc EXCEPT ![r] = "index"]
    /\ UNCHANGED <<upstreams, result, served, recent>>

AddUint64(r) ==
    /\ pc[r] = "add"
    /\ counter' = (counter + 1) % WordValues
    /\ pc' = [pc EXCEPT ![r] = "index"]
    /\ UNCHANGED <<upstreams, result, served, recent>>

Index(r) ==
    LET pick == AtIndex(upstreams[r], counter) IN
    /\ pc[r] = "index"
    /\ pc' = [pc EXCEPT ![r] = "idle"]
    /\ result' = [result EXCEPT ![r] = pick]
    /\ recent' = Continued(r, pick)
    /\ UNCHANGED <<counter, upstreams, served>>

-----------------------------------------------------------------------------
(***************************************************************************)
(* Round robin, as far as the code keeps it: requests that find the same   *)
(* list and do not overlap are spread evenly, each turn through the list   *)
(* picking every upstream once.                                            *)
(***************************************************************************)
SerialRequestsTakeTurns == IsInjective(recent.picks)

(***************************************************************************)
(* The conversion of the counter to int panics a request, but not before   *)
(* half of all its values have been used up.                               *)
(***************************************************************************)
NoPanicBeforeOverflow ==
    \A r \in Requests : result[r] = Panic => served >= Half
=============================================================================
