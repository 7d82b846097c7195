--------------------------- MODULE CircuitBreaker ---------------------------
(***************************************************************************)
(* The circuit breaker of failsafe-go (external) as NewCircuitBreaker in   *)
(* internal/checks/common.go sets it up: it opens when, of the executions  *)
(* recorded within the detection window, of which there must be at least   *)
(* MinNumRequestsForRate, the failures reach the given percentage, and it  *)
(* then delays for the ban window.  Its methods are atomic.                *)
(*                                                                         *)
(* A breaker is a record: its state, the outcomes still in the detection   *)
(* window (oldest first), and the delay that remains.  The field ban is    *)
(* not the library's: it counts down the ban window of the last opening    *)
(* whatever happens to the breaker, for the properties to speak about.     *)
(***************************************************************************)
EXTENDS Integers, Sequences, FiniteSets

CONSTANTS
    MinNumRequestsForRate,   \* 3 in the code
    BanWindow,               \* in ticks
    WindowSize               \* bound: outcomes the detection window holds

ASSUME BreakerConstants ==
    /\ MinNumRequestsForRate \in Nat \ {0}
    /\ BanWindow \in Nat \ {0}
    /\ WindowSize \in Nat /\ WindowSize >= MinNumRequestsForRate

Breaker == [state : {"closed", "open"}, failed : Seq(BOOLEAN),
            delay : 0..BanWindow, ban : 0..BanWindow]

NewCircuitBreaker ==
    [state |-> "closed", failed |-> <<>>, delay |-> 0, ban |-> 0]

Failures(failed) == Cardinality({i \in DOMAIN failed : failed[i]})

TooManyFailures(failed, percent) ==
    /\ Len(failed) >= MinNumRequestsForRate
    /\ 100 * Failures(failed) >= percent * Len(failed)

\* The outcomes after one more; a full window drops its oldest.
Recorded(failed, isFailure) ==
    Append(IF Len(failed) = WindowSize THEN Tail(failed) ELSE failed, isFailure)

\* RecordFailure and RecordSuccess.  An open breaker ignores outcomes.
Record(b, isFailure, percent) ==
    LET failed == Recorded(b.failed, isFailure) IN
    IF b.state = "open" THEN b
    ELSE IF TooManyFailures(failed, percent)
         THEN [state |-> "open", failed |-> <<>>,
               delay |-> BanWindow, ban |-> BanWindow]
         ELSE [b EXCEPT !.failed = failed]

\* Mutant: asks IsOpen() of the library, which does not look at the delay.
IsDelayingIfOpen(b) == b.state = "open"

\* RemainingDelay() > 0.  Only time changes the delay of an open breaker.
IsDelaying(b) == b.state = "open" /\ b.delay > 0

\* Close: nothing if closed, otherwise closed with an empty window.
Close(b) ==
    IF b.state = "open" THEN [NewCircuitBreaker EXCEPT !.ban = b.ban] ELSE b

\* Mutant: counts below zero.
LessBelowZero(n) == n - 1

Less(n) == IF n > 0 THEN n - 1 ELSE 0

Tick(b) == [b EXCEPT !.delay = Less(@), !.ban = Less(@)]

\* The oldest outcome leaves the detection window.
Expire(b) == [b EXCEPT !.failed = IF @ = <<>> THEN @ ELSE Tail(@)]
=============================================================================
