----------------------------- MODULE PeerCheck -----------------------------
(***************************************************************************)
(* internal/checks/peers.go for one upstream, and the filter HasEnoughPeers*)
(* of internal/route/node_filter.go, which reads its fields without a lock *)
(* while the goroutine of the manager writes them.                         *)
(*                                                                         *)
(* Each call of net_peerCount may fail, be refused as an unsupported       *)
(* method, or return a number of peers.                                    *)
(***************************************************************************)
EXTENDS Integers, FiniteSets

CONSTANTS
    SkipPeerCountCheck,           \* the configurations of upstreams to consider
    MinimumPeerCount,             \* 3 in the code
    MaxPeers,                     \* bound on peer counts
    Requests,
    NoErr, Failed, Unsupported    \* values of Err

ASSUME PeerCheckConstants ==
    /\ SkipPeerCountCheck \subseteq BOOLEAN
    /\ MinimumPeerCount \in Nat \ {0}
    /\ MaxPeers \in Nat /\ MaxPeers >= MinimumPeerCount
    /\ Cardinality({NoErr, Failed, Unsupported}) = 3

VARIABLES
    hasClient, Err, PeerCount, ShouldRun,    \* the fields of PeerCheck
    pc,               \* where the goroutine that builds and then runs it is
    initializing,     \* runCheck was called by Initialize
    published,        \* the check is built and in the manager's map
    answer,           \* the last answer of the upstream
    sawEnough,        \* ghost: some answer had enough peers
    filter,           \* where the filter of each request is
    verdict           \* the last result of each request's filter

vars == <<hasClient, Err, PeerCount, ShouldRun, pc, initializing, published,
          answer, sawEnough, filter, verdict>>

Errors == {Failed, Unsupported}
Count(n) == [err |-> NoErr, peers |-> n]
Error(e) == [err |-> e, peers |-> 0]
Answers == {Count(n) : n \in 0..MaxPeers} \cup {Error(e) : e \in Errors}

Enough(a) == a.err = NoErr /\ a.peers >= MinimumPeerCount

TypeOK ==
    /\ hasClient \in BOOLEAN
    /\ Err \in {NoErr} \cup Errors
    /\ PeerCount \in 0..MaxPeers
    /\ ShouldRun \in BOOLEAN
    /\ pc \in {"initialize", "call", "storeErr", "storeCount", "verify", "run", "idle"}
    /\ initializing \in BOOLEAN
    /\ published \in BOOLEAN
    /\ answer \in Answers
    /\ sawEnough \in BOOLEAN
    /\ filter \in [Requests -> {"idle", "err", "count"}]
    /\ verdict \in [Requests -> {"none", "passes", "fails"}]

\* NewPeerChecker calls Initialize.
Init ==
    /\ hasClient = FALSE
    /\ Err = NoErr
    /\ PeerCount = 0
    /\ ShouldRun \in {~skip : skip \in SkipPeerCountCheck}
    /\ pc = "initialize"
    /\ initializing = TRUE
    /\ published = FALSE
    /\ answer = Error(Failed)
    /\ sawEnough = FALSE
    /\ filter = [r \in Requests |-> "idle"]
    /\ verdict = [r \in Requests |-> "none"]

filterVars == <<filter, verdict>>

\* Where Initialize returns to: the constructor, or RunCheck.
AfterInitialize ==
    /\ initializing' = FALSE
    /\ published' = TRUE
    /\ pc' = IF published THEN "run" ELSE "idle"

DialFails ==
    /\ pc = "initialize"
    /\ Err' = Failed
    /\ AfterInitialize
    /\ UNCHANGED <<hasClient, PeerCount, ShouldRun, answer, sawEnough,
                   filterVars>>

Dial ==
    /\ pc = "initialize"
    /\ hasClient' = TRUE
    /\ pc' = "call"
    /\ UNCHANGED <<Err, PeerCount, ShouldRun, initializing, published, answer,
                   sawEnough, filterVars>>

\* c.client.PeerCount returns.
Call(a) ==
    /\ pc = "call"
    /\ pc' = "storeErr"
    /\ answer' = a
    /\ sawEnough' = (sawEnough \/ Enough(a))
    /\ UNCHANGED <<hasClient, Err, PeerCount, ShouldRun, initializing,
                   published, filterVars>>

\* Mutant: the goroutine ends with the first RunCheck.
AfterLastRunCheck == IF initializing THEN "verify" ELSE "returned"

AfterRunCheck == IF initializing THEN "verify" ELSE "idle"

StoreErr ==
    /\ pc = "storeErr"
    /\ Err' = answer.err
    /\ pc' = IF answer.err = NoErr THEN "storeCount" ELSE AfterRunCheck
    /\ UNCHANGED <<hasClient, PeerCount, ShouldRun, initializing, published,
                   answer, sawEnough, filterVars>>

StoreCount ==
    /\ pc = "storeCount"
    /\ PeerCount' = answer.peers
    /\ pc' = AfterRunCheck
    /\ UNCHANGED <<hasClient, Err, ShouldRun, initializing, published, answer,
                   sawEnough, filterVars>>

\* The end of Initialize: do not run a check that is not supported.
VerifySupported ==
    /\ pc = "verify"
    /\ ShouldRun' = (ShouldRun /\ Err # Unsupported)
    /\ AfterInitialize
    /\ UNCHANGED <<hasClient, Err, PeerCount, answer, sawEnough, filterVars>>

\* Mutant: an upstream without a client is not connected to again.
RunCheckWithoutRetry ==
    /\ pc = "idle"
    /\ pc' = "run"
    /\ UNCHANGED <<hasClient, Err, PeerCount, ShouldRun, initializing,
                   published, answer, sawEnough, filterVars>>

\* The manager calls RunCheck.
RunCheck ==
    /\ pc = "idle"
    /\ pc' = IF hasClient THEN "run" ELSE "initialize"
    /\ initializing' = ~hasClient
    /\ UNCHANGED <<hasClient, Err, PeerCount, ShouldRun, published, answer,
                   sawEnough, filterVars>>

\* The second half of RunCheck, and the guard of runCheck.
RunIfSupported ==
    /\ pc = "run"
    /\ pc' = IF ShouldRun /\ hasClient THEN "call" ELSE "idle"
    /\ UNCHANGED <<hasClient, Err, PeerCount, ShouldRun, initializing,
                   published, answer, sawEnough, filterVars>>

-----------------------------------------------------------------------------
(* HasEnoughPeers.Apply reads the three fields one after the other.        *)

Verdict(r, v) ==
    /\ filter' = [filter EXCEPT ![r] = "idle"]
    /\ verdict' = [verdict EXCEPT ![r] = v]

ReadShouldRun(r) ==
    /\ published
    /\ filter[r] = "idle"
    /\ IF ShouldRun
       THEN filter' = [filter EXCEPT ![r] = "err"] /\ UNCHANGED verdict
       ELSE Verdict(r, "passes")
    /\ UNCHANGED <<hasClient, Err, PeerCount, ShouldRun, pc, initializing,
                   published, answer, sawEnough>>

ReadErr(r) ==
    /\ filter[r] = "err"
    /\ IF Err = NoErr
       THEN filter' = [filter EXCEPT ![r] = "count"] /\ UNCHANGED verdict
       ELSE Verdict(r, "fails")
    /\ UNCHANGED <<hasClient, Err, PeerCount, ShouldRun, pc, initializing,
                   published, answer, sawEnough>>

\* Mutant: one peer fewer is enough.
ReadPeerCountOneFewer(r) ==
    /\ filter[r] = "count"
    /\ Verdict(r, IF PeerCount + 1 >= MinimumPeerCount THEN "passes" ELSE "fails")
    /\ UNCHANGED <<hasClient, Err, PeerCount, ShouldRun, pc, initializing,
                   published, answer, sawEnough>>

ReadPeerCount(r) ==
    /\ filter[r] = "count"
    /\ Verdict(r, IF PeerCount >= MinimumPeerCount THEN "passes" ELSE "fails")
    /\ UNCHANGED <<hasClient, Err, PeerCount, ShouldRun, pc, initializing,
                   published, answer, sawEnough>>

CheckStep ==
    \/ DialFails
    \/ Dial
    \/ \E a \in Answers : Call(a)
    \/ StoreErr
    \/ StoreCount
    \/ VerifySupported
    \/ RunCheck
    \/ RunIfSupported

HasEnoughPeers(r) == ReadShouldRun(r) \/ ReadErr(r) \/ ReadPeerCount(r)

Next == CheckStep \/ \E r \in Requests : HasEnoughPeers(r)

Spec == Init /\ [][Next]_vars

(***************************************************************************)
(* Calls and dials time out and the manager runs the check again and again;*)
(* a dial that is tried over and over succeeds at last.                    *)
(***************************************************************************)
FairSpec ==
    /\ Spec
    /\ WF_vars(CheckStep)
    /\ SF_vars(Dial)
    /\ \A r \in Requests : WF_vars(HasEnoughPeers(r))

-----------------------------------------------------------------------------
(***************************************************************************)
(* Although the filter reads while the check writes, it never passes an    *)
(* upstream whose check is run unless the upstream has once had enough     *)
(* peers: a check that is half built or half done is not enough.           *)
(***************************************************************************)
PassesOnEvidence ==
    \A r \in Requests : verdict[r] = "passes" /\ ShouldRun => sawEnough

(***************************************************************************)
(* One bad answer, or a dial that failed while the gateway started, does   *)
(* not shut an upstream out: if from some time on it only gives answers    *)
(* with enough peers, the filters pass it in the end.                      *)
(***************************************************************************)
AnswersEnough == \A a \in Answers : Call(a) => Enough(a)

HealthyPasses ==
    \A r \in Requests : <>[][AnswersEnough]_vars => <>[](verdict[r] = "passes")
=============================================================================
