--------------------------- MODULE PeerCheck_proofs ---------------------------
(***************************************************************************)
(* Proofs about PeerCheck, for every minimum, every bound on peer counts,  *)
(* every set of requests and every configuration of upstreams.             *)
(***************************************************************************)
EXTENDS PeerCheck, FiniteSetTheorems, TLAPS

(***************************************************************************)
(* Where the evidence for a passing count is: in the answer on its way to  *)
(* the fields, in the field, or nowhere yet.                               *)
(***************************************************************************)
Evidence ==
    /\ pc \in {"storeErr", "storeCount"} /\ Enough(answer) => sawEnough
    /\ pc = "storeCount" => answer.err = NoErr
    /\ PeerCount >= MinimumPeerCount => sawEnough

IInv == TypeOK /\ Evidence /\ PassesOnEvidence
-----------------------------------------------------------------------------
LEMMA ErrsDistinct == NoErr \notin Errors
  <1> SUFFICES ASSUME NoErr \in Errors PROVE FALSE
    OBVIOUS
  <1>1. {NoErr, Failed, Unsupported} = {Failed} \cup {Unsupported}
    BY DEF Errors
  <1>2. /\ IsFiniteSet({Failed}) /\ Cardinality({Failed}) = 1
        /\ IsFiniteSet({Unsupported}) /\ Cardinality({Unsupported}) = 1
    BY FS_Singleton
  <1>3. /\ Cardinality({Failed} \cap {Unsupported}) \in Nat
        /\ Cardinality({Failed} \cup {Unsupported}) =
              1 + 1 - Cardinality({Failed} \cap {Unsupported})
    BY <1>2, FS_Union, FS_Intersection, FS_CardinalityType
  <1> QED
    BY <1>1, <1>3, PeerCheckConstants

LEMMA AnswerKinds ==
    \A a \in Answers :
        /\ a.err \in {NoErr} \cup Errors
        /\ a.peers \in 0..MaxPeers
  BY PeerCheckConstants DEF Answers, Count, Error, Errors

LEMMA TypeInit == Init => TypeOK
  <1> SUFFICES ASSUME Init PROVE TypeOK
    OBVIOUS
  <1>1. ShouldRun \in BOOLEAN
    <2>1. PICK skip \in SkipPeerCountCheck : ShouldRun = ~skip
      BY DEF Init
    <2> QED
      BY <2>1
  <1>2. answer \in Answers
    BY DEF Init, Answers, Errors
  <1>3. PeerCount \in 0..MaxPeers
    BY PeerCheckConstants DEF Init
  <1> QED
    BY <1>1, <1>2, <1>3 DEF Init, TypeOK

LEMMA TypeNext == TypeOK /\ [Next]_vars => TypeOK'
  <1> SUFFICES ASSUME TypeOK, [Next]_vars PROVE TypeOK'
    OBVIOUS
  <1> USE PeerCheckConstants DEF TypeOK, filterVars
  <1>1. CASE CheckStep
    <2>1. CASE DialFails
      BY <2>1 DEF DialFails, AfterInitialize, Errors
    <2>2. CASE Dial
      BY <2>2 DEF Dial
    <2>3. CASE \E a \in Answers : Call(a)
      BY <2>3 DEF Call, Enough
    <2>4. CASE StoreErr
      BY <2>4, AnswerKinds DEF StoreErr, AfterRunCheck
    <2>5. CASE StoreCount
      BY <2>5, AnswerKinds DEF StoreCount, AfterRunCheck
    <2>6. CASE VerifySupported
      BY <2>6 DEF VerifySupported, AfterInitialize
    <2>7. CASE RunCheck
      BY <2>7 DEF RunCheck
    <2>8. CASE RunIfSupported
      BY <2>8 DEF RunIfSupported
    <2> QED
      BY <1>1, <2>1, <2>2, <2>3, <2>4, <2>5, <2>6, <2>7, <2>8 DEF CheckStep
  <1>2. ASSUME NEW r \in Requests, HasEnoughPeers(r) PROVE TypeOK'
    BY <1>2 DEF HasEnoughPeers, ReadShouldRun, ReadErr, ReadPeerCount, Verdict
  <1>3. CASE UNCHANGED vars
    BY <1>3 DEF vars
  <1> QED
    BY <1>1, <1>2, <1>3 DEF Next

(***************************************************************************)
(* The fields of the check and the places of its readers keep their types. *)
(***************************************************************************)
THEOREM PeerCheckTyped == Spec => []TypeOK
  BY TypeInit, TypeNext, PTL DEF Spec

\* Every count that gets into the field has been seen.
LEMMA EvidenceKept == TypeOK /\ Evidence /\ [Next]_vars => Evidence'
  <1> SUFFICES ASSUME TypeOK, Evidence, [Next]_vars PROVE Evidence'
    OBVIOUS
  <1> USE PeerCheckConstants DEF TypeOK, Evidence, Enough, filterVars
  <1>1. CASE CheckStep
    <2>1. CASE DialFails \/ Dial
      BY <2>1 DEF DialFails, Dial, AfterInitialize
    <2>2. CASE \E a \in Answers : Call(a)
      BY <2>2 DEF Call
    <2>3. CASE StoreErr
      BY <2>3 DEF StoreErr, AfterRunCheck
    <2>4. CASE StoreCount
      BY <2>4, AnswerKinds DEF StoreCount, AfterRunCheck
    <2>5. CASE VerifySupported \/ RunCheck \/ RunIfSupported
      BY <2>5 DEF VerifySupported, RunCheck, RunIfSupported, AfterInitialize
    <2> QED
      BY <1>1, <2>1, <2>2, <2>3, <2>4, <2>5 DEF CheckStep
  <1>2. ASSUME NEW r \in Requests, HasEnoughPeers(r) PROVE Evidence'
    BY <1>2 DEF HasEnoughPeers, ReadShouldRun, ReadErr, ReadPeerCount
  <1>3. CASE UNCHANGED vars
    BY <1>3 DEF vars
  <1> QED
    BY <1>1, <1>2, <1>3 DEF Next

\* A check that is not run stays so, and what has been seen stays seen.
LEMMA VerdictKept ==
    TypeOK /\ Evidence /\ PassesOnEvidence /\ [Next]_vars => PassesOnEvidence'
  <1> SUFFICES ASSUME TypeOK, Evidence, PassesOnEvidence, [Next]_vars,
                      NEW r \in Requests, (verdict[r] = "passes" /\ ShouldRun)'
               PROVE  sawEnough'
    BY DEF PassesOnEvidence
  <1> USE DEF TypeOK, PassesOnEvidence, filterVars
  <1>1. CASE CheckStep
    <2>1. verdict' = verdict /\ (ShouldRun' => ShouldRun) /\ (sawEnough => sawEnough')
      BY <1>1
      DEF CheckStep, DialFails, Dial, Call, StoreErr, StoreCount,
          VerifySupported, RunCheck, RunIfSupported
    <2> QED
      BY <2>1
  <1>2. ASSUME NEW s \in Requests, HasEnoughPeers(s) PROVE sawEnough'
    <2>1. sawEnough' = sawEnough /\ ShouldRun' = ShouldRun
      BY <1>2 DEF HasEnoughPeers, ReadShouldRun, ReadErr, ReadPeerCount
    <2>2. CASE verdict'[r] = verdict[r]
      BY <2>1, <2>2
    <2>3. CASE verdict'[r] # verdict[r]
      <3>1. ~ReadErr(s)
        BY <2>3 DEF ReadErr, Verdict
      <3>2. ~ReadShouldRun(s)
        BY <2>1, <2>3 DEF ReadShouldRun, Verdict
      <3>3. ReadPeerCount(s) => PeerCount >= MinimumPeerCount
        BY <2>3 DEF ReadPeerCount, Verdict
      <3> QED
        BY <1>2, <2>1, <3>1, <3>2, <3>3 DEF HasEnoughPeers, Evidence
    <2> QED
      BY <2>2, <2>3
  <1>3. CASE UNCHANGED vars
    BY <1>3 DEF vars
  <1> QED
    BY <1>1, <1>2, <1>3 DEF Next

(***************************************************************************)
(* HasEnoughPeers, which reads the fields one by one while the check       *)
(* writes them, passes an upstream whose check is run only on evidence.    *)
(***************************************************************************)
THEOREM PassedOnEvidence == Spec => []PassesOnEvidence
  <1>1. Init => IInv
    <2>1. Init => Evidence /\ PassesOnEvidence
      BY PeerCheckConstants DEF Init, Evidence, PassesOnEvidence
    <2> QED
      BY <2>1, TypeInit DEF IInv
  <1>2. IInv /\ [Next]_vars => IInv'
    BY TypeNext, EvidenceKept, VerdictKept DEF IInv
  <1>3. IInv => PassesOnEvidence
    BY DEF IInv
  <1> QED
    BY <1>1, <1>2, <1>3, PTL DEF Spec
=============================================================================
