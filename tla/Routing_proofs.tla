--------------------------- MODULE Routing_proofs ---------------------------
(***************************************************************************)
(* Proofs about Routing, for every set of upstreams, groups, priorities,   *)
(* requests and methods, every setting of the filters, every height and    *)
(* any number of reports.                                                  *)
(***************************************************************************)
EXTENDS Routing, TLAPS

Filtering(r) == phase[r] \in {"filter", "decide"}

\* The upstream that the next filter is applied to.
Current(r) == UpstreamsAt[at[r].priority][at[r].upstream]

\* Position i of priority p is behind the request.
Behind(r, p, i) ==
    \/ p \notin todo[r]
    \/ p = at[r].priority /\ i < at[r].upstream

\* The upstreams that all filters left have been applied to.
Finished(r) ==
    {u \in Upstreams : \E p \in Priorities : \E i \in DOMAIN UpstreamsAt[p] :
        u = UpstreamsAt[p][i] /\ Behind(r, p, i)}

PositionOK(r) ==
    /\ phase[r] = "filter" =>
          /\ at[r].priority \in todo[r]
          /\ at[r].upstream \in 1..Len(UpstreamsAt[at[r].priority])
          /\ at[r].filter \in 1..level[r]
    /\ phase[r] = "decide" => todo[r] = {}
    /\ Filtering(r) => level[r] \in Levels /\ passed[r] \subseteq Finished(r)

-----------------------------------------------------------------------------
(* What a request saw of the heights is no less than what earlier answers  *)
(* of the group were routed by, because these are all bounded by the       *)
(* group's maximum, which an upstream is compared with when it is seen.    *)

StoreOK ==
    /\ MaximaOrdered
    /\ \A g \in Groups : served[g] <= maxHeightByGroupID[g]

SeenEnough(r, u) ==
    Len(UpstreamsAt[PriorityOf(u)]) > 1 => seen[r][u] >= floor[r][GroupOf[u]]

HeightsOK(r) ==
    /\ \A g \in Groups : floor[r][g] <= served[g]
    /\ \A u \in Upstreams : seen[r][u] <= maxHeightByGroupID[GroupOf[u]]
    /\ Filtering(r) => \A u \in passed[r] : SeenEnough(r, u)
    /\ phase[r] = "filter" /\ at[r].filter > 2 => SeenEnough(r, Current(r))
    /\ Filtered(r) => SeenEnough(r, chosen[r])

(* An upstream that has passed all along passes now, so a filter that is   *)
(* applied to it does not fail; and a filter is given up only when no      *)
(* upstream has passed with it.                                            *)

NotOverlooked(r) ==
    \A u \in steady[r][AllFilters] :
        chosen[r] # NoUpstream /\ PriorityOf(chosen[r]) <= PriorityOf(u)

SteadyOK(r) ==
    /\ \A n \in Levels : steady[r][n] \subseteq SteadyNow(r)[n]
    /\ phase[r] # "idle" =>
          \A n \in Levels : n > level[r] => steady[r][n] = {}
    /\ Filtering(r) => steady[r][level[r]] \cap Finished(r) \subseteq passed[r]
    /\ phase[r] = "done" =>
          /\ NotOverlooked(r)
          /\ alwaysRoute => chosen[r] # NoUpstream

RequestOK(r) == PositionOK(r) /\ HeightsOK(r) /\ SteadyOK(r)

IInv == TypeOK /\ StoreOK /\ \A r \in Requests : RequestOK(r)
-----------------------------------------------------------------------------
(* Places: an upstream has one, and a request visits them one by one.      *)

LEMMA Places ==
    /\ Levels = 4..6
    /\ \A p \in Priorities :
          /\ Len(UpstreamsAt[p]) \in Nat \ {0}
          /\ DOMAIN UpstreamsAt[p] = 1..Len(UpstreamsAt[p])
          /\ \A i \in DOMAIN UpstreamsAt[p] : UpstreamsAt[p][i] \in Upstreams
  <1>1. Levels = 4..6
    BY DEF Levels, RequiredFilters, AllFilters
  <1> SUFFICES ASSUME NEW p \in Priorities
               PROVE  /\ Len(UpstreamsAt[p]) \in Nat \ {0}
                      /\ DOMAIN UpstreamsAt[p] = 1..Len(UpstreamsAt[p])
                      /\ \A i \in DOMAIN UpstreamsAt[p] : UpstreamsAt[p][i] \in Upstreams
    BY <1>1
  <1>2. UpstreamsAt[p] \in Seq(Upstreams) /\ UpstreamsAt[p] # <<>>
    BY FilterConstants, RoutingConstants
  <1> QED
    BY <1>2

LEMMA OnePlace ==
    ASSUME NEW p \in Priorities, NEW i \in DOMAIN UpstreamsAt[p],
           NEW q \in Priorities, NEW j \in DOMAIN UpstreamsAt[q],
           UpstreamsAt[p][i] = UpstreamsAt[q][j]
    PROVE  p = q /\ i = j
  BY RoutingConstants

LEMMA PriorityOfPlace ==
    ASSUME NEW p \in Priorities, NEW u \in UpstreamsOf(p)
    PROVE  PriorityOf(u) = p /\ u \in Upstreams
  <1>1. \A q \in Priorities : u \in UpstreamsOf(q) => q = p
    BY OnePlace DEF UpstreamsOf
  <1>2. PriorityOf(u) \in Priorities /\ u \in UpstreamsOf(PriorityOf(u))
    BY DEF PriorityOf
  <1> QED
    BY <1>1, <1>2, Places DEF UpstreamsOf

\* The request is filtering at a place, which is not behind it.
LEMMA CurrentPlace ==
    ASSUME TypeOK, NEW r \in Requests, PositionOK(r), phase[r] = "filter"
    PROVE  /\ at[r].priority \in Priorities
           /\ at[r].upstream \in DOMAIN UpstreamsAt[at[r].priority]
           /\ Current(r) \in Upstreams
           /\ Current(r) \in UpstreamsOf(at[r].priority)
           /\ PriorityOf(Current(r)) = at[r].priority
           /\ Current(r) \notin Finished(r)
  <1> DEFINE p == at[r].priority
             i == at[r].upstream
  <1>1. p \in todo[r] /\ p \in Priorities /\ i \in 1..Len(UpstreamsAt[p])
    BY DEF PositionOK, TypeOK
  <1>2. i \in DOMAIN UpstreamsAt[p] /\ Current(r) \in Upstreams
    BY <1>1, Places DEF Current
  <1>3. Current(r) \in UpstreamsOf(p)
    BY <1>2 DEF Current, UpstreamsOf
  <1>4. PriorityOf(Current(r)) = p
    BY <1>1, <1>3, PriorityOfPlace
  <1>5. ASSUME NEW q \in Priorities, NEW j \in DOMAIN UpstreamsAt[q],
               Current(r) = UpstreamsAt[q][j]
        PROVE  ~Behind(r, q, j)
    <2>1. q = p /\ j = i
      BY <1>1, <1>2, <1>5, OnePlace DEF Current
    <2> QED
      BY <1>1, <2>1 DEF Behind
  <1>6. Current(r) \notin Finished(r)
    BY <1>5 DEF Finished
  <1> QED
    BY <1>1, <1>2, <1>3, <1>4, <1>6

LEMMA NowhereTyped == Nowhere \in Positions
  BY RoutingConstants DEF Nowhere, StartOf, Positions

\* The next upstream: one more place is behind the request.
LEMMA Moves ==
    ASSUME TypeOK, NEW r \in Requests, PositionOK(r), phase[r] = "filter",
           NextUpstream(r), UNCHANGED level
    PROVE  /\ phase' \in [Requests -> {"idle", "filter", "decide", "done"}]
           /\ todo' \in [Requests -> SUBSET Priorities]
           /\ at' \in [Requests -> Positions]
           /\ phase'[r] \in {"filter", "decide"}
           /\ phase'[r] = "filter" =>
                 /\ at'[r].priority \in todo'[r]
                 /\ at'[r].upstream \in 1..Len(UpstreamsAt[at'[r].priority])
                 /\ at'[r].filter = 1
           /\ phase'[r] = "decide" => todo'[r] = {}
           /\ \A q \in Priorities : \A j \in DOMAIN UpstreamsAt[q] :
                 Behind(r, q, j)' <=>
                    \/ Behind(r, q, j)
                    \/ q = at[r].priority /\ j = at[r].upstream
           /\ \A s \in Requests \ {r} : UNCHANGED <<phase[s], todo[s], at[s]>>
  <1> DEFINE p == at[r].priority
             i == at[r].upstream
  <1>1. /\ p \in todo[r] /\ p \in Priorities
        /\ i \in 1..Len(UpstreamsAt[p]) /\ Len(UpstreamsAt[p]) \in Nat
        /\ at[r] \in Positions /\ todo[r] \in SUBSET Priorities
    BY Places DEF PositionOK, TypeOK
  <1>2. /\ phase \in [Requests -> {"idle", "filter", "decide", "done"}]
        /\ todo \in [Requests -> SUBSET Priorities]
        /\ at \in [Requests -> Positions]
    BY DEF TypeOK
  <1>3. \A q \in Priorities : DOMAIN UpstreamsAt[q] = 1..Len(UpstreamsAt[q])
                             /\ Len(UpstreamsAt[q]) \in Nat \ {0}
    BY Places
  <1>4. CASE /\ i < Len(UpstreamsAt[p])
             /\ at' = [at EXCEPT ![r].upstream = @ + 1, ![r].filter = 1]
             /\ UNCHANGED <<phase, todo>>
    <2>1. at'[r] = [priority |-> p, upstream |-> i + 1, filter |-> 1]
      BY <1>1, <1>2, <1>4 DEF Positions
    <2>2. /\ at' = [s \in Requests |-> at'[s]]
          /\ \A s \in Requests \ {r} : at'[s] = at[s]
      BY <1>2, <1>4
    <2>3. at' \in [Requests -> Positions]
      <3>1. [priority |-> p, upstream |-> i + 1, filter |-> 1] \in Positions
        BY <1>1 DEF Positions
      <3>2. \A s \in Requests : at'[s] \in Positions
        BY <1>2, <2>1, <2>2, <3>1
      <3> QED
        BY <2>2, <3>2
    <2>4. \A q \in Priorities : \A j \in DOMAIN UpstreamsAt[q] :
             Behind(r, q, j)' <=> Behind(r, q, j) \/ (q = p /\ j = i)
      BY <1>1, <1>3, <1>4, <2>1 DEF Behind
    <2>5. \A s \in Requests \ {r} : UNCHANGED <<phase[s], todo[s], at[s]>>
      BY <1>2, <1>4, <2>2
    <2> HIDE DEF p, i
    <2> QED
      BY <1>1, <1>2, <1>4, <2>1, <2>3, <2>4, <2>5 DEF p, i
  <1>5. CASE /\ i = Len(UpstreamsAt[p])
             /\ todo' = [todo EXCEPT ![r] = @ \ {p}]
             /\ \/ /\ todo'[r] = {}
                   /\ phase' = [phase EXCEPT ![r] = "decide"]
                   /\ at' = [at EXCEPT ![r] = Nowhere]
                \/ /\ \E q \in todo'[r] : at' = [at EXCEPT ![r] = StartOf(q)]
                   /\ UNCHANGED phase
    <2>1. todo'[r] = todo[r] \ {p} /\ todo' \in [Requests -> SUBSET Priorities]
      BY <1>2, <1>5
    <2>2. CASE /\ todo'[r] = {}
               /\ phase' = [phase EXCEPT ![r] = "decide"]
               /\ at' = [at EXCEPT ![r] = Nowhere]
      <3>1. \A q \in Priorities : \A j \in DOMAIN UpstreamsAt[q] :
               Behind(r, q, j)' /\ (Behind(r, q, j) \/ (q = p /\ j = i))
        BY <1>1, <1>3, <1>5, <2>1, <2>2 DEF Behind
      <3> QED
        BY <1>2, <1>5, <2>1, <2>2, <3>1, NowhereTyped
    <2>3. ASSUME NEW o \in todo'[r], at' = [at EXCEPT ![r] = StartOf(o)],
                 UNCHANGED phase
          PROVE  /\ at'[r] = StartOf(o) /\ at' \in [Requests -> Positions]
                 /\ \A q \in Priorities : \A j \in DOMAIN UpstreamsAt[q] :
                       Behind(r, q, j)' <=> Behind(r, q, j) \/ (q = p /\ j = i)
      <3>1. at'[r] = StartOf(o) /\ at' \in [Requests -> Positions]
        BY <1>1, <1>2, <2>1, <2>3 DEF StartOf, Positions
      <3>2. \A q \in Priorities : \A j \in DOMAIN UpstreamsAt[q] :
               Behind(r, q, j)' <=> Behind(r, q, j) \/ (q = p /\ j = i)
        BY <1>1, <1>3, <1>5, <2>1, <3>1 DEF Behind, StartOf
      <3> QED
        BY <3>1, <3>2
    <2>4. CASE /\ \E q \in todo'[r] : at' = [at EXCEPT ![r] = StartOf(q)]
               /\ UNCHANGED phase
      <3>1. PICK o \in todo'[r] : at' = [at EXCEPT ![r] = StartOf(o)]
        BY <2>4
      <3>2. /\ at'[r] = StartOf(o) /\ at' \in [Requests -> Positions]
            /\ \A q \in Priorities : \A j \in DOMAIN UpstreamsAt[q] :
                  Behind(r, q, j)' <=> Behind(r, q, j) \/ (q = p /\ j = i)
        BY <2>3, <2>4, <3>1
      <3>3. /\ at'[r].priority = o /\ at'[r].upstream = 1 /\ at'[r].filter = 1
            /\ 1 \in 1..Len(UpstreamsAt[o])
        BY <1>1, <1>3, <2>1, <3>2 DEF StartOf
      <3>4. \A s \in Requests \ {r} : UNCHANGED <<phase[s], todo[s], at[s]>>
        BY <1>2, <1>5, <2>4, <3>1
      <3> HIDE DEF p, i
      <3> QED
        BY <1>2, <2>1, <2>4, <3>2, <3>3, <3>4 DEF p, i
    <2> QED
      BY <1>5, <2>2, <2>4
  <1> QED
    BY <1>4, <1>5 DEF NextUpstream
-----------------------------------------------------------------------------
(* What a step leaves of a request that does not take it.                  *)

SameRequest(s) ==
    UNCHANGED <<phase[s], level[s], todo[s], at[s], passed[s], chosen[s],
                seen[s], floor[s]>>

\* What the filters compare with does not come down.
HeightsGrow ==
    \A g \in Groups : /\ served[g] <= served'[g]
                      /\ maxHeightByGroupID[g] <= maxHeightByGroupID'[g]

StillSteady(s) ==
    \A n \in Levels : steady'[s][n] \subseteq steady[s][n] \cap SteadyNow(s)'[n]

LEMMA RequestKept ==
    ASSUME TypeOK, TypeOK', NEW s \in Requests, RequestOK(s), SameRequest(s),
           HeightsGrow, StillSteady(s), UNCHANGED alwaysRoute
    PROVE  RequestOK(s)'
  <1>1. PositionOK(s)'
    BY DEF RequestOK, PositionOK, SameRequest, Filtering, Finished, Behind
  <1>2. HeightsOK(s)'
    <2>1. \A u \in Upstreams : SeenEnough(s, u) => SeenEnough(s, u)'
      BY DEF SameRequest, SeenEnough
    <2>2. \A g \in Groups : floor'[s][g] <= served'[g]
      BY DEF RequestOK, HeightsOK, SameRequest, HeightsGrow, TypeOK
    <2>3. \A u \in Upstreams : seen'[s][u] <= maxHeightByGroupID'[GroupOf[u]]
      BY GroupOfAssumption
      DEF RequestOK, HeightsOK, SameRequest, HeightsGrow, TypeOK, StoreTypeOK
    <2>4. Filtering(s)' => \A u \in passed'[s] : SeenEnough(s, u)'
      BY <2>1 DEF RequestOK, HeightsOK, SameRequest, Filtering, TypeOK
    <2>5. (phase[s] = "filter" /\ at[s].filter > 2)' => SeenEnough(s, Current(s))'
      BY <2>1, CurrentPlace
      DEF RequestOK, HeightsOK, SameRequest, Current, SeenEnough
    <2>6. Filtered(s)' => SeenEnough(s, chosen[s])'
      BY DEF RequestOK, HeightsOK, SameRequest, Filtered, SeenEnough
    <2> QED
      BY <2>2, <2>3, <2>4, <2>5, <2>6 DEF HeightsOK
  <1>3. SteadyOK(s)'
    <2>1. /\ \A n \in Levels : steady'[s][n] \subseteq steady[s][n]
          /\ \A n \in Levels : steady'[s][n] \subseteq SteadyNow(s)'[n]
      BY DEF StillSteady
    <2>2. phase'[s] # "idle" =>
             \A n \in Levels : n > level'[s] => steady'[s][n] = {}
      BY <2>1 DEF RequestOK, SteadyOK, SameRequest
    <2>3. Filtering(s)' => steady'[s][level'[s]] \cap Finished(s)' \subseteq passed'[s]
      BY <2>1
      DEF RequestOK, SteadyOK, PositionOK, SameRequest, Filtering, Finished, Behind
    <2>4. phase'[s] = "done" => NotOverlooked(s)'
      BY <2>1, Places DEF RequestOK, SteadyOK, NotOverlooked, SameRequest, AllFilters
    <2>5. phase'[s] = "done" => (alwaysRoute' => chosen'[s] # NoUpstream)
      BY DEF RequestOK, SteadyOK, SameRequest
    <2> QED
      BY <2>1, <2>2, <2>3, <2>4, <2>5 DEF SteadyOK
  <1> QED
    BY <1>1, <1>2, <1>3 DEF RequestOK

\* Who passes only depends on the store, the checks and the breakers.
LEMMA SteadyNowKept ==
    ASSUME UNCHANGED <<storeVars, healthVars>>, NEW s \in Requests
    PROVE  /\ \A n \in Levels : SteadyNow(s)'[n] = SteadyNow(s)[n]
           /\ \A f \in STRING, p \in Priorities, u \in Upstreams :
                 Passes(f, s, p, u)' = Passes(f, s, p, u)
  <1>1. \A f, p, u : Passes(f, s, p, u)' = Passes(f, s, p, u)
    BY DEF storeVars, healthVars, Passes, HasEnoughPeers, IsAtMaxHeightForGroup,
           IsCloseToGlobalMaxHeight, AreMethodsAllowed, IsErrorRateAcceptable,
           IsLatencyAcceptable, GetBlockHeightStatus
  <1>2. \A n \in Levels, p \in Priorities : Passing(n, s, p)' = Passing(n, s, p)
    BY <1>1 DEF Passing
  <1>3. \A n \in Levels : SteadyNow(s)'[n] = SteadyNow(s)[n]
    BY <1>2 DEF SteadyNow
  <1> QED
    BY <1>1, <1>3

LEMMA SteadyNowIs ==
    ASSUME NEW s \in Requests, NEW n \in Levels, NEW u
    PROVE  u \in SteadyNow(s)[n] <=>
              \E p \in Priorities :
                 /\ u \in UpstreamsOf(p)
                 /\ \A f \in 1..n : Passes(Filters[f], s, p, u)
  BY DEF SteadyNow, Passing

\* A report: of heights or errors to the store, of peers, or of a breaker.
AnyReport ==
    \E u \in Upstreams : HeightReport(u) \/ ErrorReport(u) \/ PeerReport(u)
                         \/ BreakerReport(u)

LEMMA Reported ==
    ASSUME IInv, AnyReport
    PROVE  /\ Report
           /\ StoreTypeOK' /\ HealthTypeOK' /\ HeightsGrow /\ StoreOK'
  <1>0. StoreTypeOK /\ HealthTypeOK /\ served \in [Groups -> Nat]
    BY DEF IInv, TypeOK
  <1>1. PICK u \in Upstreams :
           HeightReport(u) \/ ErrorReport(u) \/ PeerReport(u) \/ BreakerReport(u)
    BY DEF AnyReport
  <1>2. Report
    BY <1>1 DEF HeightReport, ErrorReport, PeerReport, BreakerReport
  <1>3. CASE HeightReport(u)
    <2>1. PICK h \in ReportedHeights : ProcessBlockHeightUpdate(u, h)
      BY <1>3 DEF HeightReport
    <2>2. h \in Nat /\ GroupOf[u] \in Groups
      BY RoutingConstants, GroupOfAssumption
    <2>3. StoreTypeOK'
      BY <1>0, <2>1, <2>2, NoErrorAssumption
      DEF StoreTypeOK, ProcessBlockHeightUpdate, updateGlobalHeight,
          updateHeightForGroup, updateHeightForUpstream, updateErrorForUpstream,
          Larger
    <2>4. HealthTypeOK' /\ served' = served
      BY <1>0, <1>2, <1>3 DEF HeightReport, HealthTypeOK, healthVars, Report
    <2>5. \A g \in Groups : maxHeightByGroupID[g] <= maxHeightByGroupID'[g]
      BY <1>0, <2>1, <2>2
      DEF StoreTypeOK, ProcessBlockHeightUpdate, updateHeightForGroup, Larger
    <2>6. MaximaOrdered'
      BY <1>0, <2>1, <2>2, GroupOfAssumption
      DEF IInv, StoreOK, MaximaOrdered, StoreTypeOK, ProcessBlockHeightUpdate,
          updateGlobalHeight, updateHeightForGroup, updateHeightForUpstream,
          Larger
    <2>7. \A g \in Groups : served'[g] <= maxHeightByGroupID'[g]
      BY <1>0, <2>3, <2>4, <2>5 DEF IInv, StoreOK, StoreTypeOK
    <2>8. HeightsGrow
      BY <1>0, <2>4, <2>5 DEF HeightsGrow
    <2> QED
      BY <1>2, <2>3, <2>4, <2>6, <2>7, <2>8 DEF StoreOK
  <1>4. CASE ErrorReport(u) \/ PeerReport(u) \/ BreakerReport(u)
    <2>1. UNCHANGED <<globalMaxHeight, maxHeightByGroupID, heightByUpstreamID, served>>
      BY <1>2, <1>4
      DEF ErrorReport, PeerReport, BreakerReport, ProcessErrorUpdate, storeVars, Report
    <2>2. errorByUpstreamID' \in [Upstreams -> Errors \cup {NoError}]
      BY <1>0, <1>4
      DEF ErrorReport, PeerReport, BreakerReport, ProcessErrorUpdate,
          updateErrorForUpstream, storeVars, StoreTypeOK
    <2>3. HealthTypeOK'
      <3>0. peerCheck \in [Upstreams -> PeerCheck] /\ peerCheck[u] \in PeerCheck
        BY <1>0 DEF HealthTypeOK
      <3>1. CASE ErrorReport(u)
        BY <1>0, <3>1 DEF ErrorReport, HealthTypeOK, healthVars
      <3>2. CASE BreakerReport(u)
        BY <1>0, <3>2 DEF BreakerReport, HealthTypeOK
      <3>3. ASSUME NEW e \in Errors, peerCheck' = [peerCheck EXCEPT ![u].Err = e]
            PROVE  peerCheck' \in [Upstreams -> PeerCheck]
        <4>1. [peerCheck[u] EXCEPT !.Err = e] \in PeerCheck
          BY <3>0 DEF PeerCheck
        <4> QED
          BY <3>0, <3>3, <4>1
      <3>4. ASSUME NEW n \in {0, MinimumPeerCount},
                   peerCheck' = [peerCheck EXCEPT ![u].Err = NoError,
                                                  ![u].PeerCount = n]
            PROVE  peerCheck' \in [Upstreams -> PeerCheck]
        <4>0. n \in Nat
          BY FilterConstants
        <4>1. [peerCheck[u] EXCEPT !.Err = NoError, !.PeerCount = n] \in PeerCheck
          BY <3>0, <4>0 DEF PeerCheck
        <4>2. peerCheck' = [peerCheck EXCEPT ![u] =
                 [peerCheck[u] EXCEPT !.Err = NoError, !.PeerCount = n]]
          BY <3>0, <3>4
        <4> QED
          BY <3>0, <4>1, <4>2
      <3>5. CASE PeerReport(u)
        BY <1>0, <3>3, <3>4, <3>5 DEF PeerReport, HealthTypeOK
      <3> QED
        BY <1>4, <3>1, <3>2, <3>5
    <2>4. StoreTypeOK' /\ HeightsGrow /\ StoreOK'
      BY <1>0, <2>1, <2>2
      DEF StoreTypeOK, HeightsGrow, StoreOK, MaximaOrdered, IInv
    <2> QED
      BY <1>2, <2>3, <2>4
  <1> QED
    BY <1>1, <1>3, <1>4
-----------------------------------------------------------------------------
(* The steps of a request.                                                 *)

\* What every step of request r does: no report, and nothing to the others.
RequestStep(r) ==
    /\ UNCHANGED outsideVars
    /\ HeightsGrow
    /\ TypeOK' /\ StoreOK'
    /\ \A s \in Requests \ {r} : SameRequest(s) /\ steady'[s] = steady[s]

LEMMA OutsideKept ==
    ASSUME IInv, UNCHANGED outsideVars
    PROVE  /\ StoreTypeOK' /\ HealthTypeOK' /\ MaximaOrdered'
           /\ alwaysRoute' \in BOOLEAN /\ reports' \in 0..MaxReports
           /\ UNCHANGED <<maxHeightByGroupID, alwaysRoute, storeVars, healthVars>>
  BY DEF IInv, TypeOK, StoreOK, StoreTypeOK, HealthTypeOK, MaximaOrdered,
         outsideVars, storeVars, healthVars

\* As long as nothing is served.
LEMMA NothingServed ==
    ASSUME IInv, UNCHANGED outsideVars, UNCHANGED served
    PROVE  HeightsGrow /\ StoreOK' /\ served' \in [Groups -> Nat]
  <1>1. /\ UNCHANGED maxHeightByGroupID /\ MaximaOrdered'
        /\ maxHeightByGroupID \in [Groups -> Nat] /\ served \in [Groups -> Nat]
        /\ StoreOK
    BY OutsideKept DEF IInv, TypeOK, StoreTypeOK
  <1> QED
    BY <1>1 DEF HeightsGrow, StoreOK

LEMMA Entered ==
    ASSUME TypeOK, NEW r \in Requests, NEW n \in Levels, EnterFilters(r, n)
    PROVE  /\ phase' \in [Requests -> {"idle", "filter", "decide", "done"}]
           /\ level' \in [Requests -> Levels \cup {0}]
           /\ todo' \in [Requests -> SUBSET Priorities]
           /\ at' \in [Requests -> Positions]
           /\ passed' \in [Requests -> SUBSET Upstreams]
           /\ phase'[r] = "filter" /\ level'[r] = n /\ passed'[r] = {}
           /\ at'[r].filter = 1
           /\ Finished(r)' = {}
           /\ PositionOK(r)'
           /\ \A s \in Requests \ {r} :
                 UNCHANGED <<phase[s], level[s], todo[s], at[s], passed[s]>>
  <1>1. PICK p \in Priorities : at' = [at EXCEPT ![r] = StartOf(p)]
    BY DEF EnterFilters
  <1>2. /\ phase \in [Requests -> {"idle", "filter", "decide", "done"}]
        /\ level \in [Requests -> Levels \cup {0}]
        /\ todo \in [Requests -> SUBSET Priorities]
        /\ at \in [Requests -> Positions]
        /\ passed \in [Requests -> SUBSET Upstreams]
    BY DEF TypeOK
  <1>3. StartOf(p) \in Positions
    BY DEF StartOf, Positions
  <1>4. /\ phase' \in [Requests -> {"idle", "filter", "decide", "done"}]
        /\ level' \in [Requests -> Levels \cup {0}]
        /\ todo' \in [Requests -> SUBSET Priorities]
        /\ at' \in [Requests -> Positions]
        /\ passed' \in [Requests -> SUBSET Upstreams]
    BY <1>1, <1>2, <1>3 DEF EnterFilters
  <1>5. /\ phase'[r] = "filter" /\ level'[r] = n /\ passed'[r] = {}
        /\ at'[r] = StartOf(p) /\ todo'[r] = Priorities
    BY <1>1, <1>2 DEF EnterFilters
  <1>6. /\ at'[r].priority = p /\ at'[r].upstream = 1 /\ at'[r].filter = 1
    BY <1>5 DEF StartOf
  <1>7. Finished(r)' = {}
    <2>1. \A q \in Priorities : \A i \in DOMAIN UpstreamsAt[q] : ~Behind(r, q, i)'
      BY <1>5, <1>6, Places DEF Behind
    <2> QED
      BY <2>1 DEF Finished
  <1>8. PositionOK(r)'
    <2>1. 1 \in 1..Len(UpstreamsAt[p]) /\ 1 \in 1..n
      BY Places
    <2> QED
      BY <1>5, <1>6, <2>1 DEF PositionOK, Filtering
  <1>9. \A s \in Requests \ {r} :
           UNCHANGED <<phase[s], level[s], todo[s], at[s], passed[s]>>
    BY <1>1, <1>2 DEF EnterFilters
  <1> QED
    BY <1>4, <1>5, <1>6, <1>7, <1>8, <1>9

LEMMA RouteNextRequestOK ==
    ASSUME IInv, NEW r \in Requests, RouteNextRequest(r)
    PROVE  RequestStep(r) /\ RequestOK(r)'
  <1>0. TypeOK /\ StoreOK /\ AllFilters \in Levels
    BY Places DEF IInv, AllFilters
  <1>1. /\ EnterFilters(r, AllFilters)
        /\ floor' = [floor EXCEPT ![r] = served]
        /\ steady' = [steady EXCEPT ![r] = SteadyNow(r)]
        /\ seen' = [seen EXCEPT ![r] = [u \in Upstreams |-> 0]]
        /\ chosen' = [chosen EXCEPT ![r] = NoUpstream]
        /\ UNCHANGED <<outsideVars, served>>
    BY DEF RouteNextRequest
  <1>2. SteadyNow(r) \in [Levels -> SUBSET Upstreams]
    BY Places DEF SteadyNow, Passing, UpstreamsOf
  <1>3. TypeOK'
    <2>1. /\ floor' \in [Requests -> [Groups -> Nat]]
          /\ steady' \in [Requests -> [Levels -> SUBSET Upstreams]]
          /\ seen' \in [Requests -> [Upstreams -> Nat]]
          /\ chosen' \in [Requests -> Upstreams \cup {NoUpstream}]
      BY <1>0, <1>1, <1>2 DEF TypeOK
    <2> QED
      BY <1>0, <1>1, <2>1, OutsideKept, NothingServed, Entered DEF TypeOK
  <1>4. RequestStep(r)
    <2>1. \A s \in Requests \ {r} :
             UNCHANGED <<chosen[s], seen[s], floor[s], steady[s]>>
      BY <1>0, <1>1 DEF TypeOK
    <2> QED
      BY <1>0, <1>1, <1>3, <2>1, NothingServed, Entered DEF RequestStep, SameRequest
  <1>5. /\ phase'[r] = "filter" /\ level'[r] = AllFilters /\ passed'[r] = {}
        /\ at'[r].filter = 1 /\ Finished(r)' = {} /\ PositionOK(r)'
    BY <1>0, <1>1, Entered
  <1>6. HeightsOK(r)'
    <2>1. floor'[r] = served /\ seen'[r] = [u \in Upstreams |-> 0]
      BY <1>0, <1>1 DEF TypeOK
    <2>2. \A g \in Groups : floor'[r][g] <= served'[g]
      BY <1>0, <1>1, <2>1 DEF TypeOK
    <2>3. \A u \in Upstreams : seen'[r][u] <= maxHeightByGroupID'[GroupOf[u]]
      BY <1>1, <2>1, OutsideKept, GroupOfAssumption DEF StoreTypeOK
    <2> QED
      BY <1>5, <2>2, <2>3 DEF HeightsOK, Filtered
  <1>7. SteadyOK(r)'
    <2>1. steady'[r] = SteadyNow(r)
      BY <1>0, <1>1 DEF TypeOK
    <2>2. \A n \in Levels : SteadyNow(r)'[n] = SteadyNow(r)[n]
      BY <1>1, OutsideKept, SteadyNowKept
    <2>3. \A n \in Levels : ~(n > AllFilters)
      BY Places DEF AllFilters
    <2> QED
      BY <1>5, <2>1, <2>2, <2>3 DEF SteadyOK
  <1> QED
    BY <1>4, <1>5, <1>6, <1>7 DEF RequestOK

\* The decision before was that nothing is left with all filters of the level,
\* so nothing has passed them all along.
LEMMA NothingLeft ==
    ASSUME IInv, NEW r \in Requests, phase[r] = "decide", passed[r] = {}
    PROVE  /\ level[r] \in Levels
           /\ \A n \in Levels : n >= level[r] => steady[r][n] = {}
  <1>1. PositionOK(r) /\ SteadyOK(r) /\ TypeOK
    BY DEF IInv, RequestOK
  <1>2. level[r] \in Levels /\ todo[r] = {}
    BY <1>1 DEF PositionOK, Filtering
  <1>3. steady[r][level[r]] \subseteq Finished(r)
    <2> SUFFICES ASSUME NEW u \in steady[r][level[r]] PROVE u \in Finished(r)
      OBVIOUS
    <2>1. u \in SteadyNow(r)[level[r]]
      BY <1>1, <1>2 DEF SteadyOK
    <2>2. PICK p \in Priorities : u \in UpstreamsOf(p)
      BY <1>2, <2>1, SteadyNowIs
    <2> QED
      BY <1>2, <2>2, Places DEF Finished, Behind, UpstreamsOf
  <1>4. steady[r][level[r]] = {}
    BY <1>1, <1>3 DEF SteadyOK, Filtering
  <1> QED
    BY <1>1, <1>2, <1>4, Places DEF SteadyOK

LEMMA RemoveFilterOK ==
    ASSUME IInv, NEW r \in Requests, RemoveFilter(r)
    PROVE  RequestStep(r) /\ RequestOK(r)'
  <1>0. TypeOK /\ StoreOK /\ RequestOK(r)
    BY DEF IInv
  <1> DEFINE n == level[r] - 1
  <1>1. /\ phase[r] = "decide" /\ passed[r] = {}
        /\ level[r] > RequiredFilters /\ EnterFilters(r, n)
        /\ UNCHANGED <<outsideVars, chosen, historyVars>>
    BY DEF RemoveFilter, RemoveFilterTo
  <1>2. /\ n \in Levels
        /\ \A m \in Levels : m > n => steady[r][m] = {}
    BY <1>1, NothingLeft, Places DEF RequiredFilters
  <1> HIDE DEF n
  <1>3. UNCHANGED <<seen, served, floor, steady>>
    BY <1>1 DEF historyVars
  <1>4. TypeOK'
    BY <1>0, <1>1, <1>2, <1>3, OutsideKept, Entered DEF TypeOK
  <1>5. RequestStep(r)
    BY <1>0, <1>1, <1>2, <1>3, <1>4, NothingServed, Entered
    DEF RequestStep, SameRequest
  <1>6. /\ phase'[r] = "filter" /\ level'[r] = n /\ passed'[r] = {}
        /\ at'[r].filter = 1 /\ Finished(r)' = {} /\ PositionOK(r)'
    BY <1>0, <1>1, <1>2, Entered
  <1>7. HeightsOK(r)'
    BY <1>0, <1>1, <1>3, <1>6, OutsideKept DEF RequestOK, HeightsOK, Filtered
  <1>8. SteadyOK(r)'
    <2>1. \A m \in Levels : SteadyNow(r)'[m] = SteadyNow(r)[m]
      BY <1>1, OutsideKept, SteadyNowKept
    <2> QED
      BY <1>0, <1>2, <1>3, <1>6, <2>1 DEF RequestOK, SteadyOK
  <1> QED
    BY <1>5, <1>6, <1>7, <1>8 DEF RequestOK

\* What Answer does, with the variables it leaves to the action.
LEMMA Answered ==
    ASSUME IInv, NEW r \in Requests, NEW u \in Upstreams \cup {NoUpstream},
           Answer(r, u)
    PROVE  /\ phase' \in [Requests -> {"idle", "filter", "decide", "done"}]
           /\ passed' \in [Requests -> SUBSET Upstreams]
           /\ chosen' \in [Requests -> Upstreams \cup {NoUpstream}]
           /\ UNCHANGED <<outsideVars, todo, at, seen, floor, steady>>
           /\ phase'[r] = "done" /\ chosen'[r] = u
           /\ \A s \in Requests \ {r} :
                 UNCHANGED <<phase[s], passed[s], chosen[s]>>
           /\ PositionOK(r)'
           /\ \A n \in Levels : steady'[r][n] \subseteq SteadyNow(r)'[n]
  <1>0. /\ TypeOK /\ SteadyOK(r)
        /\ UNCHANGED <<outsideVars, todo, at, seen, floor, steady>>
    BY DEF IInv, RequestOK, Answer
  <1>1. /\ phase' \in [Requests -> {"idle", "filter", "decide", "done"}]
        /\ passed' \in [Requests -> SUBSET Upstreams]
        /\ chosen' \in [Requests -> Upstreams \cup {NoUpstream}]
        /\ phase'[r] = "done" /\ chosen'[r] = u
        /\ \A s \in Requests \ {r} :
              UNCHANGED <<phase[s], passed[s], chosen[s]>>
    BY <1>0 DEF Answer, TypeOK
  <1>2. PositionOK(r)'
    BY <1>1 DEF PositionOK, Filtering
  <1>3. \A n \in Levels : SteadyNow(r)'[n] = SteadyNow(r)[n]
    BY <1>0, OutsideKept, SteadyNowKept
  <1>4. \A n \in Levels : steady'[r][n] \subseteq SteadyNow(r)'[n]
    BY <1>0, <1>3 DEF SteadyOK
  <1> QED
    BY <1>0, <1>1, <1>2, <1>4

\* Of a request that is refused, or routed as if every upstream were healthy.
LEMMA AnsweredWithoutServing ==
    ASSUME IInv, NEW r \in Requests, NEW u \in Upstreams \cup {NoUpstream},
           phase[r] = "decide", passed[r] = {}, Answer(r, u), UNCHANGED served,
           level' \in [Requests -> Levels \cup {0}],
           \A s \in Requests \ {r} : level'[s] = level[s],
           level'[r] \in {level[r], 0},
           u # NoUpstream => level'[r] = 0,
           level'[r] = 0 => level[r] = RequiredFilters,
           alwaysRoute => u # NoUpstream
    PROVE  RequestStep(r) /\ RequestOK(r)'
  <1>0. TypeOK /\ StoreOK /\ RequestOK(r)
    BY DEF IInv
  <1>1. /\ UNCHANGED <<outsideVars, todo, at, seen, floor, steady>>
        /\ phase'[r] = "done" /\ chosen'[r] = u
        /\ PositionOK(r)'
        /\ \A n \in Levels : steady'[r][n] \subseteq SteadyNow(r)'[n]
    BY Answered
  <1>2. TypeOK'
    BY <1>0, <1>1, Answered, OutsideKept, NothingServed DEF TypeOK
  <1>3. RequestStep(r)
    BY <1>1, <1>2, Answered, NothingServed DEF RequestStep, SameRequest
  <1>4. HeightsOK(r)'
    <2>1. ~Filtered(r)'
      BY <1>1 DEF Filtered
    <2> QED
      BY <1>0, <1>1, <2>1, OutsideKept DEF RequestOK, HeightsOK, Filtering
  <1>5. SteadyOK(r)'
    <2>1. /\ level[r] \in Levels
          /\ \A n \in Levels : n >= level[r] => steady[r][n] = {}
      BY NothingLeft
    <2>2. \A n \in Levels : n > level'[r] => steady'[r][n] = {}
      BY <1>1, <2>1, Places DEF RequiredFilters
    <2>3. NotOverlooked(r)'
      BY <1>1, <2>1, Places DEF NotOverlooked, AllFilters
    <2>4. alwaysRoute' => chosen'[r] # NoUpstream
      BY <1>1, OutsideKept
    <2> QED
      BY <1>1, <2>2, <2>3, <2>4 DEF SteadyOK, Filtering
  <1> QED
    BY <1>1, <1>3, <1>4, <1>5 DEF RequestOK

LEMMA NoHealthyUpstreamsOK ==
    ASSUME IInv, NEW r \in Requests, NoHealthyUpstreams(r)
    PROVE  RequestStep(r) /\ RequestOK(r)'
  <1>1. /\ phase[r] = "decide" /\ passed[r] = {} /\ ~alwaysRoute
        /\ Answer(r, NoUpstream) /\ UNCHANGED <<level, served>>
    BY DEF NoHealthyUpstreams
  <1>2. level[r] \in Levels /\ level \in [Requests -> Levels \cup {0}]
    BY <1>1, NothingLeft DEF IInv, TypeOK
  <1>3. level'[r] # 0
    BY <1>1, <1>2, Places
  <1> QED
    BY <1>1, <1>2, <1>3, AnsweredWithoutServing

LEMMA RouteUnfilteredOK ==
    ASSUME IInv, NEW r \in Requests, RouteUnfiltered(r)
    PROVE  RequestStep(r) /\ RequestOK(r)'
  <1>1. /\ phase[r] = "decide" /\ passed[r] = {} /\ level[r] = RequiredFilters
        /\ level' = [level EXCEPT ![r] = 0] /\ UNCHANGED served
    BY DEF RouteUnfiltered
  <1>2. PICK u \in First(Upstreams) : Answer(r, u)
    BY DEF RouteUnfiltered
  <1>3. u \in Upstreams /\ u # NoUpstream
    BY RoutingConstants DEF First
  <1>4. /\ level' \in [Requests -> Levels \cup {0}]
        /\ \A s \in Requests \ {r} : level'[s] = level[s]
        /\ level'[r] = 0
    BY <1>1 DEF IInv, TypeOK
  <1> QED
    BY <1>1, <1>2, <1>3, <1>4, AnsweredWithoutServing

\* The backing strategy takes an upstream of the first priority left.
LEMMA FirstIsFirst ==
    ASSUME NEW us, NEW u \in First(us), NEW v \in us,
           NEW p \in Priorities, v \in UpstreamsOf(p)
    PROVE  u \in us /\ u \in Upstreams /\ PriorityOf(u) <= PriorityOf(v)
  <1>1. PICK q \in Priorities :
           /\ u \in UpstreamsOf(q) \cap us
           /\ \A o \in Priorities : o < q => UpstreamsOf(o) \cap us = {}
    BY DEF First
  <1>2. PriorityOf(u) = q /\ PriorityOf(v) = p /\ u \in Upstreams
    BY <1>1, PriorityOfPlace
  <1>3. ~(p < q) /\ p \in Int /\ q \in Int
    BY <1>1, FilterConstants
  <1> QED
    BY <1>1, <1>2, <1>3

LEMMA RouteToHealthyOK ==
    ASSUME IInv, NEW r \in Requests, RouteToHealthy(r)
    PROVE  RequestStep(r) /\ RequestOK(r)'
  <1>0. /\ TypeOK /\ StoreOK /\ PositionOK(r) /\ HeightsOK(r) /\ SteadyOK(r)
        /\ phase[r] = "decide"
    BY DEF IInv, RequestOK, RouteToHealthy
  <1>1. PICK u \in First(passed[r]) :
          /\ Answer(r, u)
          /\ served' = [served EXCEPT ![GroupOf[u]] = Larger(@, seen[r][u])]
    BY DEF RouteToHealthy
  <1>2. UNCHANGED level
    BY DEF RouteToHealthy
  <1>3. /\ u \in passed[r] /\ u \in Upstreams /\ u # NoUpstream
        /\ GroupOf[u] \in Groups
    BY <1>0, RoutingConstants, GroupOfAssumption DEF First, TypeOK
  <1>4. /\ UNCHANGED <<outsideVars, todo, at, seen, floor, steady>>
        /\ phase'[r] = "done" /\ chosen'[r] = u
        /\ PositionOK(r)'
        /\ \A n \in Levels : steady'[r][n] \subseteq SteadyNow(r)'[n]
    BY <1>1, <1>3, Answered
  <1>5. /\ seen[r][u] \in Nat /\ seen[r][u] <= maxHeightByGroupID[GroupOf[u]]
        /\ served \in [Groups -> Nat] /\ maxHeightByGroupID \in [Groups -> Nat]
    BY <1>0, <1>3 DEF TypeOK, StoreTypeOK, HeightsOK
  <1>6. /\ served' \in [Groups -> Nat] /\ HeightsGrow /\ StoreOK'
    <2>1. /\ UNCHANGED maxHeightByGroupID /\ MaximaOrdered'
      BY <1>4, OutsideKept
    <2>2. served' \in [Groups -> Nat]
      BY <1>1, <1>3, <1>5 DEF Larger
    <2>3. \A g \in Groups : /\ served[g] <= served'[g]
                            /\ served'[g] <= maxHeightByGroupID[g]
      BY <1>0, <1>1, <1>3, <1>5 DEF Larger, StoreOK
    <2> QED
      BY <1>5, <2>1, <2>2, <2>3 DEF HeightsGrow, StoreOK
  <1>7. TypeOK'
    BY <1>0, <1>1, <1>2, <1>3, <1>4, <1>6, Answered, OutsideKept DEF TypeOK
  <1>8. RequestStep(r)
    BY <1>1, <1>2, <1>3, <1>4, <1>6, <1>7, Answered DEF RequestStep, SameRequest
  <1>9. HeightsOK(r)'
    <2>1. SeenEnough(r, u)
      BY <1>0, <1>3 DEF HeightsOK, Filtering
    <2>2. SeenEnough(r, chosen[r])'
      BY <1>4, <2>1 DEF SeenEnough
    <2>3. \A g \in Groups : floor'[r][g] <= served'[g]
      BY <1>0, <1>4, <1>5, <1>6 DEF HeightsOK, HeightsGrow, TypeOK
    <2>4. \A v \in Upstreams : seen'[r][v] <= maxHeightByGroupID'[GroupOf[v]]
      BY <1>0, <1>4, OutsideKept DEF HeightsOK
    <2> QED
      BY <1>4, <2>2, <2>3, <2>4 DEF HeightsOK, Filtering
  <1>10. SteadyOK(r)'
    <2>1. \A n \in Levels : n > level'[r] => steady'[r][n] = {}
      BY <1>0, <1>2, <1>4 DEF SteadyOK
    <2>2. ASSUME NEW v \in steady[r][AllFilters]
          PROVE  PriorityOf(u) <= PriorityOf(v)
      <3>1. level[r] = AllFilters /\ AllFilters \in Levels
        BY <1>0, Places DEF SteadyOK, PositionOK, Filtering, AllFilters
      <3>2. PICK p \in Priorities : v \in UpstreamsOf(p)
        BY <1>0, <3>1, SteadyNowIs DEF SteadyOK
      <3>3. v \in Finished(r)
        BY <1>0, <3>2, Places DEF PositionOK, Finished, Behind, UpstreamsOf
      <3>4. v \in passed[r]
        BY <1>0, <3>1, <3>3 DEF SteadyOK, Filtering
      <3> QED
        BY <3>2, <3>4, FirstIsFirst
    <2>3. NotOverlooked(r)'
      BY <1>3, <1>4, <2>2 DEF NotOverlooked
    <2> QED
      BY <1>3, <1>4, <2>1, <2>3 DEF SteadyOK, Filtering
  <1> QED
    BY <1>4, <1>8, <1>9, <1>10 DEF RequestOK
-----------------------------------------------------------------------------
(* A filter is applied.                                                    *)

LEMMA FilterNames ==
    /\ \A k \in 1..AllFilters : Filters[k] = "maxHeightForGroup" <=> k = 2
    /\ \A r, p, u : Passes("maxHeightForGroup", r, p, u) =>
          IsAtMaxHeightForGroup(u, Len(UpstreamsAt[p]))
  BY DEF Filters, AllFilters, Passes

LEMMA AtMaximum ==
    ASSUME NEW u, NEW n \in Nat, n > 1, IsAtMaxHeightForGroup(u, n)
    PROVE  heightByUpstreamID[u] >= maxHeightByGroupID[GroupOf[u]]
  <1>1. /\ GetBlockHeightStatus(u).BlockHeight = heightByUpstreamID[u]
        /\ GetBlockHeightStatus(u).GroupMaxBlockHeight
              = maxHeightByGroupID[GroupOf[u]]
    BY DEF GetBlockHeightStatus
  <1>2. \/ n = 1
        \/ GetBlockHeightStatus(u).BlockHeight
              >= GetBlockHeightStatus(u).GroupMaxBlockHeight
    BY DEF IsAtMaxHeightForGroup
  <1> QED
    BY <1>1, <1>2

\* The outcome of a filter for the upstream at hand, and what it leaves seen.
CurrentPasses(r) ==
    Passes(Filters[at[r].filter], r, at[r].priority, Current(r))

LEMMA Sees ==
    ASSUME IInv, NEW r \in Requests, ApplyFilter(r)
    PROVE  /\ seen' \in [Requests -> [Upstreams -> Nat]]
           /\ \A s \in Requests \ {r} : seen'[s] = seen[s]
           /\ \A u \in Upstreams \ {Current(r)} : seen'[r][u] = seen[r][u]
           /\ \A u \in Upstreams : seen'[r][u] <= maxHeightByGroupID[GroupOf[u]]
           /\ at[r].filter # 2 => seen'[r] = seen[r]
           /\ /\ at[r].filter = 2 /\ CurrentPasses(r)
              /\ Len(UpstreamsAt[at[r].priority]) > 1
              => seen'[r][Current(r)] >= floor[r][GroupOf[Current(r)]]
  <1> DEFINE p == at[r].priority
             k == at[r].filter
             u == Current(r)
             h == heightByUpstreamID[u]
  <1>0. /\ TypeOK /\ StoreOK /\ PositionOK(r) /\ HeightsOK(r)
        /\ phase[r] = "filter"
    BY DEF IInv, RequestOK, ApplyFilter
  <1>1. /\ u \in Upstreams /\ k \in 1..AllFilters /\ GroupOf[u] \in Groups
    <2>1. u \in Upstreams
      BY <1>0, CurrentPlace
    <2>2. level[r] \in 4..6 /\ k \in 1..level[r]
      BY <1>0, Places DEF PositionOK, Filtering
    <2> QED
      BY <2>1, <2>2, GroupOfAssumption DEF AllFilters
  <1>2. seen' = IF Filters[k] = "maxHeightForGroup"
                THEN [seen EXCEPT ![r][u] = h] ELSE seen
    BY DEF ApplyFilter, Current
  <1>3. /\ seen \in [Requests -> [Upstreams -> Nat]] /\ h \in Nat
        /\ h <= maxHeightByGroupID[GroupOf[u]]
        /\ maxHeightByGroupID[GroupOf[u]] \in Nat
        /\ served[GroupOf[u]] <= maxHeightByGroupID[GroupOf[u]]
        /\ floor[r][GroupOf[u]] <= served[GroupOf[u]]
        /\ served[GroupOf[u]] \in Nat /\ floor[r][GroupOf[u]] \in Nat
    BY <1>0, <1>1
    DEF TypeOK, StoreTypeOK, StoreOK, MaximaOrdered, HeightsOK
  <1>4. \A v \in Upstreams : seen[r][v] <= maxHeightByGroupID[GroupOf[v]]
    BY <1>0 DEF HeightsOK
  <1>5. CASE k # 2
    <2>1. seen' = seen
      BY <1>1, <1>2, <1>5, FilterNames
    <2> QED
      BY <1>3, <1>4, <1>5, <2>1
  <1>6. CASE k = 2
    <2>1. seen' = [seen EXCEPT ![r][u] = h]
      BY <1>1, <1>2, <1>6, FilterNames
    <2>2. CurrentPasses(r) /\ Len(UpstreamsAt[p]) > 1 => h >= floor[r][GroupOf[u]]
      <3> SUFFICES ASSUME CurrentPasses(r), Len(UpstreamsAt[p]) > 1
                   PROVE  h >= floor[r][GroupOf[u]]
        OBVIOUS
      <3>1. IsAtMaxHeightForGroup(u, Len(UpstreamsAt[p]))
        BY <1>1, <1>6, FilterNames DEF CurrentPasses
      <3>2. p \in Priorities
        BY <1>0, CurrentPlace
      <3>3. Len(UpstreamsAt[p]) \in Nat
        BY <3>2, Places
      <3>4. h >= maxHeightByGroupID[GroupOf[u]]
        BY <3>1, <3>3, AtMaximum
      <3> HIDE DEF u, h
      <3> QED
        BY <1>3, <3>4
    <2> HIDE DEF u, h, p
    <2>3. /\ seen' \in [Requests -> [Upstreams -> Nat]]
          /\ \A s \in Requests \ {r} : seen'[s] = seen[s]
          /\ \A v \in Upstreams \ {u} : seen'[r][v] = seen[r][v]
          /\ seen'[r][u] = h
      BY <1>1, <1>3, <2>1
    <2>4. \A v \in Upstreams : seen'[r][v] <= maxHeightByGroupID[GroupOf[v]]
      BY <1>3, <1>4, <2>3
    <2> QED
      BY <1>6, <2>2, <2>3, <2>4 DEF p, u
  <1> QED
    BY <1>5, <1>6

\* An upstream that passes all along passes this filter too.
LEMMA SteadyPasses ==
    ASSUME IInv, NEW r \in Requests, phase[r] = "filter",
           Current(r) \in steady[r][level[r]]
    PROVE  CurrentPasses(r)
  <1>0. TypeOK /\ PositionOK(r) /\ SteadyOK(r) /\ level[r] \in Levels
    BY DEF IInv, RequestOK, PositionOK, Filtering
  <1>1. PICK p \in Priorities :
           /\ Current(r) \in UpstreamsOf(p)
           /\ \A f \in 1..level[r] : Passes(Filters[f], r, p, Current(r))
    BY <1>0, SteadyNowIs DEF SteadyOK
  <1>2. p = at[r].priority
    BY <1>0, <1>1, PriorityOfPlace, CurrentPlace
  <1> QED
    BY <1>0, <1>1, <1>2 DEF PositionOK, CurrentPasses

\* The cases of ApplyFilter: go on with this upstream, or with the next one.
StaysAt(r) ==
    /\ CurrentPasses(r)
    /\ at[r].filter < level[r]
    /\ at' = [at EXCEPT ![r].filter = @ + 1]
    /\ UNCHANGED <<phase, todo, passed>>

Accepts(r) ==
    /\ CurrentPasses(r)
    /\ at[r].filter = level[r]
    /\ passed' = [passed EXCEPT ![r] = @ \cup {Current(r)}]
    /\ NextUpstream(r)

Rejects(r) ==
    /\ ~CurrentPasses(r)
    /\ NextUpstream(r)
    /\ UNCHANGED passed

LEMMA ApplyFilterCases ==
    ASSUME NEW r \in Requests, ApplyFilter(r)
    PROVE  /\ StaysAt(r) \/ Accepts(r) \/ Rejects(r)
           /\ UNCHANGED <<outsideVars, level, chosen, served, floor, steady>>
  BY DEF ApplyFilter, StaysAt, Accepts, Rejects, CurrentPasses, Current

\* What the cases share.
LEMMA FilterApplied ==
    ASSUME IInv, NEW r \in Requests, ApplyFilter(r)
    PROVE  /\ phase[r] = "filter"
           /\ phase' \in [Requests -> {"idle", "filter", "decide", "done"}]
           /\ todo' \in [Requests -> SUBSET Priorities]
           /\ at' \in [Requests -> Positions]
           /\ passed' \in [Requests -> SUBSET Upstreams]
           /\ phase'[r] \in {"filter", "decide"}
           /\ \A s \in Requests \ {r} :
                 UNCHANGED <<phase[s], todo[s], at[s], passed[s]>>
           /\ passed'[r] \subseteq passed[r] \cup {Current(r)}
           /\ StaysAt(r) => /\ at'[r] = [at[r] EXCEPT !.filter = @ + 1]
                            /\ Finished(r)' = Finished(r)
                            /\ passed'[r] = passed[r]
           /\ ~StaysAt(r) => Finished(r)' = Finished(r) \cup {Current(r)}
           /\ Accepts(r) => passed'[r] = passed[r] \cup {Current(r)}
           /\ Rejects(r) => passed'[r] = passed[r]
           /\ PositionOK(r)'
  <1>0. /\ TypeOK /\ PositionOK(r) /\ phase[r] = "filter"
        /\ StaysAt(r) \/ Accepts(r) \/ Rejects(r)
        /\ UNCHANGED level
    BY ApplyFilterCases DEF IInv, RequestOK, ApplyFilter
  <1>1. /\ phase \in [Requests -> {"idle", "filter", "decide", "done"}]
        /\ todo \in [Requests -> SUBSET Priorities]
        /\ at \in [Requests -> Positions]
        /\ passed \in [Requests -> SUBSET Upstreams]
        /\ Current(r) \in Upstreams
    BY <1>0, CurrentPlace DEF TypeOK
  <1>2. CASE StaysAt(r)
    <2>0. /\ at[r].priority \in Priorities /\ at[r].upstream \in Nat
          /\ at[r].filter \in 1..level[r] /\ level[r] \in 4..6
          /\ at[r] \in Positions
      BY <1>0, <1>1, Places DEF PositionOK, Filtering, Positions
    <2>1. /\ at' = [s \in Requests |-> at'[s]]
          /\ at'[r] = [at[r] EXCEPT !.filter = @ + 1]
          /\ \A s \in Requests \ {r} : at'[s] = at[s]
      BY <1>1, <1>2 DEF StaysAt
    <2>2. [at[r] EXCEPT !.filter = @ + 1] \in Positions
      BY <2>0 DEF Positions
    <2>3. at' \in [Requests -> Positions]
      <3>1. \A s \in Requests : at'[s] \in Positions
        BY <1>1, <2>1, <2>2
      <3> QED
        BY <2>1, <3>1
    <2>4. /\ at'[r].priority = at[r].priority /\ at'[r].upstream = at[r].upstream
          /\ at'[r].filter = at[r].filter + 1
      BY <2>0, <2>1 DEF Positions
    <2>5. UNCHANGED <<phase, todo, passed>> /\ at[r].filter < level[r]
      BY <1>2 DEF StaysAt
    <2>6. Finished(r)' = Finished(r)
      BY <2>4, <2>5 DEF Finished, Behind
    <2>7. PositionOK(r)'
      BY <1>0, <2>0, <2>4, <2>5, <2>6 DEF PositionOK, Filtering
    <2> QED
      BY <1>0, <1>1, <1>2, <2>1, <2>3, <2>5, <2>6, <2>7 DEF Accepts, Rejects, StaysAt
  <1>3. CASE Accepts(r) \/ Rejects(r)
    <2>1. NextUpstream(r)
      BY <1>3 DEF Accepts, Rejects
    <2>2. Finished(r)' = Finished(r) \cup {Current(r)}
      <3>1. /\ at[r].priority \in Priorities
            /\ at[r].upstream \in DOMAIN UpstreamsAt[at[r].priority]
        BY <1>0, CurrentPlace
      <3>2. \A q \in Priorities : \A j \in DOMAIN UpstreamsAt[q] :
               Behind(r, q, j)' <=>
                  \/ Behind(r, q, j)
                  \/ q = at[r].priority /\ j = at[r].upstream
        BY <1>0, <2>1, Moves
      <3> QED
        BY <1>1, <3>1, <3>2 DEF Finished, Current
    <2>3. /\ passed' \in [Requests -> SUBSET Upstreams]
          /\ \A s \in Requests \ {r} : passed'[s] = passed[s]
          /\ passed'[r] \subseteq passed[r] \cup {Current(r)}
          /\ Accepts(r) => passed'[r] = passed[r] \cup {Current(r)}
          /\ Rejects(r) => passed'[r] = passed[r]
      BY <1>1, <1>3 DEF Accepts, Rejects
    <2>4. PositionOK(r)'
      <3>1. /\ phase'[r] = "filter" =>
                  /\ at'[r].priority \in todo'[r]
                  /\ at'[r].upstream \in 1..Len(UpstreamsAt[at'[r].priority])
                  /\ at'[r].filter = 1
            /\ phase'[r] = "decide" => todo'[r] = {}
        BY <1>0, <2>1, Moves
      <3>2. level'[r] \in Levels /\ 1 \in 1..level'[r]
        BY <1>0, Places DEF PositionOK, Filtering
      <3>3. passed'[r] \subseteq Finished(r)'
        BY <1>0, <2>2, <2>3 DEF PositionOK, Filtering
      <3> QED
        BY <3>1, <3>2, <3>3 DEF PositionOK
    <2>5. ~StaysAt(r)
      <3>1. at[r].filter \in Nat
        BY <1>1 DEF Positions
      <3> QED
        BY <1>3, <3>1 DEF StaysAt, Accepts, Rejects
    <2> QED
      BY <1>0, <2>1, <2>2, <2>3, <2>4, <2>5, Moves
  <1> QED
    BY <1>0, <1>2, <1>3

LEMMA ApplyFilterOK ==
    ASSUME IInv, NEW r \in Requests, ApplyFilter(r)
    PROVE  RequestStep(r) /\ RequestOK(r)'
  <1> DEFINE p == at[r].priority
             k == at[r].filter
  <1>u. PICK u : u = Current(r)
    OBVIOUS
  <1>0. /\ TypeOK /\ StoreOK /\ PositionOK(r) /\ HeightsOK(r) /\ SteadyOK(r)
        /\ StaysAt(r) \/ Accepts(r) \/ Rejects(r)
        /\ phase[r] = "filter" /\ phase'[r] \in {"filter", "decide"}
        /\ UNCHANGED <<outsideVars, level, chosen, served, floor, steady>>
        /\ PositionOK(r)'
    BY ApplyFilterCases, FilterApplied DEF IInv, RequestOK
  <1>1. /\ u \in Upstreams /\ u \notin Finished(r) /\ PriorityOf(u) = p
        /\ level[r] \in 4..6 /\ k \in 1..level[r]
    BY <1>0, <1>u, CurrentPlace, Places DEF PositionOK, Filtering
  <1>2. TypeOK'
    BY <1>0, FilterApplied, Sees, OutsideKept, NothingServed DEF TypeOK
  <1>3. RequestStep(r)
    BY <1>0, <1>2, FilterApplied, Sees, NothingServed DEF RequestStep, SameRequest
  \* What was seen of those that passed is not seen again.
  <1>4. \A v \in passed[r] : SeenEnough(r, v)'
    <2>1. \A v \in passed[r] : v \in Upstreams \ {u} /\ SeenEnough(r, v)
      BY <1>0, <1>1 DEF PositionOK, HeightsOK, Filtering, Finished
    <2>2. \A v \in Upstreams \ {u} : seen'[r][v] = seen[r][v]
      BY <1>u, Sees
    <2> QED
      BY <1>0, <2>1, <2>2 DEF SeenEnough
  \* The upstream at hand was seen at its group's maximum.
  <1>5. k > 2 => SeenEnough(r, u)'
    <2> SUFFICES ASSUME k > 2 PROVE SeenEnough(r, u)'
      OBVIOUS
    <2>1. SeenEnough(r, u)
      BY <1>0, <1>u DEF HeightsOK
    <2>2. seen'[r] = seen[r]
      BY <1>1, Sees
    <2> QED
      BY <1>0, <2>1, <2>2 DEF SeenEnough
  <1>6. k = 2 /\ CurrentPasses(r) =>
           (Len(UpstreamsAt[PriorityOf(u)]) > 1 =>
               seen'[r][u] >= floor'[r][GroupOf[u]])
    BY <1>0, <1>1, <1>u, Sees
  <1>7. HeightsOK(r)'
    <2>1. \A g \in Groups : floor'[r][g] <= served'[g]
      BY <1>0 DEF HeightsOK
    <2>2. \A v \in Upstreams : seen'[r][v] <= maxHeightByGroupID'[GroupOf[v]]
      BY <1>0, Sees, OutsideKept
    <2>3. \A v \in passed'[r] : SeenEnough(r, v)'
      <3>1. CASE Accepts(r)
        <4>1. passed'[r] = passed[r] \cup {u}
          BY <1>u, <3>1, FilterApplied
        <4>2. k > 2
          BY <1>1, <3>1 DEF Accepts
        <4> QED
          BY <1>4, <1>5, <4>1, <4>2
      <3>2. CASE StaysAt(r) \/ Rejects(r)
        BY <1>4, <3>2, FilterApplied
      <3> QED
        BY <1>0, <3>1, <3>2
    <2>4. (phase[r] = "filter" /\ at[r].filter > 2)' => SeenEnough(r, Current(r))'
      <3> SUFFICES ASSUME phase'[r] = "filter", at'[r].filter > 2
                   PROVE  SeenEnough(r, Current(r))'
        OBVIOUS
      <3>1. StaysAt(r)
        <4>1. ASSUME NextUpstream(r) PROVE at'[r].filter = 1
          BY <1>0, <4>1, Moves
        <4> QED
          BY <1>0, <4>1 DEF Accepts, Rejects
      <3>2. at'[r] = [at[r] EXCEPT !.filter = @ + 1] /\ at[r] \in Positions
        BY <1>0, <3>1, FilterApplied DEF TypeOK
      <3>3. Current(r)' = u /\ at'[r].filter = k + 1
        BY <1>u, <3>2 DEF Current, Positions
      <3>4. CASE k > 2
        BY <1>5, <3>3, <3>4 DEF SeenEnough
      <3>5. CASE k = 2
        <4>1. CurrentPasses(r)
          BY <3>1 DEF StaysAt
        <4> QED
          BY <1>6, <3>3, <3>5, <4>1 DEF SeenEnough
      <3> QED
        BY <1>1, <3>3, <3>4, <3>5
    <2>5. ~Filtered(r)'
      BY <1>0 DEF Filtered
    <2> QED
      BY <2>1, <2>2, <2>3, <2>4, <2>5 DEF HeightsOK
  <1>8. SteadyOK(r)'
    <2>1. \A n \in Levels : steady'[r][n] \subseteq SteadyNow(r)'[n]
      BY <1>0, OutsideKept, SteadyNowKept DEF SteadyOK
    <2>2. steady[r][level[r]] \cap Finished(r) \subseteq passed[r]
      BY <1>0 DEF SteadyOK, Filtering
    <2>3. u \in steady[r][level[r]] => ~Rejects(r)
      BY <1>0, <1>u, SteadyPasses DEF Rejects
    <2>4. steady'[r][level'[r]] \cap Finished(r)' \subseteq passed'[r]
      <3>0. steady'[r][level'[r]] = steady[r][level[r]]
        BY <1>0
      <3>1. CASE StaysAt(r)
        <4>1. Finished(r)' = Finished(r) /\ passed'[r] = passed[r]
          BY <3>1, FilterApplied
        <4> QED
          BY <2>2, <3>0, <4>1
      <3>2. CASE ~StaysAt(r)
        <4>1. /\ Finished(r)' = Finished(r) \cup {u}
              /\ Accepts(r) => passed'[r] = passed[r] \cup {u}
              /\ Rejects(r) => passed'[r] = passed[r]
          BY <1>u, <3>2, FilterApplied
        <4> QED
          BY <1>0, <2>2, <2>3, <3>0, <3>2, <4>1
      <3> QED
        BY <3>1, <3>2
    <2> QED
      BY <1>0, <2>1, <2>4 DEF SteadyOK
  <1> QED
    BY <1>0, <1>3, <1>7, <1>8 DEF RequestOK
-----------------------------------------------------------------------------
(* The invariant.                                                          *)

LEMMA InitOK == Init => IInv
  <1> SUFFICES ASSUME Init PROVE IInv
    OBVIOUS
  <1>1. AllFilters \in Levels
    BY Places DEF AllFilters
  <1>2. TypeOK
    <2>1. StoreTypeOK
      BY RoutingConstants DEF Init, StoreTypeOK
    <2>2. HealthTypeOK
      BY FilterConstants DEF Init, HealthTypeOK, PeerCheck
    <2>3. floor \in [Requests -> [Groups -> Nat]]
      BY DEF Init
    <2>4. at \in [Requests -> Positions]
      BY NowhereTyped DEF Init
    <2>5. alwaysRoute \in BOOLEAN /\ reports \in 0..MaxReports
      BY RoutingConstants DEF Init
    <2> QED
      BY <1>1, <2>1, <2>2, <2>3, <2>4, <2>5 DEF Init, TypeOK
  <1>3. StoreOK
    BY <1>2 DEF Init, StoreOK, TypeOK, StoreTypeOK
  <1>4. ASSUME NEW r \in Requests PROVE RequestOK(r)
    <2>1. /\ phase[r] = "idle" /\ floor[r] = served /\ served = [g \in Groups |-> 0]
          /\ seen[r] = [u \in Upstreams |-> 0] /\ steady[r] = [n \in Levels |-> {}]
      BY DEF Init
    <2>2. PositionOK(r) /\ SteadyOK(r)
      BY <2>1 DEF PositionOK, SteadyOK, Filtering
    <2>3. maxHeightByGroupID \in [Groups -> Nat]
      BY <1>2 DEF TypeOK, StoreTypeOK
    <2>4. HeightsOK(r)
      BY <2>1, <2>3, GroupOfAssumption DEF HeightsOK, Filtering, Filtered
    <2> QED
      BY <2>2, <2>4 DEF RequestOK
  <1> QED
    BY <1>2, <1>3, <1>4 DEF IInv

LEMMA ReportOK == IInv /\ AnyReport => IInv'
  <1> SUFFICES ASSUME IInv, AnyReport PROVE IInv'
    OBVIOUS
  <1>1. /\ TypeOK
        /\ reports < MaxReports /\ reports' = reports + 1
        /\ steady' = [r \in Requests |->
              [n \in Levels |-> steady[r][n] \cap SteadyNow(r)'[n]]]
        /\ UNCHANGED <<alwaysRoute, phase, level, todo, at, passed, chosen, seen,
                       served, floor>>
    BY Reported DEF IInv, Report, requestVars
  <1>2. TypeOK'
    <2>1. steady' \in [Requests -> [Levels -> SUBSET Upstreams]]
      BY <1>1 DEF TypeOK
    <2>2. reports' \in 0..MaxReports
      BY <1>1, RoutingConstants DEF TypeOK
    <2> QED
      BY <1>1, <2>1, <2>2, Reported DEF TypeOK
  <1>3. ASSUME NEW r \in Requests PROVE RequestOK(r)'
    <2>1. StillSteady(r)
      BY <1>1 DEF StillSteady
    <2>2. SameRequest(r)
      BY <1>1 DEF SameRequest
    <2>3. RequestOK(r)
      BY DEF IInv
    <2> QED
      BY <1>1, <1>2, <2>1, <2>2, <2>3, Reported, RequestKept
  <1> QED
    BY <1>2, <1>3, Reported DEF IInv

LEMMA RequestStepOK ==
    ASSUME IInv, NEW r \in Requests, RequestStep(r), RequestOK(r)'
    PROVE  IInv'
  <1>1. /\ TypeOK /\ TypeOK' /\ StoreOK' /\ HeightsGrow /\ UNCHANGED outsideVars
    BY DEF IInv, RequestStep
  <1>2. ASSUME NEW s \in Requests \ {r} PROVE RequestOK(s)'
    <2>1. SameRequest(s) /\ steady'[s] = steady[s] /\ RequestOK(s)
      BY DEF IInv, RequestStep
    <2>2. \A n \in Levels : SteadyNow(s)'[n] = SteadyNow(s)[n]
      BY <1>1, OutsideKept, SteadyNowKept
    <2>3. StillSteady(s)
      BY <2>1, <2>2 DEF RequestOK, SteadyOK, StillSteady
    <2> QED
      BY <1>1, <2>1, <2>3, OutsideKept, RequestKept
  <1> QED
    BY <1>1, <1>2 DEF IInv

LEMMA IInvKept == IInv /\ [Next]_vars => IInv'
  <1> SUFFICES ASSUME IInv, [Next]_vars PROVE IInv'
    OBVIOUS
  <1>1. ASSUME NEW r \in Requests, RouteNextRequest(r) PROVE IInv'
    BY <1>1, RouteNextRequestOK, RequestStepOK
  <1>2. ASSUME NEW r \in Requests, ApplyFilter(r) PROVE IInv'
    BY <1>2, ApplyFilterOK, RequestStepOK
  <1>3. ASSUME NEW r \in Requests, RouteToHealthy(r) PROVE IInv'
    BY <1>3, RouteToHealthyOK, RequestStepOK
  <1>4. ASSUME NEW r \in Requests, NoHealthyUpstreams(r) PROVE IInv'
    BY <1>4, NoHealthyUpstreamsOK, RequestStepOK
  <1>5. ASSUME NEW r \in Requests, RemoveFilter(r) PROVE IInv'
    BY <1>5, RemoveFilterOK, RequestStepOK
  <1>6. ASSUME NEW r \in Requests, RouteUnfiltered(r) PROVE IInv'
    BY <1>6, RouteUnfilteredOK, RequestStepOK
  <1>7. CASE AnyReport
    BY <1>7, ReportOK
  <1>8. CASE UNCHANGED vars
    <2>1. /\ UNCHANGED <<storeVars, healthVars, alwaysRoute, reports>>
          /\ UNCHANGED <<phase, level, todo, at, passed, chosen>>
          /\ UNCHANGED <<seen, served, floor, steady>>
      BY <1>8 DEF vars, outsideVars, requestVars, historyVars
    <2>2. UNCHANGED outsideVars
      BY <2>1 DEF outsideVars
    <2>3. TypeOK' /\ StoreOK' /\ HeightsGrow
      BY <2>1, <2>2, OutsideKept, NothingServed DEF IInv, TypeOK
    <2>4. ASSUME NEW s \in Requests PROVE RequestOK(s)'
      <3>1. SameRequest(s) /\ RequestOK(s)
        BY <2>1 DEF SameRequest, IInv
      <3>2. \A n \in Levels : SteadyNow(s)'[n] = SteadyNow(s)[n]
        BY <2>1, SteadyNowKept
      <3>3. StillSteady(s)
        BY <2>1, <3>1, <3>2 DEF RequestOK, SteadyOK, StillSteady
      <3> QED
        BY <2>1, <2>3, <3>1, <3>3, RequestKept DEF IInv
    <2> QED
      BY <2>3, <2>4 DEF IInv
  <1> QED
    BY <1>1, <1>2, <1>3, <1>4, <1>5, <1>6, <1>7, <1>8
    DEF Next, Evaluate, AnyReport

THEOREM Invariance == Spec => []IInv
  BY InitOK, IInvKept, PTL DEF Spec

(***************************************************************************)
(* The state keeps its types: every request examines an upstream that      *)
(* exists with a filter that exists, and chooses one or none.              *)
(***************************************************************************)
THEOREM RoutingTyped == Spec => []TypeOK
  <1>1. IInv => TypeOK
    BY DEF IInv
  <1> QED
    BY <1>1, Invariance, PTL

(***************************************************************************)
(* Once an answer was served at some height from a group, no request that  *)
(* arrives later is routed within the group by a lower height, however     *)
(* the reports of the checks interleave with the filters.                  *)
(***************************************************************************)
THEOREM NeverServedBack == Spec => []GroupNeverServesBack
  <1>1. IInv => GroupNeverServesBack
    BY DEF IInv, RequestOK, HeightsOK, SeenEnough, GroupNeverServesBack
  <1> QED
    BY <1>1, Invariance, PTL

(***************************************************************************)
(* An upstream that passes every filter from a request's arrival to its    *)
(* routing is not overlooked: the request is routed, and to no lower       *)
(* priority than the upstream's.                                           *)
(***************************************************************************)
THEOREM NoneOverlooked == Spec => []SteadyNotOverlooked
  <1>1. IInv => SteadyNotOverlooked
    BY DEF IInv, RequestOK, SteadyOK, NotOverlooked, SteadyNotOverlooked
  <1> QED
    BY <1>1, Invariance, PTL

(***************************************************************************)
(* With alwaysRoute every request that is done was routed, and no filter   *)
(* was given up that some upstream passed all along.                       *)
(***************************************************************************)
THEOREM RoutedAlways == Spec => []AlwaysRouted
  <1>1. IInv => AlwaysRouted
    <2> SUFFICES ASSUME IInv, NEW r \in Requests, phase[r] = "done"
                 PROVE  /\ alwaysRoute => chosen[r] # NoUpstream
                        /\ \A n \in Levels : steady[r][n] # {} => level[r] >= n
      BY DEF AlwaysRouted
    <2>1. SteadyOK(r) /\ level[r] \in Levels \cup {0}
      BY DEF IInv, RequestOK, TypeOK
    <2>2. \A n \in Levels : ~(n > level[r]) => level[r] >= n
      BY <2>1, Places
    <2> QED
      BY <2>1, <2>2 DEF SteadyOK
  <1> QED
    BY <1>1, Invariance, PTL
=============================================================================
