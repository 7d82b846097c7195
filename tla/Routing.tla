------------------------------ MODULE Routing ------------------------------
(***************************************************************************)
(* How a request is routed: filtering_strategy.go and                      *)
(* always_route_filtering_strategy.go over the filters of NodeFilters.     *)
(*                                                                         *)
(* A request applies the filters one at a time, each with a query of its   *)
(* own, while the checks go on reporting and other requests open and close *)
(* the circuit breakers.  So a step of a request applies one filter to one *)
(* upstream, and the reports come in between.  The backing strategy picks  *)
(* some upstream of the first priority left (PriorityRoundRobin.tla).      *)
(***************************************************************************)
EXTENDS NodeFilters, FiniteSets

CONSTANTS
    AlwaysRoute,       \* the settings of routing.alwaysRoute to consider
    NoUpstream,        \* DefaultNoHealthyUpstreamsError
    ReportedHeights,   \* bound: the heights the checks report
    MaxReports         \* bound: how many reports arrive

ASSUME RoutingConstants ==
    /\ AlwaysRoute \subseteq BOOLEAN
    /\ NoUpstream \notin Upstreams
    /\ ReportedHeights \subseteq Nat
    /\ MaxReports \in Nat
    /\ Priorities # {} /\ \A p \in Priorities : UpstreamsAt[p] # <<>>
    \* IsUpstreamsValid: the IDs are unique, so an upstream has one place.
    /\ \A p, q \in Priorities :
          \A i \in DOMAIN UpstreamsAt[p], j \in DOMAIN UpstreamsAt[q] :
             UpstreamsAt[p][i] = UpstreamsAt[q][j] => p = q /\ i = j

VARIABLES
    alwaysRoute,
    reports,
    phase,       \* "idle", "filter", "decide", "done"
    level,       \* how many filters are left; 0 when routing without filters
    todo,        \* the priorities that filterUpstreams has not finished
    at,          \* the next filter application: priority, upstream, filter
    passed,      \* the upstreams that passed all filters left
    chosen,      \* the ID RouteNextRequest returned, or NoUpstream
    \* what the properties speak about
    seen,        \* the height an upstream passed maxHeightForGroup with
    served,      \* per group: the highest height a request was routed at
    floor,       \* what served was when the request arrived
    steady       \* the upstreams that passed n filters all along

\* What a request reads and does not change.
outsideVars == <<storeVars, healthVars, alwaysRoute, reports>>
requestVars == <<phase, level, todo, at, passed, chosen>>
historyVars == <<seen, served, floor, steady>>
vars == <<outsideVars, requestVars, historyVars>>

Levels == RequiredFilters..AllFilters
Positions == [priority : Priorities, upstream : Nat, filter : Nat]

TypeOK ==
    /\ StoreTypeOK
    /\ HealthTypeOK
    /\ alwaysRoute \in BOOLEAN
    /\ reports \in 0..MaxReports
    /\ phase \in [Requests -> {"idle", "filter", "decide", "done"}]
    /\ level \in [Requests -> Levels \cup {0}]
    /\ todo \in [Requests -> SUBSET Priorities]
    /\ at \in [Requests -> Positions]
    /\ passed \in [Requests -> SUBSET Upstreams]
    /\ chosen \in [Requests -> Upstreams \cup {NoUpstream}]
    /\ seen \in [Requests -> [Upstreams -> Nat]]
    /\ served \in [Groups -> Nat]
    /\ floor \in [Requests -> [Groups -> Nat]]
    /\ steady \in [Requests -> [Levels -> SUBSET Upstreams]]

\* Where filterUpstreams begins with priority p.
StartOf(p) == [priority |-> p, upstream |-> 1, filter |-> 1]

\* The value of at outside of filterUpstreams.
Nowhere == StartOf(CHOOSE p \in Priorities : TRUE)

SteadyNow(r) ==
    [n \in Levels |-> UNION {Passing(n, r, p) : p \in Priorities}]

(***************************************************************************)
(* The gateway as the first round of checks leaves it: every upstream      *)
(* answered, with some height and enough peers, and the maxima are those   *)
(* of the heights.                                                         *)
(***************************************************************************)
Init ==
    /\ heightByUpstreamID \in [Upstreams -> ReportedHeights]
    /\ maxHeightByGroupID \in [Groups -> ReportedHeights \cup {0}]
    /\ globalMaxHeight \in ReportedHeights
    /\ MaximaOrdered
    /\ \A g \in Groups : \/ maxHeightByGroupID[g] = 0
                         \/ \E u \in Upstreams :
                               /\ GroupOf[u] = g
                               /\ heightByUpstreamID[u] = maxHeightByGroupID[g]
    /\ \E g \in Groups : maxHeightByGroupID[g] = globalMaxHeight
    /\ errorByUpstreamID = [u \in Upstreams |-> NoError]
    /\ peerCheck = [u \in Upstreams |->
          [ShouldRun |-> TRUE, Err |-> NoError, PeerCount |-> MinimumPeerCount]]
    /\ errorBanned = {}
    /\ latencyBanned = {}
    /\ alwaysRoute \in AlwaysRoute
    /\ reports = 0
    /\ phase = [r \in Requests |-> "idle"]
    /\ level = [r \in Requests |-> AllFilters]
    /\ todo = [r \in Requests |-> {}]
    /\ at = [r \in Requests |-> Nowhere]
    /\ passed = [r \in Requests |-> {}]
    /\ chosen = [r \in Requests |-> NoUpstream]
    /\ seen = [r \in Requests |-> [u \in Upstreams |-> 0]]
    /\ served = [g \in Groups |-> 0]
    /\ floor = [r \in Requests |-> served]
    /\ steady = [r \in Requests |-> [n \in Levels |-> {}]]

-----------------------------------------------------------------------------
(* What the checks and the other requests do to what the filters read.     *)

\* A report that changes nothing is a stutter.  steady keeps the upstreams that
\* still pass after the report.
Report ==
    /\ reports < MaxReports
    /\ <<storeVars, healthVars>>' # <<storeVars, healthVars>>
    /\ reports' = reports + 1
    /\ steady' = [r \in Requests |->
          LET now == SteadyNow(r)' IN
          [n \in Levels |-> steady[r][n] \cap now[n]]]
    /\ UNCHANGED <<alwaysRoute, requestVars, seen, served, floor>>

HeightReport(u) ==
    /\ \E h \in ReportedHeights : ProcessBlockHeightUpdate(u, h)
    /\ UNCHANGED healthVars
    /\ Report

ErrorReport(u) ==
    /\ \E e \in Errors : ProcessErrorUpdate(u, e)
    /\ UNCHANGED healthVars
    /\ Report

\* PeerCheck.runCheck: an error, or a count; an error keeps the last count.
PeerReport(u) ==
    /\ \/ \E e \in Errors : peerCheck' = [peerCheck EXCEPT ![u].Err = e]
       \/ \E n \in {0, MinimumPeerCount} :
             peerCheck' = [peerCheck EXCEPT ![u].Err = NoError,
                                            ![u].PeerCount = n]
    /\ UNCHANGED <<storeVars, errorBanned, latencyBanned>>
    /\ Report

BreakerReport(u) ==
    /\ \/ errorBanned' = errorBanned \cup {u} /\ UNCHANGED latencyBanned
       \/ errorBanned' = errorBanned \ {u} /\ UNCHANGED latencyBanned
       \/ \E m \in Methods :
             /\ \/ latencyBanned' = latencyBanned \cup {<<u, m>>}
                \/ latencyBanned' = latencyBanned \ {<<u, m>>}
             /\ UNCHANGED errorBanned
    /\ UNCHANGED <<storeVars, peerCheck>>
    /\ Report

-----------------------------------------------------------------------------
(* A request.                                                              *)

\* filterUpstreams is entered with the first n filters.
EnterFilters(r, n) ==
    /\ phase' = [phase EXCEPT ![r] = "filter"]
    /\ level' = [level EXCEPT ![r] = n]
    /\ todo' = [todo EXCEPT ![r] = Priorities]
    /\ \E p \in Priorities : at' = [at EXCEPT ![r] = StartOf(p)]
    /\ passed' = [passed EXCEPT ![r] = {}]

RouteNextRequest(r) ==
    /\ phase[r] \in {"idle", "done"}
    /\ EnterFilters(r, AllFilters)
    /\ floor' = [floor EXCEPT ![r] = served]
    /\ steady' = [steady EXCEPT ![r] = SteadyNow(r)]
    /\ seen' = [seen EXCEPT ![r] = [u \in Upstreams |-> 0]]
    /\ chosen' = [chosen EXCEPT ![r] = NoUpstream]
    /\ UNCHANGED <<outsideVars, served>>

\* After an upstream: the next of its priority, or of another priority (Go
\* ranges over the map in any order), or the decision.
NextUpstream(r) ==
    LET p == at[r].priority IN
    \/ /\ at[r].upstream < Len(UpstreamsAt[p])
       /\ at' = [at EXCEPT ![r].upstream = @ + 1, ![r].filter = 1]
       /\ UNCHANGED <<phase, todo>>
    \/ /\ at[r].upstream = Len(UpstreamsAt[p])
       /\ todo' = [todo EXCEPT ![r] = @ \ {p}]
       /\ \/ /\ todo'[r] = {}
             /\ phase' = [phase EXCEPT ![r] = "decide"]
             /\ at' = [at EXCEPT ![r] = Nowhere]
          \/ /\ \E q \in todo'[r] : at' = [at EXCEPT ![r] = StartOf(q)]
             /\ UNCHANGED phase

\* AndFilter.Apply, one filter: it stops at the first that fails.
ApplyFilter(r) ==
    LET p == at[r].priority
        u == UpstreamsAt[p][at[r].upstream]
        f == Filters[at[r].filter]
        ok == Passes(f, r, p, u)
    IN
    /\ phase[r] = "filter"
    /\ \/ /\ ok
          /\ at[r].filter < level[r]
          /\ at' = [at EXCEPT ![r].filter = @ + 1]
          /\ UNCHANGED <<phase, todo, passed>>
       \/ /\ ok
          /\ at[r].filter = level[r]
          /\ passed' = [passed EXCEPT ![r] = @ \cup {u}]
          /\ NextUpstream(r)
       \/ /\ ~ok
          /\ NextUpstream(r)
          /\ UNCHANGED passed
    /\ seen' = IF f = "maxHeightForGroup"
               THEN [seen EXCEPT ![r][u] = heightByUpstreamID[u]] ELSE seen
    /\ UNCHANGED <<outsideVars, level, chosen, served,
                   floor, steady>>

\* Mutant: the larger number first.
FirstReversed(us) ==
    UNION {UpstreamsOf(p) \cap us : p \in
        {q \in Priorities :
            /\ UpstreamsOf(q) \cap us # {}
            /\ \A o \in Priorities : o > q => UpstreamsOf(o) \cap us = {}}}

\* PriorityRoundRobinStrategy: an upstream of the first priority that has any.
First(us) ==
    UNION {UpstreamsOf(p) \cap us : p \in
        {q \in Priorities :
            /\ UpstreamsOf(q) \cap us # {}
            /\ \A o \in Priorities : o < q => UpstreamsOf(o) \cap us = {}}}

Answer(r, u) ==
    /\ phase' = [phase EXCEPT ![r] = "done"]
    /\ chosen' = [chosen EXCEPT ![r] = u]
    /\ passed' = [passed EXCEPT ![r] = {}]
    /\ UNCHANGED <<outsideVars, todo, at, seen, floor, steady>>

RouteToHealthy(r) ==
    /\ phase[r] = "decide"
    /\ \E u \in First(passed[r]) :
          /\ Answer(r, u)
          /\ served' = [served EXCEPT ![GroupOf[u]] = Larger(@, seen[r][u])]
    /\ UNCHANGED level

NoHealthyUpstreams(r) ==
    /\ phase[r] = "decide"
    /\ passed[r] = {}
    /\ ~alwaysRoute
    /\ Answer(r, NoUpstream)
    /\ UNCHANGED <<level, served>>

\* RemoveFilter that goes on with n filters when it may.
RemoveFilterTo(r, n, mayRemove) ==
    /\ phase[r] = "decide"
    /\ passed[r] = {}
    /\ alwaysRoute
    /\ mayRemove
    /\ EnterFilters(r, n)
    /\ UNCHANGED <<outsideVars, chosen, historyVars>>

\* Mutants: filters that are not removable are removed; all removable filters
\* are removed at once; the filters are tried again without removing one.
RemoveAnyFilter(r) == RemoveFilterTo(r, level[r] - 1, level[r] > 1)
RemoveRemovableFilters(r) ==
    RemoveFilterTo(r, RequiredFilters, level[r] > RequiredFilters)
RemoveNoFilter(r) == RemoveFilterTo(r, level[r], level[r] > RequiredFilters)

\* AlwaysRouteFilteringStrategy: drop the last filter and start over.
RemoveFilter(r) == RemoveFilterTo(r, level[r] - 1, level[r] > RequiredFilters)

\* Mutant: gives up when no removable filter is left.
RefuseUnfiltered(r) ==
    /\ phase[r] = "decide"
    /\ passed[r] = {}
    /\ alwaysRoute
    /\ level[r] = RequiredFilters
    /\ Answer(r, NoUpstream)
    /\ UNCHANGED <<level, served>>

\* No removable filter is left: route as if every upstream were healthy.
RouteUnfiltered(r) ==
    /\ phase[r] = "decide"
    /\ passed[r] = {}
    /\ alwaysRoute
    /\ level[r] = RequiredFilters
    /\ \E u \in First(Upstreams) : Answer(r, u)
    /\ level' = [level EXCEPT ![r] = 0]
    /\ UNCHANGED served

Evaluate(r) ==
    \/ ApplyFilter(r) \/ RouteToHealthy(r) \/ NoHealthyUpstreams(r)
    \/ RemoveFilter(r) \/ RouteUnfiltered(r)

Next ==
    \/ \E r \in Requests : RouteNextRequest(r) \/ Evaluate(r)
    \/ \E u \in Upstreams : HeightReport(u) \/ ErrorReport(u) \/ PeerReport(u)
                           \/ BreakerReport(u)

Spec == Init /\ [][Next]_vars

\* A request's goroutine runs; nothing in RouteNextRequest blocks.
FairSpec == Spec /\ \A r \in Requests : WF_vars(Evaluate(r))

-----------------------------------------------------------------------------
PriorityOf(u) == CHOOSE p \in Priorities : u \in UpstreamsOf(p)

Filtered(r) == phase[r] = "done" /\ level[r] # 0 /\ chosen[r] # NoUpstream

(***************************************************************************)
(* "Automated routing to nodes at max block height for data consistency"   *)
(* (README): once a client had an answer at some height from a group, no   *)
(* request that arrives later is routed, within the group, by a lower      *)
(* height, though the filters are applied while heights change.  Excepted  *)
(* are a group of one upstream (by the code's design) and alwaysRoute when *)
(* it routes unfiltered.                                                   *)
(***************************************************************************)
GroupNeverServesBack ==
    \A r \in Requests :
        /\ Filtered(r)
        /\ Len(UpstreamsAt[PriorityOf(chosen[r])]) > 1
        => seen[r][chosen[r]] >= floor[r][GroupOf[chosen[r]]]

(***************************************************************************)
(* An upstream that passes every filter from the arrival of a request to   *)
(* its routing is never overlooked: the request is not refused, nor sent   *)
(* to a lower priority.                                                    *)
(***************************************************************************)
SteadyNotOverlooked ==
    \A r \in Requests : phase[r] = "done" =>
        \A u \in steady[r][AllFilters] :
            /\ chosen[r] # NoUpstream
            /\ PriorityOf(chosen[r]) <= PriorityOf(u)

(***************************************************************************)
(* alwaysRoute means what it says, and gives up a filter only when it has  *)
(* to: with an upstream that keeps passing the first n filters, the        *)
(* request is routed with at least those, and never unfiltered.            *)
(***************************************************************************)
AlwaysRouted ==
    \A r \in Requests : phase[r] = "done" =>
        /\ alwaysRoute => chosen[r] # NoUpstream
        /\ \A n \in Levels : steady[r][n] # {} => level[r] >= n

(***************************************************************************)
(* Routing ends: a request is answered or refused, whatever the checks     *)
(* report and however often alwaysRoute starts over.                       *)
(***************************************************************************)
RoutingEnds == \A r \in Requests : phase[r] = "filter" ~> phase[r] = "done"
=============================================================================
