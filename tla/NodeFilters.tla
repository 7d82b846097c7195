---------------------------- MODULE NodeFilters ----------------------------
(***************************************************************************)
(* internal/route/node_filter.go: the filters that decide whether an       *)
(* upstream may serve a request.  Each filter reads the gateway's view of  *)
(* the upstream once: the status in the store, the PeerCheck, or one of    *)
(* the two circuit breakers.                                               *)
(***************************************************************************)
EXTENDS MetadataStore, Sequences

CONSTANTS
    Requests,          \* the goroutines that route requests
    Methods,           \* RPC methods
    MethodsOf,         \* the RPC methods of a request (several in a batch)
    ArchiveMethods,    \* isArchiveNodeMethod
    DisabledMethods,   \* per upstream: methods.disabled of the config
    EnabledMethods,    \* per upstream: methods.enabled of the config
    FullNodes,         \* upstreams whose nodeType is full
    MinimumPeerCount,  \* checks.MinimumPeerCount
    MaxBlocksBehind,   \* routing.maxBlocksBehind, or its default of 10
    Priorities,        \* the priorities that have upstreams
    UpstreamsAt        \* priority |-> its upstreams, in the config's order

ASSUME FilterConstants ==
    /\ MinimumPeerCount \in Nat /\ MaxBlocksBehind \in Nat
    /\ MethodsOf \in [Requests -> SUBSET Methods]
    /\ Priorities \subseteq Int
    /\ UpstreamsAt \in [Priorities -> Seq(Upstreams)]

VARIABLES
    peerCheck,         \* the PeerCheck of each upstream
    errorBanned,       \* upstreams whose error breaker is open
    latencyBanned      \* upstream and method with an open latency breaker

healthVars == <<peerCheck, errorBanned, latencyBanned>>

PeerCheck == [ShouldRun : BOOLEAN, Err : Errors \cup {NoError}, PeerCount : Nat]

HealthTypeOK ==
    /\ peerCheck \in [Upstreams -> PeerCheck]
    /\ errorBanned \subseteq Upstreams
    /\ latencyBanned \subseteq Upstreams \X Methods

HasEnoughPeers(u) ==
    peerCheck[u].ShouldRun =>
        /\ peerCheck[u].Err = NoError
        /\ peerCheck[u].PeerCount >= MinimumPeerCount

IsErrorRateAcceptable(u) == u \notin errorBanned

IsLatencyAcceptable(r, u) == \A m \in MethodsOf[r] : <<u, m>> \notin latencyBanned

IsCloseToGlobalMaxHeight(u) ==
    LET status == GetBlockHeightStatus(u) IN
        /\ status.Error = NoError
        /\ status.BlockHeight + MaxBlocksBehind >= status.GlobalMaxBlockHeight

\* Mutant: tolerates a lag, as the filter on the global maximum does.
IsNearMaxHeightForGroup(u, numUpstreams) ==
    LET status == GetBlockHeightStatus(u) IN
        /\ status.Error = NoError
        /\ \/ numUpstreams = 1
           \/ status.BlockHeight + MaxBlocksBehind >= status.GroupMaxBlockHeight

\* numUpstreams: the upstreams of the priority, before any filtering.
IsAtMaxHeightForGroup(u, numUpstreams) ==
    LET status == GetBlockHeightStatus(u) IN
        /\ status.Error = NoError
        /\ \/ numUpstreams = 1
           \/ status.BlockHeight >= status.GroupMaxBlockHeight

AreMethodsAllowed(r, u) ==
    \A m \in MethodsOf[r] :
        /\ m \notin DisabledMethods[u]
        /\ m \in ArchiveMethods /\ u \in FullNodes => m \in EnabledMethods[u]

-----------------------------------------------------------------------------
(***************************************************************************)
(* The filters in the order wireSingleChainDependencies puts them.  The    *)
(* first RequiredFilters are the one AndFilter that CreateNodeFilter       *)
(* builds; the others are those AlwaysRouteFilteringStrategy may remove,   *)
(* from the end.                                                           *)
(***************************************************************************)
Filters == <<"healthy", "maxHeightForGroup", "methodsAllowed",
             "nearGlobalMaxHeight", "errorRateAcceptable", "latencyAcceptable">>
AllFilters == 6
RequiredFilters == 4

\* The upstream u of priority p passes the named filter for request r.
Passes(name, r, p, u) ==
    CASE name = "healthy" -> HasEnoughPeers(u)
      [] name = "maxHeightForGroup" ->
            IsAtMaxHeightForGroup(u, Len(UpstreamsAt[p]))
      [] name = "methodsAllowed" -> AreMethodsAllowed(r, u)
      [] name = "nearGlobalMaxHeight" -> IsCloseToGlobalMaxHeight(u)
      [] name = "errorRateAcceptable" -> IsErrorRateAcceptable(u)
      [] name = "latencyAcceptable" -> IsLatencyAcceptable(r, u)

UpstreamsOf(p) == {UpstreamsAt[p][i] : i \in DOMAIN UpstreamsAt[p]}

\* The upstreams of p that would pass the first n filters at this instant.
Passing(n, r, p) ==
    {u \in UpstreamsOf(p) : \A f \in 1..n : Passes(Filters[f], r, p, u)}
=============================================================================
