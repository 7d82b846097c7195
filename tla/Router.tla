------------------------------- MODULE Router -------------------------------
(***************************************************************************)
(* internal/route/router.go and filtering_strategy.go: a chain's upstreams *)
(* are grouped by the priority of their group, the groups are filtered for *)
(* each request, and the round robin names an upstream of the first group  *)
(* that has any left.  The request then goes to the configuration found by *)
(* that name.                                                              *)
(*                                                                         *)
(* The chain is any that config.go accepts.  What the filters let through  *)
(* is any set of upstreams here: Routing and UpstreamBans model them.      *)
(***************************************************************************)
EXTENDS PriorityRoundRobin

CONSTANTS
    GroupIDs,
    ChainConfigs    \* the chains a file may give

ASSUME RouterConstants ==
    ChainConfigs \subseteq
        [groups    : Seq([id : GroupIDs, priority : Int]),
         upstreams : Seq([id : Upstreams, group : GroupIDs])]

VARIABLES
    chain,      \* the chain loaded
    healthy     \* of each request: the positions of the upstreams it may use

vars == <<chain, healthy, roundRobinVars>>

-----------------------------------------------------------------------------
\* The elements of a sequence of records differ in a field.
Unique(s, Field(_)) ==
    \A i, j \in DOMAIN s : Field(s[i]) = Field(s[j]) => i = j

ID(x) == x.id
Priority(g) == g.priority
IDAndGroup(u) == <<u.id, u.group>>

\* config.IsGroupsValid.
IsGroupsValid(groups) == Unique(groups, ID) /\ Unique(groups, Priority)

\* Mutant: the IDs of upstreams are unique within their group only.
IsUpstreamsValidByGroup(ups) == Unique(ups, IDAndGroup)

\* config.IsUpstreamsValid.
IsUpstreamsValid(ups) == Unique(ups, ID)

\* UpstreamConfig.isValid, as far as groups go.
HasValidGroup(u, groups) ==
    groups # <<>> => \E g \in Range(groups) : g.id = u.group

\* SingleChainConfig.isValid.
IsValid(c) ==
    /\ IsGroupsValid(c.groups)
    /\ IsUpstreamsValid(c.upstreams)
    /\ \A u \in Range(c.upstreams) : HasValidGroup(u, c.groups)

-----------------------------------------------------------------------------
\* The priority of the first group with the upstream's group ID, 0 if none.
GroupPriority(u) ==
    LET i == SelectInSeq(chain.groups, LAMBDA g : g.id = u.group)
    IN  IF i = 0 THEN 0 ELSE chain.groups[i].priority

\* groupUpstreamsByPriority: the positions of the upstreams of each priority.
\* Both maps list upstreams in the order of the file.
GroupUpstreamsByPriority ==
    [p \in {GroupPriority(u) : u \in Range(chain.upstreams)} |->
        {i \in DOMAIN chain.upstreams : GroupPriority(chain.upstreams[i]) = p}]

\* The members of a set of numbers from the smallest to the largest.
InOrder(S) ==
    CHOOSE s \in [1..Cardinality(S) -> S] :
        \A j, k \in DOMAIN s : j < k => s[j] < s[k]

\* filterUpstreams: a priority that has none left is left out.
FilterUpstreams(ok) ==
    LET left(p) == GroupUpstreamsByPriority[p] \cap ok
    IN  [p \in {q \in DOMAIN GroupUpstreamsByPriority : left(q) # {}} |->
            [k \in 1..Cardinality(left(p)) |->
                chain.upstreams[InOrder(left(p))[k]].id]]

\* configToRoute: the last upstream with the ID the strategy returned.
ConfigToRoute(id) ==
    SelectLastInSeq(chain.upstreams, LAMBDA u : u.id = id)

-----------------------------------------------------------------------------
TypeOK ==
    /\ RoundRobinTypeOK
    /\ chain \in ChainConfigs
    /\ healthy \in [Requests -> SUBSET DOMAIN chain.upstreams]

Init ==
    /\ RoundRobinInit
    /\ chain \in {c \in ChainConfigs : IsValid(c)}
    /\ healthy = [r \in Requests |-> {}]

\* FilteringRoutingStrategy.RouteNextRequest up to the counter.
Filter(r) ==
    \E ok \in SUBSET DOMAIN chain.upstreams :
        /\ RouteNextRequest(r, FilterUpstreams(ok))
        /\ healthy' = [healthy EXCEPT ![r] = ok]
        /\ UNCHANGED chain

Count(r) == AddUint64(r) /\ UNCHANGED <<chain, healthy>>

Route(r) == Index(r) /\ UNCHANGED <<chain, healthy>>

Next == \E r \in Requests : Filter(r) \/ Count(r) \/ Route(r)

Spec == Init /\ [][Next]_vars

-----------------------------------------------------------------------------
(***************************************************************************)
(* A request is sent to an upstream that passed the filters, of the best   *)
(* priority that had one, whatever the order of groups and upstreams in    *)
(* the file and whichever requests share the counter; and it is refused    *)
(* only when no upstream passed.  The group of an upstream is the one the  *)
(* file gives to the configuration the request ends up with.               *)
(***************************************************************************)
FallbackOnlyWhenNeeded ==
    \A r \in Requests :
        LET priorityOf(i) == GroupPriority(chain.upstreams[i])
            i == ConfigToRoute(result[r])
        IN  pc[r] = "idle" =>
                /\ result[r] \in Upstreams =>
                       /\ i \in healthy[r]
                       /\ \A j \in healthy[r] : priorityOf(i) <= priorityOf(j)
                /\ result[r] = NoUpstream => healthy[r] = {}
=============================================================================
