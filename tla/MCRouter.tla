------------------------------ MODULE MCRouter ------------------------------
EXTENDS Router, TLC

CONSTANTS u1, u2, u3, g1, g2, NoGroup

\* Two groups in either order, no groups, and groups that are not valid:
\* an ID or a priority twice.
MCGroups == {
    <<>>,
    <<[id |-> g1, priority |-> 0], [id |-> g2, priority |-> 1]>>,
    <<[id |-> g1, priority |-> 1], [id |-> g2, priority |-> 0]>>,
    <<[id |-> g1, priority |-> 1], [id |-> g2, priority |-> 1]>>,
    <<[id |-> g1, priority |-> 0], [id |-> g1, priority |-> 1]>>}

\* Three upstreams in one group or two, whose IDs differ, or two of one ID.
MCChainConfigs ==
    [groups : MCGroups,
     upstreams :
        {[i \in 1..3 |-> [id |-> ids[i], group |-> groups[i]]] :
            ids \in {<<u1, u2, u3>>, <<u1, u2, u2>>},
            groups \in {<<g1, g2, g1>>, <<NoGroup, NoGroup, NoGroup>>}}]

Symmetry == Permutations(Requests)
=============================================================================
