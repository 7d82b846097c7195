------------------------ MODULE MCChainMetadataStore ------------------------
(***************************************************************************)
(* Two upstreams of one group.  The check of u1 only updates the store;    *)
(* the second caller reports for u2 and asks about both upstreams.         *)
(***************************************************************************)
EXTENDS ChainMetadataStore, TLC

CONSTANTS u1, u2, g1, c1, c2

MCGroupOf == u1 :> g1 @@ u2 :> g1

UpdatesOf(u) == {o \in HeightUpdate \cup ErrorUpdate : o.upstream = u}

MCCallsOf == c1 :> UpdatesOf(u1) @@ c2 :> UpdatesOf(u2) \cup StatusQuery
=============================================================================
