--------------------------- MODULE MetadataStore ---------------------------
(***************************************************************************)
(* The chain metadata of internal/metadata/store.go as plain state: the    *)
(* four maps of ChainMetadataStore and, for each of its three public       *)
(* methods, what the method does to the maps or reads from them when it    *)
(* runs without interruption.  ChainMetadataStore.tla shows that the       *)
(* channel and the server goroutine make the methods behave this way, so   *)
(* the modules of the store's callers use these operators as single steps. *)
(*                                                                         *)
(* A Go map that has no entry for a key yields the zero value, so a map is *)
(* a total function that starts at 0, or at NoError for the nil error.     *)
(***************************************************************************)
EXTENDS Integers

CONSTANTS
    Upstreams,   \* the IDs of the configured upstreams
    Groups,      \* the IDs of the upstream groups
    GroupOf,     \* the group of each upstream: UpstreamConfig.GroupID
    Errors,      \* the non-nil errors a check can report
    NoError      \* the nil error

ASSUME GroupOfAssumption == GroupOf \in [Upstreams -> Groups]
ASSUME NoErrorAssumption == NoError \notin Errors

VARIABLES
    globalMaxHeight,
    maxHeightByGroupID,
    heightByUpstreamID,
    errorByUpstreamID

storeVars == <<globalMaxHeight, maxHeightByGroupID, heightByUpstreamID,
               errorByUpstreamID>>

StoreTypeOK ==
    /\ globalMaxHeight \in Nat
    /\ maxHeightByGroupID \in [Groups -> Nat]
    /\ heightByUpstreamID \in [Upstreams -> Nat]
    /\ errorByUpstreamID \in [Upstreams -> Errors \cup {NoError}]

\* NewChainMetadataStore: every map is empty.
StoreInit ==
    /\ globalMaxHeight = 0
    /\ maxHeightByGroupID = [g \in Groups |-> 0]
    /\ heightByUpstreamID = [u \in Upstreams |-> 0]
    /\ errorByUpstreamID = [u \in Upstreams |-> NoError]

\* lo.Max of a two-element slice.
Larger(a, b) == IF a >= b THEN a ELSE b

-----------------------------------------------------------------------------
(* The assignments the operations are made of.                             *)

\* Mutant: the last height, not the largest.
updateGlobalHeightToLast(h) == globalMaxHeight' = h

updateGlobalHeight(h) == globalMaxHeight' = Larger(globalMaxHeight, h)

\* Mutant: the last height, not the largest.
updateHeightForGroupToLast(g, h) ==
    maxHeightByGroupID' = [maxHeightByGroupID EXCEPT ![g] = h]

updateHeightForGroup(g, h) ==
    maxHeightByGroupID' = [maxHeightByGroupID EXCEPT ![g] = Larger(@, h)]

updateHeightForUpstream(u, h) ==
    heightByUpstreamID' = [heightByUpstreamID EXCEPT ![u] = h]

updateErrorForUpstream(u, e) ==
    errorByUpstreamID' = [errorByUpstreamID EXCEPT ![u] = e]

(* The operations.                                                         *)

\* Mutant: a height does not clear the error.
ProcessBlockHeightUpdateKeepingError(u, h) ==
    /\ updateGlobalHeight(h)
    /\ updateHeightForGroup(GroupOf[u], h)
    /\ updateHeightForUpstream(u, h)
    /\ UNCHANGED errorByUpstreamID

ProcessBlockHeightUpdate(u, h) ==
    /\ updateGlobalHeight(h)
    /\ updateHeightForGroup(GroupOf[u], h)
    /\ updateHeightForUpstream(u, h)
    /\ updateErrorForUpstream(u, NoError)

ProcessErrorUpdate(u, e) ==
    /\ updateErrorForUpstream(u, e)
    /\ UNCHANGED <<globalMaxHeight, maxHeightByGroupID, heightByUpstreamID>>

\* The BlockHeightStatus record; GroupID is GroupOf[upstream] and is left out.
GetBlockHeightStatus(u) ==
    [Error                |-> errorByUpstreamID[u],
     UpstreamID           |-> u,
     BlockHeight          |-> heightByUpstreamID[u],
     GroupMaxBlockHeight  |-> maxHeightByGroupID[GroupOf[u]],
     GlobalMaxBlockHeight |-> globalMaxHeight]

BlockHeightStatus ==
    [Error                : Errors \cup {NoError},
     UpstreamID           : Upstreams,
     BlockHeight          : Nat,
     GroupMaxBlockHeight  : Nat,
     GlobalMaxBlockHeight : Nat]

(***************************************************************************)
(* The maxima bound what they are maxima of: no upstream's height exceeds  *)
(* its group's maximum, and no group's maximum the global one.             *)
(***************************************************************************)
MaximaOrdered ==
    /\ \A u \in Upstreams :
          heightByUpstreamID[u] <= maxHeightByGroupID[GroupOf[u]]
    /\ \A g \in Groups : maxHeightByGroupID[g] <= globalMaxHeight

\* The maxima are over all rounds of checks: they never come down.
MaximaGrow ==
    /\ globalMaxHeight <= globalMaxHeight'
    /\ \A g \in Groups : maxHeightByGroupID[g] <= maxHeightByGroupID'[g]
=============================================================================
