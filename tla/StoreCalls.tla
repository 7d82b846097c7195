----------------------------- MODULE StoreCalls -----------------------------
(***************************************************************************)
(* The goroutines that call a ChainMetadataStore and the calls they make.  *)
(* Shared by the detailed store and by the atomic one it implements.       *)
(***************************************************************************)
EXTENDS MetadataStore

CONSTANTS
    Callers,     \* goroutines: health checks and requests being routed
    Heights,     \* block heights that checks report
    CallsOf,     \* the calls each goroutine makes
    NoStatus     \* a caller that has not asked for a status yet

HeightUpdate == [method : {"ProcessBlockHeightUpdate"},
                 upstream : Upstreams, height : Heights]
ErrorUpdate  == [method : {"ProcessErrorUpdate"},
                 upstream : Upstreams, error : Errors \cup {NoError}]
StatusQuery  == [method : {"GetBlockHeightStatus"}, upstream : Upstreams]
Calls        == HeightUpdate \cup ErrorUpdate \cup StatusQuery
NoCall       == [method |-> "none"]

ASSUME HeightsAssumption == Heights \subseteq Nat
ASSUME CallsOfAssumption == CallsOf \in [Callers -> SUBSET Calls]
ASSUME NoStatusAssumption == NoStatus \notin BlockHeightStatus
=============================================================================
