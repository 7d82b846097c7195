------------------------- MODULE MCBlockHeightCheck -------------------------
(***************************************************************************)
(* One upstream of any kind: upstreams share nothing but the maxima of the *)
(* store, which no property here speaks about.                             *)
(***************************************************************************)
EXTENDS BlockHeightCheck, TLC

CONSTANTS u1, g1

MCGroupOf == u1 :> g1

\* A subscription that is not made cannot end.
MCConfigs == {c \in Config : c.mayClose => c.useWS}
=============================================================================
