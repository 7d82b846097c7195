----------------------------- MODULE MCRouting -----------------------------
(***************************************************************************)
(* A primary group of two upstreams and a fallback group of one.  The      *)
(* request asks for a state method, which the full node u2 does not serve. *)
(***************************************************************************)
EXTENDS Routing, TLC

CONSTANTS u1, u2, u3, g1, g2, r1

MCGroupOf == u1 :> g1 @@ u2 :> g1 @@ u3 :> g2

MCUpstreamsAt == 0 :> <<u1, u2>> @@ 1 :> <<u3>>

MCMethods == {"eth_call"}

MCMethodsOf == r1 :> {"eth_call"}

MCNone == [u \in Upstreams |-> {}]
=============================================================================
