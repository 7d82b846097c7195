---------------------------- MODULE MCRPCHandler ----------------------------
EXTENDS RPCHandler, TLC

CONSTANTS m1, m2, m3

\* Without a default TTL only m1 and m2 are cached: zero means the default.
MCMethodTTLs == (m1 :> 2) @@ (m2 :> 1) @@ (m3 :> 0)

MCLongerMethodTTLs == (m1 :> 3) @@ (m2 :> 2) @@ (m3 :> 0)

\* Keys are independent: requests for one, and one that no cache is for.
MCQueries ==
    [method : {m1}, shape : {"single", "notification"}]
    \cup [method : {m3}, shape : {"single"}]
=============================================================================
