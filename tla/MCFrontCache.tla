----------------------------- MODULE MCFrontCache -----------------------------
(* TLC instances of FrontCache: three or four queries, most for one key.   *)
EXTENDS FrontCache, TLC

CONSTANTS r1, r2, r3, r4, k1, k2

MCRequests3 == {r1, r2, r3}
MCRequests4 == {r1, r2, r3, r4}

OneKey3 == r1 :> k1 @@ r2 :> k1 @@ r3 :> k1
Keys4 == r1 :> k1 @@ r2 :> k1 @@ r3 :> k2 @@ r4 :> NoKey

Mixed4 == r1 :> "tcp" @@ r2 :> "udp" @@ r3 :> "doh" @@ r4 :> "udp"
WithTcp3 == r1 :> "tcp" @@ r2 :> "udp" @@ r3 :> "doh"
=============================================================================
