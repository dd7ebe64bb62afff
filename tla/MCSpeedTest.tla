----------------------------- MODULE MCSpeedTest -----------------------------
(* TLC instance of SpeedTest: one request with two upstreams and one with  *)
(* a single upstream, which shares an address with the first.              *)
EXTENDS SpeedTest, TLC

CONSTANTS r1, r2, u1, u2, u3, x, y, fast

MCOwner == u1 :> r1 @@ u2 :> r1 @@ u3 :> r2
MCOffers == u1 :> {{x, y}} @@ u2 :> {{x}} @@ u3 :> {{x}}
MCRewrites == r1 :> {{y}} @@ r2 :> {}
=============================================================================
