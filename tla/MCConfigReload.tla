---------------------------- MODULE MCConfigReload ----------------------------
(* TLC instance of ConfigReload: b differs from a in resolution only, its  *)
(* bootstrap resolvers included, c in its addresses too, d cannot be       *)
(* built, and e has no query log.                                          *)
EXTENDS ConfigReload, TLC

CONSTANTS a, b, c, d, e, w1, q1, q2

MCConfigs == {a, b, c, d, e}
MCBuildable == {a, b, c, e}
MCSignature == a :> 1 @@ b :> 1 @@ c :> 2 @@ d :> 1 @@ e :> 1
MCBootstrap == a :> "x" @@ b :> "y" @@ c :> "x" @@ d :> "y" @@ e :> "x"
MCCapacity == a :> 10 @@ b :> 20 @@ c :> 5 @@ d :> 30 @@ e :> 0
MCResolves == {q1, q2}
Symmetry == Permutations(MCResolves)
=============================================================================
