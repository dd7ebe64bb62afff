--------------------------- MODULE MCNestedResolve ---------------------------
(* TLC instance of NestedResolve: one name leads over two others, within   *)
(* the depth, to an answer of aliases; one of a pair leads to the other.   *)
EXTENDS NestedResolve, TLC

CONSTANTS c1, c2, long, mid, end, ping, pong

MCSigs == {long, mid, end, ping, pong}
MCAsks == c1 :> long @@ c2 :> ping
MCLeads == long :> mid @@ mid :> end @@ end :> "aliases" @@ ping :> pong @@ pong :> ping
=============================================================================
