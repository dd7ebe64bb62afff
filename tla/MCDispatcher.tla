----------------------------- MODULE MCDispatcher -----------------------------
(* TLC instance of Dispatcher: a group of one upstream and one inner group *)
(* of two.                                                                 *)
EXTENDS Dispatcher, TLC

CONSTANTS u1, u2, u3, outer, inner

MCParent == u1 :> outer @@ inner :> outer @@ u2 :> inner @@ u3 :> inner
=============================================================================
