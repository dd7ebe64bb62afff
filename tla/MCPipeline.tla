------------------------------ MODULE MCPipeline ------------------------------
(* TLC instance of Pipeline: three queries for one key, which has a        *)
(* redirect, and one that is malformed or has a static answer.             *)
EXTENDS Pipeline, TLC

CONSTANTS q1, q2, q3, q4, k1, k2

MCQueries == {q1, q2, q3, q4}
MCKeyOf == q1 :> k1 @@ q2 :> k1 @@ q3 :> k1 @@ q4 :> k2
=============================================================================
