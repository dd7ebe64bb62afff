----------------------------- MODULE MCWorkerPool -----------------------------
(* TLC instance of WorkerPool: two workers, one query.                     *)
EXTENDS WorkerPool, TLC

CONSTANTS r1

MCRequests1 == {r1}
=============================================================================
