----------------------------- MODULE MCWorkerPool -----------------------------
(* A small instance of WorkerPool for TLC. *)
EXTENDS WorkerPool

CONSTANTS m1, m2

BothListed == <<m1, m2>>
=============================================================================
