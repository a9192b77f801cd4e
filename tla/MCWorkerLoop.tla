---------------------------- MODULE MCWorkerLoop ----------------------------
(* Model checking of WorkerLoop with three cache keys. *)
EXTENDS WorkerLoopProperties

CONSTANTS a, b, c
=============================================================================
