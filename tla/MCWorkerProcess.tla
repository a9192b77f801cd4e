-------------------------- MODULE MCWorkerProcess --------------------------
(* Model checking of WorkerProcess on small sets of calls and threads. *)
EXTENDS WorkerProperties, TLC

Symmetry ==
    Permutations(Submits \ Fields) \cup Permutations(Ensures)
    \cup Permutations(Terminations) \cup Permutations(Timers)
=============================================================================
