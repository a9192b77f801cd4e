---------------------------- MODULE MCWorkerPool ----------------------------
(* Model checking of WorkerPool on a few threads, settings and workers. *)
EXTENDS PoolProperties, TLC

Env1 == [julia |-> 0, rest |-> "sdk1"]
Env2 == [julia |-> 9, rest |-> "sdk2"]

MCEnvirons == {Env1, Env2}

\* One client wants "auto" in whatever environment there is, the others a text
\* that comes to the same number of threads in a given one.
MCAsks ==
    [c \in Clients |->
        IF c = CHOOSE d \in Clients : TRUE
        THEN [threads |-> [form |-> "auto", value |-> 0], env |-> None]
        ELSE [threads |-> [form |-> "digits", value |-> -3], env |-> Env2]]

Symmetry == Permutations(Reservers) \cup Permutations(Workers)
=============================================================================
