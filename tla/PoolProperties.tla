--------------------------- MODULE PoolProperties ---------------------------
(***************************************************************************)
(* What a WorkerPool promises to those who share it.                       *)
(***************************************************************************)
EXTENDS WorkerPool

-----------------------------------------------------------------------------
(* Types. *)

HandleTypes ==
    worker \in [Workers -> [owner : Clients \cup {Reclaim, Handle!Terminating, None},
                            child : Clients \cup {None},
                            dirty : BOOLEAN, holds : Int]]

PoolTypes ==
    /\ poolLock \in Reservers \cup {None}
    /\ pool \in SUBSET Workers /\ reservations \in SUBSET Reservers
    /\ callbacks \in [Reservers -> SUBSET Workers]
    /\ DOMAIN made = Workers /\ \A w \in pool : made[w] # None

ThreadTypes ==
    /\ todo \in [Threads -> SUBSET Workers]
    /\ got \in [Threads -> Workers \cup {None}]
    /\ victim \in [Threads -> Clients \cup {None}]
    /\ condemned \in [Stoppers -> SUBSET Clients]
    /\ DOMAIN pc = Threads
    /\ \A c \in Clients : pc[c] \in
         {"new", "got", "waiting", "starting", "stopping", "leaving",
          "submitted", "streaming", "done"}
    /\ \A r \in Reservers : pc[r] \in {"new", "holding", "held", "releasing", "done"}
    /\ \A s \in Stoppers : pc[s] \in {"new", "terminating", "killing", "raised", "done"}

\* Every variable has its type through every exit of the sections, and a
\* worker has settings from the moment the pool has it.
TypeOK ==
    /\ PoolTypes /\ HandleTypes /\ ThreadTypes
    /\ running \in SUBSET Clients /\ stuck \in SUBSET Clients

-----------------------------------------------------------------------------
(* Safety. *)

InCall(c, w) ==
    /\ got[c] = w
    /\ pc[c] \in {"waiting", "starting", "stopping", "leaving",
                  "submitted"}

\* A worker's _idle_holds is the number of reservations that have a callback
\* of it left plus that of the calls inside submit(): no reservation is lost
\* or counted twice by a worker created while one is under way, a shutdown
\* between the two halves of one, or a call that raises.
HoldsBalanced ==
    \A w \in Workers :
        worker[w].holds = Cardinality({r \in Reservers : w \in callbacks[r]})
                        + Cardinality({c \in Clients : InCall(c, w)})

\* "Pool holds also cover workers created during preparation": from the return
\* of hold_idle_cleanup() to the call of its release callback, no idle
\* reclamation starts on a worker of the pool, old or new.
NoReclaimReserved ==
    [][\A w \in pool : worker[w].owner # Reclaim /\ worker'[w].owner = Reclaim
            => \A r \in Reservers : pc[r] # "held"]_vars

\* "Reuse workers only when their execution settings and environments match":
\* a client is given a worker that was constructed with what this client
\* asked for, in the environment of its call; and the pool never has two
\* workers of the same settings.
SettingsMatch ==
    /\ \A c \in Clients : got[c] # None =>
          made[got[c]] =
              LET env == IF Asks[c].env = None THEN seen[c] ELSE Asks[c].env
                  threads == ResolveThreads(Asks[c].threads)
              IN  [threads |-> threads, env |-> [julia |-> threads, rest |-> env.rest]]
    /\ \A v, w \in pool : made[v] = made[w] => v = w

\* The children that ran on the workers of the pool when shutdown() was
\* called have stopped when it returns, but for one that its own failed
\* startup has detached and is about to stop, or one whose own stop timed out.
ShutdownStops ==
    \A s \in Stoppers : pc[s] = "done" =>
        \A p \in condemned[s] \cap running : pc[p] = "stopping" \/ p \in stuck
=============================================================================
