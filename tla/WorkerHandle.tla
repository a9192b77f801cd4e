---------------------------- MODULE WorkerHandle ----------------------------
(***************************************************************************)
(* One WorkerProcess of src/src/beat_engine/worker.py as those who share   *)
(* it see it: who owns it, which child is attached, whether that child     *)
(* keeps solver caches, and how many reservations keep idle cleanup away.  *)
(*                                                                         *)
(* WorkerPool runs several of these side by side; WorkerProcess shows how  *)
(* one of them comes about, and its steps are steps of Step.               *)
(***************************************************************************)
EXTENDS Integers

CONSTANTS
    Owners,     \* calls of submit() and ensure_started()
    Reclaims,   \* idle reclamations
    Children,   \* the processes a worker may spawn
    None

\* The owner while _terminating is set.
Terminating == "terminating"

Of(owner, child, dirty, holds) ==
    [owner |-> owner, child |-> child, dirty |-> dirty, holds |-> holds]

Fresh == Of(None, None, FALSE, 0)

Reserve(h)    == Of(h.owner, h.child, h.dirty, h.holds + 1)
Unreserve(h)  == Of(h.owner, h.child, h.dirty, h.holds - 1)
Take(h, k)    == Of(k, h.child, h.dirty, h.holds)
Free(h)       == Take(h, None)
Attach(h, p)  == Of(h.owner, p, FALSE, h.holds)
Detach(h)     == Attach(h, None)
Observe(h, d) == Of(h.owner, h.child, d, h.holds)

\* What _run_idle_cleanup asks of the worker in the section that claims it.
Reclaimable(h) == h.owner = None /\ h.child # None /\ h.dirty /\ h.holds = 0

\* The critical sections of WorkerProcess, from h to g.
Step(h, g) ==
    \/ g \in {Reserve(h), Unreserve(h)}
    \/ h.owner = None /\ \E k \in Owners : g = Take(h, k)
    \/ Reclaimable(h) /\ \E t \in Reclaims : g = Take(h, t)
    \/ h.owner \in Owners /\ \E p \in Children : g = Attach(h, p)
    \/ \E d \in BOOLEAN : g = Observe(h, d)
    \/ h.owner \in Owners \cup Reclaims /\ g \in {Free(h), Free(Detach(h))}
    \/ /\ h.owner \in Owners \cup Reclaims \cup {None}
       /\ g = Take(Detach(h), Terminating)
    \/ h.owner = Terminating /\ g = Free(h)
    \/ g = Detach(h)
=============================================================================
