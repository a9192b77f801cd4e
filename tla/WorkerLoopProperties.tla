------------------------ MODULE WorkerLoopProperties ------------------------
(***************************************************************************)
(* What the command loop of the worker promises.                           *)
(***************************************************************************)
EXTENDS WorkerLoop, FiniteSets

\* The loop is at work on a command it has not answered.
Working == pc \notin {"boot", "idle", "reclaiming", "gone"}

-----------------------------------------------------------------------------
(* Safety. *)

\* "Every max_requests successful solves since the previous full cleanup": a
\* solve that has been answered left a counter below its own limit, so that no
\* run of reuses is longer than the largest limit allows.
ReuseBounded ==
    pc \in {"idle", "reclaiming"} /\ reason = "reuse" /\ count # 0
        /\ command.operation = "solve" => count < command.limit

\* requests_since_cleanup is zero exactly when the loop rests without caches
\* of a solve: an answer that reports a full cleanup is true.
KeptIsCounted == pc = "idle" => (kept <=> count > 0)

\* The dictionary and its order do not part: every entry can be found by the
\* eviction and by the next release, also after a release that threw; there
\* are never more than two between commands, and none during a solve.
CachesAccounted ==
    /\ \A k \in cached : \E i \in 1 .. Len(order) : order[i] = k
    /\ pc # "evict" => Cardinality(cached) <= MaxEntries
    /\ pc \in {"solving", "clean"} => cached = {}

\* "It holds at most two entries with least-recently-used eviction": while
\* more entries are cached than may stay, an eviction frees another entry than
\* the one the evaluation is about to use, releases that threw before or not.
EvictsAnother ==
    [][pc = "evict" /\ pc' = "evict" /\ Cardinality(cached) > MaxEntries
         => command.key \in cached']_vars

\* The entry an evaluation works with has not been freed by the eviction that
\* made room for it. (Not an invariant of the code: a stale key is enough to
\* start an eviction.)
EvaluatesCached == pc = "evaluate" => command.key \in cached

-----------------------------------------------------------------------------
(* The promise to the transport. *)

OperationsOf(commands) == [i \in 1 .. Len(commands) |-> commands[i].operation]

Phase == CASE pc = "boot" -> "booting" [] pc = "gone" -> "gone" [] OTHER -> "up"

\* The command the loop has not answered, and those it has not read.
Pending == IF Working THEN << command.operation >> \o OperationsOf(input)
           ELSE OperationsOf(input)

\* What an answered solve is about to free is not retained.
Retained == kept /\ pc # "reclaiming"

\* The abstract worker: a command is pending until its terminal event is
\* printed.
Child == INSTANCE WorkerChild WITH
    Operations <- {"solve", "bem_field", "reclaim"},
    phase <- Phase, pending <- Pending, outbox <- output, retained <- Retained

\* The loop gives exactly one terminal event to every command, in order, also
\* when a cleanup or a release throws; and its answers tell the truth about
\* the caches it keeps.
KeepsPromise == Child!Spec

-----------------------------------------------------------------------------
(* Liveness. *)

\* Every command is answered, unless the process ends.
Answered == Working ~> ~Working

=============================================================================
