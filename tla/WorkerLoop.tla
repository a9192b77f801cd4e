----------------------------- MODULE WorkerLoop -----------------------------
(***************************************************************************)
(* The command loop of the Julia worker: run_worker of                     *)
(* BeatEngineCompiledDriver.jl, the policy of BeatEngineWorkerCleanup.jl,  *)
(* and the cache of field evaluations that outlives a command.             *)
(*                                                                         *)
(* The loop is sequential. What it meets is the order of the commands,     *)
(* cancellations, the free memory of the device, an exception at almost    *)
(* any call, the end of the process, and a client that already reads an    *)
(* answer while the loop is still cleaning up.                             *)
(***************************************************************************)
EXTENDS Integers, Sequences, WorkerAnswers

CONSTANTS
    Keys,           \* cache keys of field requests
    Limits,         \* the values of max_requests in use
    ReleaseThrows,  \* TRUE: freeing a field cache may throw
    MaxQueued,      \* bound on the commands written ahead of the loop
    MaxUnread       \* events the pipe holds: printing one more waits

ASSUME LoopAssumption ==
    /\ Limits \subseteq 1 .. 1024
    /\ ReleaseThrows \in BOOLEAN
    /\ MaxQueued \in Nat \ {0} /\ MaxUnread \in Nat \ {0}

\* MAX_BEM_FIELD_EVALUATION_CACHES, from worker-v1.json.
MaxEntries == 2

\* A command the loop can get. Only a solve has a policy and a limit, and only
\* a field request a key.
Solve(policy, limit) == [operation |-> "solve", policy |-> policy, limit |-> limit]
Field(key) == [operation |-> "bem_field", key |-> key]
ReclaimCommand == [operation |-> "reclaim"]

Commands ==
    {Solve("aggressive", 8), ReclaimCommand}
    \cup {Solve("cuda_reuse", n) : n \in Limits} \cup {Field(k) : k \in Keys}

VARIABLES
    pc,         \* where the loop stands
    input,      \* commands written and not yet read
    command,    \* the command read last
    output,     \* events printed and not yet read
    count,      \* requests_since_cleanup
    reason,     \* of the cleanup after a solve
    kept,       \* caches of a solve are in the process
    order,      \* BEM_FIELD_EVALUATION_CACHE_ORDER
    cached      \* the keys of BEM_FIELD_EVALUATION_CACHES

fieldVars == <<order, cached>>
vars == <<pc, input, command, output, count, reason, kept, fieldVars>>

Init ==
    /\ pc = "boot" /\ input = << >> /\ command = ReclaimCommand
    /\ output = << >> /\ count = 0 /\ reason = "none" /\ kept = FALSE
    /\ order = << >> /\ cached = {}

Emit(type, cleanup) ==
    /\ Len(output) < MaxUnread
    /\ output' = Append(output, [type |-> type, cleanup |-> cleanup])

\* An exception of a command ends in the catch of the loop.
Throw == pc' = "failing"

-----------------------------------------------------------------------------
(* Freeing memory. *)

\* filter!(!=(key), order), for a set of keys.
Without(s, keys) ==
    LET upTo[i \in 0 .. Len(s)] ==
            IF i = 0 THEN << >>
            ELSE IF s[i] \in keys THEN upTo[i - 1] ELSE Append(upTo[i - 1], s[i])
    IN  upTo[Len(s)]

\* release_bem_field_evaluation_cache! takes the entry out, frees its buffers,
\* and only then the key out of the order; freeing may throw. (Mutant: the
\* order is never looked after.)
LeavesOrder(key) == cached' = cached \ {key} /\ UNCHANGED order
Released(key) == cached' = cached \ {key} /\ order' = Without(order, {key})

ReleaseFails(key) ==
    /\ ReleaseThrows /\ key \in cached
    /\ cached' = cached \ {key} /\ UNCHANGED order

\* release_all_bem_field_evaluation_caches!, to its end or to the first key
\* whose release throws.
ReleasesAll == order' = << >> /\ cached' = cached \ {order[i] : i \in 1 .. Len(order)}

ReleaseAllFails ==
    /\ ReleaseThrows
    /\ \E i \in 1 .. Len(order) :
          LET before == {order[j] : j \in 1 .. i - 1}
          IN  /\ order[i] \in cached \ before
              /\ cached' = cached \ (before \cup {order[i]})
              /\ order' = Without(order, before)

\* reclaim_accelerator_memory!, which swallows what the release throws; that
\* the device libraries then give their memory back is theirs to keep.
\* (Mutant: it frees the field caches only.)
FieldsOnly == (ReleasesAll \/ ReleaseAllFails) /\ UNCHANGED kept
Reclaim == (ReleasesAll \/ ReleaseAllFails) /\ kept' = FALSE

-----------------------------------------------------------------------------
(* Reading commands. *)

Announce ==
    /\ pc = "boot" /\ pc' = "idle"
    /\ Emit("ready", "none")
    /\ UNCHANGED <<input, command, count, reason, kept, fieldVars>>

\* A line is read, and sorted by its operation or refused.
Fetch ==
    /\ pc = "idle" /\ input # << >>
    /\ command' = Head(input) /\ input' = Tail(input)
    /\ pc' \in {command'.operation, "failing"}
    /\ UNCHANGED <<output, count, reason, kept, fieldVars>>

ReclaimOnCommand ==
    /\ pc = "reclaim" /\ pc' = "idle"
    /\ Reclaim /\ count' = 0
    /\ Emit("completed", "full")
    /\ UNCHANGED <<input, command, reason>>

-----------------------------------------------------------------------------
(* A solve. *)

\* "cleared on solve": the field caches go before the solve starts.
StartSolve ==
    /\ pc = "solve"
    /\ \/ ReleasesAll /\ kept' = TRUE /\ pc' = "solving"
       \/ ReleaseAllFails /\ Throw /\ UNCHANGED kept
    /\ UNCHANGED <<input, command, output, count, reason>>

PrintResult ==
    /\ pc = "solving"
    /\ Emit("progress", "none")
    /\ UNCHANGED <<pc, input, command, count, reason, kept, fieldVars>>

\* cleanup_reason. The free fraction of the device memory is read for a
\* cuda_reuse solve that was not cancelled. (Mutant: off by one.)
Memory == {"plenty", "pressure", "unknown"}

OneTooMany(c, n, cancelled, memory) ==
    IF cancelled THEN "cancelled"
    ELSE IF c.policy = "aggressive" THEN "aggressive"
    ELSE IF n > c.limit THEN "interval"
    ELSE IF memory = "plenty" THEN "reuse" ELSE memory
CleanupReason(c, n, cancelled, memory) ==
    IF cancelled THEN "cancelled"
    ELSE IF c.policy = "aggressive" THEN "aggressive"
    ELSE IF n >= c.limit THEN "interval"
    ELSE IF memory = "plenty" THEN "reuse" ELSE memory

EndSolve ==
    /\ pc = "solving"
    /\ \/ /\ pc' = "clean"
          /\ count' = count + 1
          /\ \E cancelled \in BOOLEAN, memory \in Memory :
                reason' = CleanupReason(command, count + 1, cancelled, memory)
       \/ Throw /\ UNCHANGED <<count, reason>>
    /\ UNCHANGED <<input, command, output, kept, fieldVars>>

\* finish_aggressive_solve!: the answer first, then the reclamation.
AnswerFirst ==
    /\ pc = "clean" /\ reason = "aggressive"
    /\ Emit("completed", "none") /\ pc' = "reclaiming"
    /\ UNCHANGED <<input, command, count, reason, kept, fieldVars>>

FinishAggressive ==
    /\ pc = "reclaiming" /\ pc' = "idle"
    /\ Reclaim /\ count' = 0
    /\ UNCHANGED <<input, command, output, reason>>

\* Reuse: only the field caches of the request go.
KeepCaches ==
    /\ pc = "clean" /\ reason = "reuse"
    /\ \/ ReleasesAll /\ Emit("completed", "reuse") /\ pc' = "idle"
       \/ ReleaseAllFails /\ Throw /\ UNCHANGED output
    /\ UNCHANGED <<input, command, count, reason, kept>>

\* The other reasons: everything goes, and then the answer.
CleanFully ==
    /\ pc = "clean" /\ reason \in {"cancelled", "interval", "pressure", "unknown"}
    /\ Reclaim /\ count' = 0 /\ pc' = "idle"
    /\ Emit(IF reason = "cancelled" THEN "cancelled" ELSE "completed",
            IF command.policy = "cuda_reuse" THEN "full" ELSE "none")
    /\ UNCHANGED <<input, command, reason>>

-----------------------------------------------------------------------------
(* A field evaluation. *)

\* retained_bem_field_evaluation_cache: a hit becomes the last one used; a miss
\* is built, unless the geometry cannot be read, and enters the order.
LookUp ==
    /\ pc = "bem_field"
    /\ LET key == command.key IN
       \/ /\ key \in cached
          /\ order' = Append(Without(order, {key}), key)
          /\ pc' = "evaluate" /\ UNCHANGED cached
       \/ /\ key \notin cached
          /\ order' = Append(order, key) /\ cached' = cached \cup {key}
          /\ pc' = "evict"
       \/ key \notin cached /\ Throw /\ UNCHANGED fieldVars
    /\ UNCHANGED <<input, command, output, count, reason, kept>>

\* The while loop after it. (Mutants: one entry too many stays; the newest
\* goes.)
KeepsThree == Len(order) > MaxEntries + 1
Overfull == Len(order) > MaxEntries

Newest == order[Len(order)]
Oldest == order[1]

Evict ==
    /\ pc = "evict"
    /\ \/ ~Overfull /\ pc' = "evaluate" /\ UNCHANGED fieldVars
       \/ Overfull /\ Released(Oldest) /\ UNCHANGED pc
       \/ Overfull /\ ReleaseFails(Oldest) /\ Throw
    /\ UNCHANGED <<input, command, output, count, reason, kept>>

\* The arrays of the request are read and the field is computed and written.
Evaluate ==
    /\ pc = "evaluate"
    /\ \/ Emit("progress", "none") /\ pc' = "evaluated"
       \/ Throw /\ UNCHANGED output
    /\ UNCHANGED <<input, command, count, reason, kept, fieldVars>>

CompleteField ==
    /\ pc = "evaluated" /\ pc' = "idle"
    /\ Emit("completed", "none")
    /\ UNCHANGED <<input, command, count, reason, kept, fieldVars>>

-----------------------------------------------------------------------------
(* Failure and end. *)

\* The catch of the loop. (Mutant: it does not report the failure.)
Unreported ==
    /\ Reclaim /\ count' = 0
    /\ UNCHANGED output
Reported ==
    /\ Reclaim /\ count' = 0
    /\ Emit("failed", "none")

Fail ==
    /\ pc = "failing" /\ pc' = "idle"
    /\ Reported
    /\ UNCHANGED <<input, command, reason>>

\* The process is killed, or its input is closed.
Die ==
    /\ pc # "gone" /\ pc' = "gone"
    /\ input' = << >> /\ kept' = FALSE /\ order' = << >> /\ cached' = {}
    /\ UNCHANGED <<command, output, count, reason>>

\* The steps that bring a command nearer to its end.
Advance ==
    \/ Announce \/ Fetch \/ ReclaimOnCommand \/ StartSolve
    \/ EndSolve \/ AnswerFirst \/ FinishAggressive \/ KeepCaches \/ CleanFully
    \/ LookUp \/ Evict \/ Evaluate \/ CompleteField \/ Fail

-----------------------------------------------------------------------------
(* The client. *)

WriteCommand ==
    /\ pc # "gone" /\ Len(input) < MaxQueued
    /\ \E c \in Commands : input' = Append(input, c)
    /\ UNCHANGED <<pc, command, output, count, reason, kept, fieldVars>>

ReadEvent ==
    /\ output # << >> /\ output' = Tail(output)
    /\ UNCHANGED <<pc, input, command, count, reason, kept, fieldVars>>

Over == pc = "gone" /\ output = << >> /\ UNCHANGED vars

Next == Advance \/ PrintResult \/ Die \/ WriteCommand \/ ReadEvent \/ Over

Spec == Init /\ [][Next]_vars

\* Solves and evaluations come to an end, and the transport reads the answers
\* of a command that is not over.
LiveSpec == Spec /\ WF_vars(Advance) /\ WF_vars(ReadEvent)
=============================================================================
