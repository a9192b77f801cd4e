--------------------------- MODULE WorkerAnswers ---------------------------
(***************************************************************************)
(* How a command of the Julia worker may end: run_worker in                *)
(* BeatEngineCompiledDriver.jl, as far as the Python transport can tell.   *)
(***************************************************************************)

Answer == [type : {"completed", "cancelled", "failed"},
           cleanup : {"none", "reuse", "full"},
           keeps : BOOLEAN]

\* The terminal event, whether its worker_cleanup reports a reuse or a full
\* cleanup, and whether solver caches stay in the process. A failure of any
\* command frees them. A field evaluation reports no cleanup and keeps what a
\* solve has left. A solve reports its cleanup when it asked for cuda_reuse,
\* and only a completed one may have kept its caches.
Outcomes(operation, kept) == {o \in Answer :
    \/ o.type = "failed" /\ o.cleanup = "none" /\ ~o.keeps
    \/ /\ operation = "reclaim"
       /\ o.type = "completed" /\ o.cleanup = "full" /\ ~o.keeps
    \/ /\ operation = "bem_field"
       /\ o.type = "completed" /\ o.cleanup = "none" /\ o.keeps = kept
    \/ /\ operation = "solve" /\ o.type # "failed"
       /\ o.keeps <=> o.cleanup = "reuse"
       /\ o.keeps => o.type = "completed"}
=============================================================================
