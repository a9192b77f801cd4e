---------------------------- MODULE WorkerChild ----------------------------
(***************************************************************************)
(* What the transport and its clients rely on from the Julia worker, as    *)
(* docs/BEAT Worker Protocol.md and docs/WorkerCleanup.md promise it: it   *)
(* announces itself, answers every command with exactly one terminal event *)
(* in the order the commands were written, and reports in that event when  *)
(* it keeps solver caches. WorkerLoop implements it.                       *)
(***************************************************************************)
EXTENDS Sequences, WorkerAnswers

CONSTANT Operations    \* of the commands that may be written

VARIABLES
    phase,      \* "booting", "up" or "gone"
    pending,    \* operations of the commands written and not yet answered
    outbox,     \* the events printed and not yet read
    retained    \* solver caches are in the process

childVars == <<phase, pending, outbox, retained>>

Event == [type : {"ready", "progress", "completed", "cancelled", "failed"},
          cleanup : {"none", "reuse", "full"}]

Emit(type, cleanup) == outbox' = Append(outbox, [type |-> type, cleanup |-> cleanup])

Init ==
    /\ phase = "booting" /\ pending = << >> /\ outbox = << >>
    /\ retained = FALSE

\* The ready event.
Announce ==
    /\ phase = "booting" /\ phase' = "up"
    /\ Emit("ready", "none")
    /\ UNCHANGED <<pending, retained>>

\* A result or a status of the command it works on.
Report ==
    /\ phase = "up" /\ pending # << >>
    /\ Emit("progress", "none")
    /\ UNCHANGED <<phase, pending, retained>>

\* A solve at work fills the caches.
Fill ==
    /\ phase = "up" /\ pending # << >> /\ Head(pending) = "solve"
    /\ retained' = TRUE
    /\ UNCHANGED <<phase, pending, outbox>>

\* The end of a command.
Finish ==
    /\ phase = "up" /\ pending # << >>
    /\ pending' = Tail(pending)
    /\ \E o \in Outcomes(Head(pending), retained) :
          Emit(o.type, o.cleanup) /\ retained' = o.keeps
    /\ UNCHANGED phase

\* The end of the process, whatever it was at; what it printed can be read.
Die ==
    /\ phase # "gone" /\ phase' = "gone"
    /\ pending' = << >> /\ retained' = FALSE
    /\ UNCHANGED outbox

\* The other end of the two pipes.
Write ==
    /\ phase # "gone"
    /\ \E operation \in Operations : pending' = Append(pending, operation)
    /\ UNCHANGED <<phase, outbox, retained>>

Read ==
    /\ outbox # << >> /\ outbox' = Tail(outbox)
    /\ UNCHANGED <<phase, pending, retained>>

Next == Announce \/ Report \/ Fill \/ Finish \/ Die \/ Write \/ Read

Spec == Init /\ [][Next]_childVars
=============================================================================
