-------------------------- MODULE SweepProperties --------------------------
(***************************************************************************)
(* What a sweep with an assembly pipeline promises.                        *)
(***************************************************************************)
EXTENDS SweepPipeline, FiniteSets

TaskStates == {"off", "check", "make", "made", "put", "ended", "failed"}

DriverStates == {"plan", "head", "take", "assemble", "decide", "solve",
                 "report", "shutdown", "drain", "release", "done"}

PipeTypes ==
    /\ task \in TaskStates
    /\ step \in Nat \ {0} /\ first \in 0 .. Frequencies /\ depth \in 0 .. Frequencies
    /\ channel \in Seq([step : Nat, built : 1 .. Frequencies])
    /\ stop \in BOOLEAN

DriverTypes ==
    /\ at \in DriverStates
    /\ freq \in 1 .. Frequencies + 1 /\ current \in 0 .. Frequencies
    /\ results \in Seq(1 .. Frequencies)
    /\ failed \in BOOLEAN
    /\ outcome \in {"none", "completed", "cancelled", "failed"}

SweepTypes ==
    /\ PipeTypes /\ DriverTypes
    /\ live \in SUBSET (1 .. Frequencies)
    /\ caches \in BOOLEAN /\ marker \in BOOLEAN

\* No step, system or frequency is ever outside the sweep.
TypeOK == coupled \in Drivers /\ SweepTypes

-----------------------------------------------------------------------------
(* Safety. *)

\* "a mismatched pairing would publish one frequency's field under another's
\* label": the driver solves for a frequency only the system assembled for it,
\* and what it prints is a prefix of the sweep.
PairedInOrder ==
    /\ at \in {"decide", "solve"} => current = freq
    /\ \A i \in 1 .. Len(results) : results[i] = i
    /\ Len(results) = freq - 1

\* take_sweep_assembly! never refuses a step, and never finds the channel
\* closed while the producer still had steps to make: only a failure of the
\* assembly reaches the driver as an exception of the take.
TakeSucceeds ==
    at = "take" =>
        /\ channel # << >> => channel[1].step = StepOf(freq) /\ channel[1].built = freq
        /\ channel = << >> => task # "ended"

\* Every system that was assembled is freed before the sweep returns, through
\* every order of a cancel, a failure and the end of the producer.
NoLeak == at = "done" => live = {}

\* "Before the cache: the producer assembles from the cache's device
\* buffers": the caches are freed only when no assembly can run any more.
CachesOutliveProducer ==
    ~caches => task \in {"off", "ended", "failed"}

\* A sweep that reports completion printed every frequency, and no assembly
\* failed behind its back.
CompletedIsComplete ==
    outcome = "completed" =>
        /\ Len(results) = Frequencies
        /\ task \in {"off", "ended"}

\* The systems alive at a time are those on the channel, one more in the hands
\* of the producer, and the one being solved; without a pipeline, that alone.
LookaheadBounded == Cardinality(live) <= IF Piped THEN depth + 2 ELSE 1

\* What the code breaks. "at most `depth` ahead of the consumer", "parks on a
\* full channel instead of allocating another operator": while a frequency is
\* solved, no more than depth systems of later ones hold memory. But put! is
\* what parks, and by then the next system has been assembled.
AtMostDepthAhead ==
    at = "solve" /\ Piped => Cardinality(live \ {current}) <= depth

-----------------------------------------------------------------------------
(* Liveness. *)

\* "setting the flag alone would hang": every sweep returns, cancelled, failed
\* or complete, with a producer parked on a full channel or not.
SweepReturns == <>(at = "done")
=============================================================================
