--------------------------- MODULE SweepPipeline ---------------------------
(***************************************************************************)
(* A frequency sweep of the Julia worker: the loop of solve_request_impl   *)
(* and of solve_exterior_request in BeatEngineCompiledDriver.jl, and the   *)
(* assembly pipeline of BeatEngineCore.jl that feeds it.                   *)
(*                                                                         *)
(* A producer task assembles one dense system per frequency and puts it on *)
(* a bounded channel; the driver takes, solves and reports it, in order.   *)
(* The exterior driver starts the pipeline before its first frequency, the *)
(* coupled driver in the middle of a sweep, once measured times say that   *)
(* it pays. The application cancels a sweep by creating a marker file.     *)
(***************************************************************************)
EXTENDS Integers, Sequences

CONSTANTS
    Frequencies,     \* length of the sweep
    Drivers,         \* of the sweeps: TRUE the coupled one, FALSE the exterior one
    SystemBytes,     \* of one dense system
    AvailableBytes,  \* what metal_sweep_memory_available() may answer
    Overrides        \* the numbers BLAB_METAL_PIPELINE_DEPTH may be set to

ASSUME SweepAssumption ==
    /\ Frequencies \in Nat \ {0}
    /\ Drivers \subseteq BOOLEAN
    /\ SystemBytes \in Nat /\ AvailableBytes \subseteq Nat
    /\ Overrides \subseteq Int

\* No frequency: every frequency is an index from 1 on.
NoSystem == 0

-----------------------------------------------------------------------------
(* How far the producer may run ahead: sweep_pipeline_depth, with its      *)
(* defaults max_depth=4, headroom=0.5 and reserved_systems=2, or what the  *)
(* environment asks for.                                                   *)

ReservedSystems == 2

Clamp(x, low, high) == IF x < low THEN low ELSE IF x > high THEN high ELSE x

Depth(bytes, available, remaining) ==
    LET ceiling == IF remaining < 4 THEN remaining ELSE 4
    IN  IF ceiling <= 1 THEN 1
        ELSE IF bytes = 0 THEN ceiling
        ELSE IF available = 0 THEN 1
        ELSE Clamp(((available \div 2) \div bytes) - ReservedSystems, 1, ceiling)

-----------------------------------------------------------------------------
VARIABLES
    coupled,    \* which driver runs the sweep
    \* the pipeline
    task,       \* where the producer task stands
    step,       \* the step it works on, from 1
    first,      \* the frequency of step 1, NoSystem without a pipeline
    depth,      \* its depth: the capacity of the channel, 0 without one
    channel,    \* the channel: the steps put and not yet taken
    stop,       \* the flag shutdown sets
    \* the driver
    at,         \* where the driver stands
    freq,       \* its frequency_index
    current,    \* the frequency its current system was assembled for
    results,    \* the results it printed
    failed,     \* an exception is on its way out
    outcome,    \* what the driver returned
    \* what both touch
    live,       \* the systems that hold memory, by frequency (the coupled
                \* driver's are host arrays: those that can be reached)
    caches,     \* the caches every assembly reads are alive
    marker      \* the cancel_path file exists

pipeVars   == <<task, step, first, depth, channel, stop>>
driverVars == <<at, freq, current, results, failed, outcome>>
vars == <<coupled, pipeVars, driverVars, live, caches, marker>>

\* The depths a pipeline may be started with. An override is kept within the
\* sweep, and knows nothing of memory; the coupled driver always asks for 1.
Lookaheads ==
    IF coupled THEN {1}
    ELSE {Depth(SystemBytes, bytes, Frequencies) : bytes \in AvailableBytes}
         \cup {Clamp(requested, 1, Frequencies) : requested \in Overrides}

\* The frequencies after whose assembly the driver may start a pipeline, 0
\* before the first. The coupled driver samples every frequency but the
\* first, decides on two samples at least, and wants two frequencies left.
StartPoints == IF coupled THEN {f \in 3 .. Frequencies : Frequencies - f >= 2}
               ELSE {f \in {0} : Frequencies > 1}

Piped == first # NoSystem

\* The frequency of a step of the pipeline, and the step of a frequency.
\* (Mutant: the first step is counted twice.)
FreqFromZero(s) == first + s
FreqOf(s) == first + s - 1
StepOf(f) == f - first + 1

\* The number of steps the producer is asked for.
StepCount == Frequencies - first + 1

Init ==
    /\ coupled \in Drivers
    /\ task = "off" /\ step = 1 /\ first = NoSystem /\ depth = 0
    /\ channel = << >> /\ stop = FALSE
    /\ at = IF coupled THEN "head" ELSE "plan"
    /\ freq = 1 /\ current = NoSystem /\ results = << >>
    /\ failed = FALSE /\ outcome = "none"
    /\ live = {} /\ caches = TRUE /\ marker \in BOOLEAN

-----------------------------------------------------------------------------
(* The producer task of start_sweep_assembly_pipeline. *)

\* The head of its loop.
Check ==
    /\ task = "check"
    /\ task' = IF step > StepCount \/ stop THEN "ended" ELSE "make"
    /\ UNCHANGED <<step, channel, live>>

\* produce(index): it assembles the system, or throws and keeps nothing.
Produce ==
    /\ task = "make"
    /\ \/ task' = "made" /\ live' = live \cup {FreqOf(step)}
       \/ task' = "failed" /\ UNCHANGED live
    /\ UNCHANGED <<step, channel>>

\* "A cancel that lands while this step was being assembled must not leak
\* it." (Mutant: the task ends without releasing it.)
LeaksLate ==
    /\ task = "made"
    /\ task' = IF stop THEN "ended" ELSE "put"
    /\ UNCHANGED live
TestLate ==
    /\ task = "made"
    /\ task' = IF stop THEN "ended" ELSE "put"
    /\ live' = IF stop THEN live \ {FreqOf(step)} ELSE live

Test == TestLate /\ UNCHANGED <<step, channel>>

\* put!, which parks on a full channel. (Mutant: a step is put
\* under the next one's number.)
PutEarly ==
    /\ task = "put" /\ Len(channel) < depth
    /\ channel' = Append(channel, [step |-> step, built |-> FreqOf(step) - 1])
PutStep ==
    /\ task = "put" /\ Len(channel) < depth
    /\ channel' = Append(channel, [step |-> step, built |-> FreqOf(step)])

Put ==
    /\ PutStep
    /\ task' = "check" /\ step' = step + 1
    /\ UNCHANGED live

ProducerRuns ==
    /\ UNCHANGED <<coupled, first, depth, stop, driverVars, caches, marker>>
    /\ Check \/ Produce \/ Test \/ Put

-----------------------------------------------------------------------------
(* The driver. *)

StartPipeline(f) ==
    /\ task' = "check" /\ first' = f
    /\ depth' \in Lookaheads

\* An exception leaves through the finally of the sweep.
Throw == at' = "shutdown" /\ failed' = TRUE

\* The exterior driver's choice before its first frequency. It throws when
\* the depth in the environment is no number.
PlanExterior ==
    /\ at = "plan"
    /\ \/ /\ at' = "head" /\ UNCHANGED failed
          /\ \/ 0 \in StartPoints /\ StartPipeline(1)
             \/ UNCHANGED <<task, first, depth>>
       \/ Throw /\ UNCHANGED <<task, first, depth>>
    /\ UNCHANGED <<step, channel, stop, freq, current, results, outcome, live,
                   caches, marker>>

\* The head of the loop: the sweep is over, it is cancelled, or goes on.
LoopHead ==
    /\ at = "head"
    /\ at' = IF freq > Frequencies \/ marker THEN "shutdown"
             ELSE IF Piped THEN "take" ELSE "assemble"
    /\ UNCHANGED <<pipeVars, freq, current, results, failed, outcome, live,
                   caches, marker>>

\* A frequency assembled by the driver itself.
Assemble ==
    /\ at = "assemble"
    /\ \/ /\ at' = "decide" /\ current' = freq /\ live' = live \cup {freq}
          /\ UNCHANGED failed
       \/ Throw /\ UNCHANGED <<current, live>>
    /\ UNCHANGED <<pipeVars, freq, results, outcome, caches, marker>>

\* take_sweep_assembly!, and the comparison of wave numbers after it: a step
\* that is not the one wanted is refused and dropped, a system of another
\* frequency is refused once it is the current one. (Mutant: the systems come
\* from the other end.)
TakeLast ==
    /\ at = "take" /\ channel # << >>
    /\ current' = channel[Len(channel)].built
    /\ channel' = SubSeq(channel, 1, Len(channel) - 1)
    /\ at' = "decide" /\ UNCHANGED failed
TakeStep ==
    /\ at = "take" /\ channel # << >>
    /\ channel' = Tail(channel)
    /\ IF channel[1].step # StepOf(freq) THEN Throw /\ UNCHANGED current
       ELSE /\ current' = channel[1].built
            /\ IF current' # freq THEN Throw ELSE at' = "decide" /\ UNCHANGED failed

Take ==
    /\ TakeStep
    /\ UNCHANGED <<task, step, first, depth, stop, freq, results, outcome, live,
                   caches, marker>>

\* The channel is bound to the producer: its end closes the channel, and its
\* failure is thrown here. (Mutant: a closed channel ends the sweep quietly.)
QuietEnd ==
    /\ at = "take" /\ channel = << >> /\ task \in {"ended", "failed"}
    /\ at' = "shutdown" /\ UNCHANGED failed
ChannelClosed ==
    /\ at = "take" /\ channel = << >> /\ task \in {"ended", "failed"}
    /\ Throw

TakeFails ==
    /\ ChannelClosed
    /\ UNCHANGED <<pipeVars, freq, current, results, outcome, live, caches, marker>>

\* The coupled driver's choice, once the system of a frequency is built. With
\* two samples it makes a plan, which throws on a setting it does not know.
Decide ==
    /\ at = "decide"
    /\ \/ /\ at' = "solve" /\ UNCHANGED failed
          /\ \/ ~Piped /\ coupled /\ freq \in StartPoints /\ StartPipeline(freq + 1)
             \/ UNCHANGED <<task, first, depth>>
       \/ ~Piped /\ coupled /\ freq > 2 /\ Throw /\ UNCHANGED <<task, first, depth>>
    /\ UNCHANGED <<step, channel, stop, freq, current, results, outcome, live,
                   caches, marker>>

\* The solve. The coupled driver keeps the system for the evaluation of the
\* outputs, and so does the exterior one on its generic path, which has no
\* pipeline; its direct paths free it here. Solve and evaluation may throw.
Solve ==
    /\ at = "solve"
    /\ \/ /\ at' = "report"
          /\ \/ (coupled \/ ~Piped) /\ UNCHANGED <<current, live>>
             \/ ~coupled /\ live' = live \ {current} /\ current' = NoSystem
          /\ UNCHANGED failed
       \/ Throw /\ UNCHANGED <<current, live>>
    /\ UNCHANGED <<pipeVars, freq, results, outcome, caches, marker>>

Report ==
    /\ at = "report"
    /\ \/ /\ at' = "head"
          /\ results' = Append(results, freq)
          /\ freq' = freq + 1
          /\ live' = live \ {current} /\ current' = NoSystem
          /\ UNCHANGED failed
       \/ Throw /\ UNCHANGED <<freq, current, results, live>>
    /\ UNCHANGED <<pipeVars, outcome, caches, marker>>

\* shutdown_sweep_assembly_pipeline!: set the flag, then take and release
\* until the channel is closed by the end of the producer. (Mutants: the
\* draining stops as soon as the channel is empty; it goes on although the
\* producer failed.)
Shutdown ==
    /\ at = "shutdown"
    /\ at' = "drain"
    /\ stop' = Piped
    /\ UNCHANGED <<task, step, first, depth, channel, freq, current, results, failed,
                   outcome, live, caches, marker>>

DrainOne ==
    /\ at = "drain" /\ channel # << >>
    /\ live' = live \ {channel[1].built}
    /\ channel' = Tail(channel)
    /\ UNCHANGED <<task, step, first, depth, stop, driverVars, caches, marker>>

DrainsTheRest == at = "drain" /\ channel = << >> /\ at' = "release"
WaitsForever ==
    /\ at = "drain" /\ channel = << >> /\ task \in {"off", "ended"}
    /\ at' = "release"
ChannelDrained ==
    /\ at = "drain" /\ channel = << >> /\ task \in {"off", "ended", "failed"}
    /\ at' = "release"

Drained ==
    /\ ChannelDrained
    /\ UNCHANGED <<pipeVars, freq, current, results, failed, outcome, live,
                   caches, marker>>

\* The rest of the finally: the system an exception left behind, then the
\* caches; and the value of the call, which looks at the marker once more.
Return ==
    /\ at = "release"
    /\ at' = "done"
    /\ current' = NoSystem /\ live' = live \ {current}
    /\ caches' = FALSE
    /\ outcome' = IF failed THEN "failed" ELSE IF marker THEN "cancelled"
                  ELSE "completed"
    /\ UNCHANGED <<pipeVars, freq, results, failed, marker>>

DriverRuns ==
    /\ UNCHANGED coupled
    /\ \/ PlanExterior \/ LoopHead \/ Assemble \/ Take \/ TakeFails \/ Decide
       \/ Solve \/ Report \/ Shutdown \/ DrainOne \/ Drained \/ Return

\* The application cancels. The marker is not taken back while the sweep runs.
Cancel ==
    /\ ~marker /\ at # "done"
    /\ marker' = TRUE
    /\ UNCHANGED <<coupled, pipeVars, driverVars, live, caches>>

\* The sweep is over, and so is its producer.
Over == at = "done" /\ UNCHANGED vars

Next == ProducerRuns \/ DriverRuns \/ Cancel \/ Over

Spec == Init /\ [][Next]_vars

\* Both tasks are scheduled, and an assembly or a solve comes to an end.
LiveSpec == Spec /\ WF_vars(ProducerRuns) /\ WF_vars(DriverRuns)
=============================================================================
