---------------------------- MODULE SweepProofs ----------------------------
(***************************************************************************)
(* Proofs about SweepPipeline, for every length of the sweep, every        *)
(* lookahead and both drivers.                                             *)
(***************************************************************************)
EXTENDS SweepProperties, FiniteSetTheorems, SequenceTheorems, TLAPS

\* The frequency of the next system the driver may take, and that of the last
\* one the producer has finished.
NextTaken == first + step - Len(channel) - 1
LastMade  == IF task \in {"made", "put"} THEN FreqOf(step) ELSE FreqOf(step) - 1

-----------------------------------------------------------------------------
(* The inductive invariant. *)

\* Without a pipeline nothing of it moves; with one, the producer is between
\* the steps it was asked for.
PipeInv ==
    /\ ~Piped => task = "off" /\ step = 1 /\ channel = << >> /\ ~stop
    /\ Piped =>
        /\ task # "off"
        /\ step <= StepCount + 1
        /\ task \in {"make", "made", "put", "failed"} => step <= StepCount
        /\ task = "ended" /\ ~stop => step = StepCount + 1
    /\ stop => at \in {"drain", "release", "done"}

\* The channel holds consecutive steps, the last one just before the step the
\* producer works on, each with the system of its frequency.
ChannelInv ==
    /\ Len(channel) <= step - 1 /\ Len(channel) <= depth
    /\ \A i \in 1 .. Len(channel) :
          /\ channel[i].step = step - Len(channel) + i - 1
          /\ channel[i].built = FreqOf(channel[i].step)

\* The driver and the channel agree on the frequency that comes next.
DriverInv ==
    /\ at = "plan" => ~Piped /\ freq = 1
    /\ at = "assemble" => ~Piped
    /\ at = "take" => Piped
    /\ at \in {"take", "assemble", "decide", "solve", "report"} => freq <= Frequencies
    /\ Piped /\ at \in {"head", "take"} => NextTaken = freq
    /\ Piped /\ at \in {"decide", "solve", "report"} => NextTaken = freq + 1
    /\ at \in {"decide", "solve"} => current = freq
    /\ at = "report" => current \in {freq, NoSystem}
    /\ at \in {"plan", "head", "take", "assemble", "done"} => current = NoSystem
    /\ Piped /\ current # NoSystem => current < NextTaken
    /\ Len(results) = freq - 1
    /\ \A i \in 1 .. Len(results) : results[i] = i

\* Exactly the systems made and not taken, and the current one, hold memory.
LiveInv == \A f \in 1 .. Frequencies :
    f \in live <=> \/ Piped /\ NextTaken <= f /\ f <= LastMade
                   \/ f = current

\* How a sweep ends.
EndInv ==
    /\ at \in {"release", "done"} =>
          channel = << >> /\ task \in {"off", "ended", "failed"}
    /\ ~caches => at = "done"
    /\ outcome # "none" => at = "done"
    /\ outcome = "completed" => ~failed /\ freq = Frequencies + 1
    /\ outcome = "completed" => task \in {"off", "ended"}
    /\ freq = Frequencies + 1 /\ Piped => step = StepCount + 1 /\ channel = << >>
    /\ at \in {"shutdown", "drain", "release"} /\ ~failed /\ ~marker =>
          freq = Frequencies + 1

SweepInv == SweepTypes /\ PipeInv /\ ChannelInv /\ DriverInv /\ LiveInv /\ EndInv

-----------------------------------------------------------------------------
(* Lemmas. *)

\* Every lookahead is one step at least and the sweep at most, by memory or by
\* the environment.
LEMMA LookaheadType == \A d \in Lookaheads : d \in 1 .. Frequencies
<1>1. ASSUME NEW bytes \in AvailableBytes
      PROVE  Depth(SystemBytes, bytes, Frequencies) \in 1 .. Frequencies
    <2>1. bytes \in Nat
        BY SweepAssumption
    <2>2. CASE Frequencies <= 1
        BY <2>1, <2>2, SweepAssumption DEF Depth
    <2>3. CASE Frequencies > 1 /\ SystemBytes # 0 /\ bytes # 0
        <3> DEFINE affordable == ((bytes \div 2) \div SystemBytes) - ReservedSystems
        <3>1. affordable \in Int
            BY <2>1, <2>3, SweepAssumption DEF ReservedSystems
        <3>2. Depth(SystemBytes, bytes, Frequencies)
              = Clamp(affordable, 1, IF Frequencies < 4 THEN Frequencies ELSE 4)
            BY <2>3, SweepAssumption DEF Depth
        <3> HIDE DEF affordable
        <3>3. QED
            BY <2>3, <3>1, <3>2, SweepAssumption DEF Clamp
    <2>4. CASE Frequencies > 1 /\ (SystemBytes = 0 \/ bytes = 0)
        BY <2>1, <2>4, SweepAssumption DEF Depth
    <2>5. QED
        BY <2>2, <2>3, <2>4, SweepAssumption
<1>2. ASSUME NEW requested \in Overrides
      PROVE  Clamp(requested, 1, Frequencies) \in 1 .. Frequencies
    BY SweepAssumption DEF Clamp
<1>3. QED
    BY <1>1, <1>2, SweepAssumption DEF Lookaheads

\* The producer never works on a frequency outside the sweep.
LEMMA MakesInSweep ==
    ASSUME SweepInv, task \in {"make", "made", "put"}
    PROVE  Piped /\ FreqOf(step) \in 1 .. Frequencies
    BY SweepAssumption
    DEF SweepInv, SweepTypes, PipeTypes, PipeInv, Piped, FreqOf, StepCount, NoSystem

\* What the driver finds at the head of the channel, and what stays behind.
LEMMA HeadOfChannel ==
    ASSUME SweepInv, channel # << >>
    PROVE  /\ Piped
           /\ channel[1].step = step - Len(channel)
           /\ channel[1].built = NextTaken
           /\ NextTaken \in 1 .. Frequencies
           /\ Tail(channel) \in Seq([step : Nat, built : 1 .. Frequencies])
           /\ Len(Tail(channel)) = Len(channel) - 1
           /\ \A i \in 1 .. Len(channel) - 1 : Tail(channel)[i] = channel[i + 1]
<1>1. channel \in Seq([step : Nat, built : 1 .. Frequencies])
    BY DEF SweepInv, SweepTypes, PipeTypes
<1>2. Len(channel) \in Nat \ {0}
    BY <1>1, EmptySeq
<1>3. channel[1] \in [step : Nat, built : 1 .. Frequencies]
    <2>1. 1 \in 1 .. Len(channel)
        BY <1>2
    <2>2. QED
        BY <1>1, <2>1, ElementOfSeq
<1>4. /\ Tail(channel) \in Seq([step : Nat, built : 1 .. Frequencies])
      /\ Len(Tail(channel)) = Len(channel) - 1
      /\ \A i \in 1 .. Len(Tail(channel)) : Tail(channel)[i] = channel[i + 1]
    BY <1>1, HeadTailProperties
<1>5. Piped
    BY DEF SweepInv, PipeInv
<1>6. channel[1].step = step - Len(channel) /\ channel[1].built = FreqOf(channel[1].step)
    BY <1>2 DEF SweepInv, ChannelInv, SweepTypes, PipeTypes
<1>7. channel[1].built = NextTaken
    BY <1>2, <1>6 DEF FreqOf, NextTaken, SweepInv, SweepTypes, PipeTypes
<1>8. QED
    BY <1>3, <1>4, <1>5, <1>6, <1>7

\* What put! makes of the channel.
LEMMA PutOnChannel ==
    ASSUME SweepInv, PutStep
    PROVE  /\ channel' \in Seq([step : Nat, built : 1 .. Frequencies])
           /\ Len(channel') = Len(channel) + 1
           /\ \A i \in 1 .. Len(channel) : channel'[i] = channel[i]
           /\ channel'[Len(channel) + 1] = [step |-> step, built |-> FreqOf(step)]
           /\ Len(channel) \in Nat
<1>1. channel \in Seq([step : Nat, built : 1 .. Frequencies])
    BY DEF SweepInv, SweepTypes, PipeTypes
<1>2. [step |-> step, built |-> FreqOf(step)] \in [step : Nat, built : 1 .. Frequencies]
    BY MakesInSweep DEF PutStep, SweepInv, SweepTypes, PipeTypes
<1>3. Len(channel) \in Nat
    BY <1>1, LenProperties
<1>4. QED
    BY <1>1, <1>2, <1>3, AppendProperties DEF PutStep

-----------------------------------------------------------------------------
(* Every action preserves the invariant. *)

\* A channel that lost its head keeps its invariant.
LEMMA ShiftChannel ==
    ASSUME SweepInv, channel # << >>, channel' = Tail(channel),
           UNCHANGED <<first, depth, step>>
    PROVE  ChannelInv' /\ NextTaken' = NextTaken + 1
<1>1. /\ Len(channel') = Len(channel) - 1 /\ Len(channel) \in Nat
      /\ \A i \in 1 .. Len(channel) - 1 : channel'[i] = channel[i + 1]
      /\ step \in Nat /\ first \in Nat
    BY HeadOfChannel, LenProperties DEF SweepInv, SweepTypes, PipeTypes
<1>2. Len(channel') <= step' - 1 /\ Len(channel') <= depth'
    BY <1>1 DEF SweepInv, ChannelInv, SweepTypes, PipeTypes
<1>3. ASSUME NEW i \in 1 .. Len(channel')
      PROVE  /\ channel'[i].step = step' - Len(channel') + i - 1
             /\ channel'[i].built = first' + channel'[i].step - 1
    <2>1. i \in 1 .. Len(channel) - 1 /\ i + 1 \in 1 .. Len(channel)
        BY <1>1
    <2>2. /\ channel[i + 1].step = step - Len(channel) + (i + 1) - 1
          /\ channel[i + 1].built = FreqOf(channel[i + 1].step)
        BY <2>1 DEF SweepInv, ChannelInv
    <2>3. channel'[i] = channel[i + 1]
        BY <1>1, <2>1
    <2>4. step' - Len(channel') + i - 1 = step - Len(channel) + (i + 1) - 1
        BY <1>1, <2>1
    <2>5. QED
        BY <2>2, <2>3, <2>4 DEF FreqOf
<1>4. ChannelInv'
    BY <1>2, <1>3 DEF ChannelInv, FreqOf
<1>5. NextTaken' = NextTaken + 1
    BY <1>1 DEF NextTaken
<1>6. QED
    BY <1>4, <1>5

\* A step that leaves the pipeline alone keeps what is said of it alone.
LEMMA PipeUnchanged ==
    ASSUME SweepInv, UNCHANGED pipeVars
    PROVE  /\ UNCHANGED <<task, step, first, depth, channel, stop>>
           /\ Piped' = Piped /\ StepCount' = StepCount
           /\ NextTaken' = NextTaken /\ LastMade' = LastMade
           /\ PipeTypes' /\ ChannelInv'
<1>1. UNCHANGED <<task, step, first, depth, channel, stop>>
    BY DEF pipeVars
<1>2. /\ Piped' = Piped /\ StepCount' = StepCount
      /\ NextTaken' = NextTaken /\ LastMade' = LastMade
    BY <1>1 DEF Piped, StepCount, NextTaken, LastMade, FreqOf
<1>3. PipeTypes'
    BY <1>1 DEF SweepInv, SweepTypes, PipeTypes
<1>4. ChannelInv'
    BY <1>1 DEF SweepInv, ChannelInv, FreqOf
<1>5. QED
    BY <1>1, <1>2, <1>3, <1>4

LEMMA CheckInv ==
    ASSUME SweepInv, Check, UNCHANGED <<first, depth, stop, driverVars, caches, marker>>
    PROVE  SweepInv'
<1>1. /\ task = "check"
      /\ task' = IF step > StepCount \/ stop THEN "ended" ELSE "make"
      /\ UNCHANGED <<step, channel, first, depth, stop, at, freq, current, results,
                     failed, outcome, live, caches, marker>>
    BY DEF Check, driverVars
<1>2. /\ Piped' = Piped /\ StepCount' = StepCount
      /\ NextTaken' = NextTaken /\ LastMade' = LastMade
    BY <1>1 DEF Piped, StepCount, NextTaken, LastMade, FreqOf
<1>3. SweepTypes'
    BY <1>1 DEF SweepInv, SweepTypes, PipeTypes, DriverTypes, TaskStates
<1>4. PipeInv'
    <2>1. step \in Int /\ StepCount \in Int
        BY SweepAssumption DEF SweepInv, SweepTypes, PipeTypes, StepCount
    <2>2. QED
        BY <1>1, <1>2, <2>1 DEF SweepInv, PipeInv
<1>5. ChannelInv'
    BY <1>1 DEF SweepInv, ChannelInv, FreqOf
<1>6. DriverInv'
    BY <1>1, <1>2 DEF SweepInv, DriverInv
<1>7. LiveInv'
    BY <1>1, <1>2 DEF SweepInv, LiveInv
<1>8. EndInv'
    <2>1. outcome = "none" \/ task \in {"off", "ended", "failed"}
        BY DEF SweepInv, EndInv
    <2>2. QED
        BY <1>1, <1>2, <2>1 DEF SweepInv, EndInv
<1>9. QED
    BY <1>3, <1>4, <1>5, <1>6, <1>7, <1>8 DEF SweepInv

LEMMA ProduceInv ==
    ASSUME SweepInv, Produce, UNCHANGED <<first, depth, stop, driverVars, caches, marker>>
    PROVE  SweepInv'
<1>1. /\ task = "make"
      /\ UNCHANGED <<step, channel, first, depth, stop, at, freq, current, results,
                     failed, outcome, caches, marker>>
    BY DEF Produce, driverVars
<1>2. \/ task' = "made" /\ live' = live \cup {FreqOf(step)}
      \/ task' = "failed" /\ live' = live
    BY DEF Produce
<1>3. Piped /\ Piped' /\ FreqOf(step) \in 1 .. Frequencies
    BY <1>1, MakesInSweep DEF Piped
<1>4. NextTaken' = NextTaken /\ StepCount' = StepCount
    BY <1>1 DEF NextTaken, StepCount
<1>5. SweepTypes'
    BY <1>1, <1>2, <1>3 DEF SweepInv, SweepTypes, PipeTypes, DriverTypes, TaskStates
<1>6. PipeInv'
    BY <1>1, <1>2, <1>3, <1>4 DEF SweepInv, PipeInv
<1>7. ChannelInv'
    BY <1>1 DEF SweepInv, ChannelInv, FreqOf
<1>8. DriverInv'
    BY <1>1, <1>3, <1>4 DEF SweepInv, DriverInv
<1>9. LiveInv'
    <2> SUFFICES ASSUME NEW f \in 1 .. Frequencies
                 PROVE  (f \in live <=> \/ Piped /\ NextTaken <= f /\ f <= LastMade
                                        \/ f = current)'
        BY DEF LiveInv
    <2>1. f \in live <=> \/ Piped /\ NextTaken <= f /\ f <= LastMade
                         \/ f = current
        BY DEF SweepInv, LiveInv
    <2>2. LastMade = FreqOf(step) - 1 /\ NextTaken <= FreqOf(step) /\ NextTaken \in Int
        <3>1. /\ Len(channel) \in Nat /\ Len(channel) <= step - 1
              /\ first \in Nat /\ step \in Nat
            BY LenProperties DEF SweepInv, SweepTypes, PipeTypes, ChannelInv
        <3>2. QED
            BY <1>1, <3>1 DEF LastMade, NextTaken, FreqOf
    <2>3. CASE task' = "made" /\ live' = live \cup {FreqOf(step)}
        <3>1. LastMade' = FreqOf(step)
            BY <1>1, <2>3 DEF LastMade, FreqOf
        <3>2. QED
            BY <1>1, <1>3, <1>4, <2>1, <2>2, <2>3, <3>1
    <2>4. CASE task' = "failed" /\ live' = live
        <3>1. LastMade' = LastMade
            BY <1>1, <2>4 DEF LastMade, FreqOf
        <3>2. QED
            BY <1>1, <1>3, <1>4, <2>1, <2>4, <3>1
    <2>5. QED
        BY <1>2, <2>3, <2>4
<1>10. EndInv'
    BY <1>1, <1>2, <1>3, <1>4, SweepAssumption
    DEF SweepInv, EndInv, PipeInv, StepCount, SweepTypes, PipeTypes
<1>11. QED
    BY <1>5, <1>6, <1>7, <1>8, <1>9, <1>10 DEF SweepInv

LEMMA TestInv ==
    ASSUME SweepInv, Test, UNCHANGED <<first, depth, stop, driverVars, caches, marker>>
    PROVE  SweepInv'
<1>1. /\ task = "made"
      /\ UNCHANGED <<step, channel, first, depth, stop, at, freq, current, results,
                     failed, outcome, caches, marker>>
    BY DEF Test, TestLate, driverVars
<1>2. \/ stop /\ task' = "ended" /\ live' = live \ {FreqOf(step)}
      \/ ~stop /\ task' = "put" /\ live' = live
    BY DEF Test, TestLate
<1>3. Piped /\ FreqOf(step) \in 1 .. Frequencies
    BY <1>1, MakesInSweep
<1>4. Piped' /\ StepCount' = StepCount /\ NextTaken' = NextTaken
    BY <1>1, <1>3 DEF Piped, StepCount, NextTaken
<1>5. SweepTypes'
    BY <1>1, <1>2 DEF SweepInv, SweepTypes, PipeTypes, DriverTypes, TaskStates
<1>6. PipeInv'
    BY <1>1, <1>2, <1>4 DEF SweepInv, PipeInv
<1>7. ChannelInv'
    BY <1>1 DEF SweepInv, ChannelInv, FreqOf
<1>8. DriverInv'
    BY <1>1, <1>3, <1>4 DEF SweepInv, DriverInv
<1>9. LiveInv'
    <2>1. /\ first \in Nat /\ step \in Nat /\ Len(channel) \in Nat
          /\ Len(channel) <= step - 1
        BY LenProperties DEF SweepInv, SweepTypes, PipeTypes, ChannelInv
    <2>2. NextTaken <= FreqOf(step) /\ LastMade = FreqOf(step) /\ NextTaken \in Int
        BY <1>1, <2>1 DEF NextTaken, LastMade, FreqOf
    <2>3. CASE stop /\ task' = "ended" /\ live' = live \ {FreqOf(step)}
        <3>1. LastMade' = FreqOf(step) - 1
            BY <1>1, <2>3 DEF LastMade, FreqOf
        <3>2. current # FreqOf(step)
            BY <1>3, <2>2 DEF SweepInv, DriverInv, NoSystem
        <3>3. QED
            BY <1>1, <1>3, <1>4, <2>2, <2>3, <3>1, <3>2 DEF SweepInv, LiveInv
    <2>4. CASE ~stop /\ task' = "put" /\ live' = live
        <3>1. LastMade' = LastMade
            BY <1>1, <2>4 DEF LastMade, FreqOf
        <3>2. QED
            BY <1>1, <1>3, <1>4, <2>4, <3>1 DEF SweepInv, LiveInv
    <2>5. QED
        BY <1>2, <2>3, <2>4
<1>10. EndInv'
    BY <1>1, <1>2, <1>3, <1>4 DEF SweepInv, EndInv
<1>11. QED
    BY <1>5, <1>6, <1>7, <1>8, <1>9, <1>10 DEF SweepInv

LEMMA PutInv ==
    ASSUME SweepInv, Put, UNCHANGED <<first, depth, stop, driverVars, caches, marker>>
    PROVE  SweepInv'
<1>1. /\ channel' \in Seq([step : Nat, built : 1 .. Frequencies])
      /\ Len(channel') = Len(channel) + 1 /\ Len(channel) \in Nat
      /\ \A i \in 1 .. Len(channel) : channel'[i] = channel[i]
      /\ channel'[Len(channel) + 1] = [step |-> step, built |-> FreqOf(step)]
    BY PutOnChannel DEF Put
<1>2. /\ task = "put" /\ task' = "check" /\ step' = step + 1
      /\ Len(channel) < depth
      /\ UNCHANGED <<first, depth, stop, at, freq, current, results, failed, outcome,
                     live, caches, marker>>
    BY DEF Put, PutStep, driverVars
<1>3. first \in Nat /\ step \in Nat \ {0}
    BY DEF SweepInv, SweepTypes, PipeTypes
<1>4. Piped /\ Piped' /\ step <= StepCount /\ StepCount' = StepCount
    BY <1>2, MakesInSweep DEF SweepInv, PipeInv, Piped, StepCount
<1>5. NextTaken' = NextTaken
    BY <1>1, <1>2, <1>3 DEF NextTaken
<1>6. LastMade' = LastMade
    BY <1>2, <1>3 DEF LastMade, FreqOf
<1>7. SweepTypes'
    BY <1>1, <1>2, <1>3 DEF SweepInv, SweepTypes, PipeTypes, DriverTypes, TaskStates
<1>8. PipeInv'
    BY <1>2, <1>3, <1>4, SweepAssumption DEF SweepInv, PipeInv, StepCount
<1>9. ChannelInv'
    <2>1. Len(channel') <= step' - 1 /\ Len(channel') <= depth'
        BY <1>1, <1>2, <1>3 DEF SweepInv, ChannelInv, SweepTypes, PipeTypes
    <2>2. ASSUME NEW i \in 1 .. Len(channel')
          PROVE  /\ channel'[i].step = step' - Len(channel') + i - 1
                 /\ channel'[i].built = first' + channel'[i].step - 1
        <3>1. CASE i <= Len(channel)
            <4>1. /\ channel[i].step = step - Len(channel) + i - 1
                  /\ channel[i].built = FreqOf(channel[i].step)
                BY <1>1, <3>1 DEF SweepInv, ChannelInv
            <4>2. channel'[i] = channel[i]
                BY <1>1, <3>1
            <4>3. step' - Len(channel') = step - Len(channel)
                BY <1>1, <1>2, <1>3
            <4>4. QED
                BY <1>2, <4>1, <4>2, <4>3 DEF FreqOf
        <3>2. CASE i = Len(channel) + 1
            BY <1>1, <1>2, <1>3, <3>2 DEF FreqOf
        <3>3. QED
            BY <1>1, <3>1, <3>2
    <2>3. QED
        BY <2>1, <2>2 DEF ChannelInv, FreqOf
<1>10. DriverInv'
    BY <1>2, <1>4, <1>5 DEF SweepInv, DriverInv
<1>11. LiveInv'
    BY <1>2, <1>4, <1>5, <1>6 DEF SweepInv, LiveInv
<1>12. EndInv'
    BY <1>2, <1>3, <1>4, SweepAssumption DEF SweepInv, EndInv, StepCount, PipeInv
<1>13. QED
    BY <1>7, <1>8, <1>9, <1>10, <1>11, <1>12 DEF SweepInv

LEMMA PlanExteriorInv ==
    ASSUME SweepInv, PlanExterior
    PROVE  SweepInv'
<1>1. /\ at = "plan" /\ ~Piped /\ freq = 1 /\ current = NoSystem
      /\ step = 1 /\ channel = << >> /\ ~stop /\ Len(channel) = 0
      /\ UNCHANGED <<step, channel, stop, freq, current, results, outcome,
                     live, caches, marker>>
    BY DEF PlanExterior, SweepInv, DriverInv, PipeInv
<1>2. \/ UNCHANGED <<task, first, depth>>
      \/ task' = "check" /\ first' = 1 /\ depth' \in 1 .. Frequencies
    BY LookaheadType DEF PlanExterior, StartPipeline
<1>3. \/ at' = "head" /\ failed' = failed
      \/ at' = "shutdown" /\ failed' = TRUE /\ UNCHANGED <<task, first, depth>>
    BY DEF PlanExterior, Throw
<1>4. SweepTypes'
    <2>1. PipeTypes'
        BY <1>1, <1>2, SweepAssumption DEF SweepInv, SweepTypes, PipeTypes, TaskStates
    <2>2. DriverTypes'
        BY <1>1, <1>3 DEF SweepInv, SweepTypes, DriverTypes, DriverStates
    <2>3. QED
        BY <1>1, <2>1, <2>2 DEF SweepInv, SweepTypes
<1>5. PipeInv'
    <2>1. CASE UNCHANGED <<task, first, depth>>
        BY <1>1, <1>3, <2>1 DEF SweepInv, PipeInv, Piped, StepCount
    <2>2. CASE task' = "check" /\ first' = 1 /\ depth' \in 1 .. Frequencies
        <3>1. Piped' /\ StepCount' = Frequencies
            BY <2>2, SweepAssumption DEF Piped, NoSystem, StepCount
        <3>2. QED
            BY <1>1, <2>2, <3>1, SweepAssumption DEF PipeInv
    <2>3. QED
        BY <1>2, <2>1, <2>2
<1>6. ChannelInv'
    BY <1>1, <1>2 DEF SweepInv, SweepTypes, PipeTypes, ChannelInv
<1>7. NextTaken' \in Int /\ LastMade' < NextTaken' /\ (Piped' => NextTaken' = 1)
    BY <1>1, <1>2 DEF SweepInv, PipeInv, SweepTypes, PipeTypes, Piped, NextTaken,
                      LastMade, FreqOf, NoSystem
<1>8. DriverInv'
    BY <1>1, <1>2, <1>3, <1>7 DEF SweepInv, DriverInv, Piped
<1>9. LiveInv'
    <2>1. live = {}
        BY <1>1 DEF SweepInv, LiveInv, SweepTypes, NoSystem
    <2>2. LastMade' \in Int
        BY <1>1, <1>2 DEF SweepInv, SweepTypes, PipeTypes, LastMade, FreqOf
    <2>3. QED
        BY <1>1, <1>7, <2>1, <2>2 DEF LiveInv, NoSystem
<1>10. EndInv'
    <2>1. outcome' = "none" /\ caches' /\ freq' # Frequencies + 1
        BY <1>1, SweepAssumption DEF SweepInv, EndInv
    <2>2. at' \notin {"release", "done"} /\ (at' = "shutdown" => failed')
        BY <1>3
    <2>3. at' # "drain"
        BY <1>3
    <2>4. QED
        BY <2>1, <2>2, <2>3 DEF EndInv
<1>11. QED
    BY <1>4, <1>5, <1>6, <1>8, <1>9, <1>10 DEF SweepInv

LEMMA LoopHeadInv ==
    ASSUME SweepInv, LoopHead
    PROVE  SweepInv'
<1>1. /\ at = "head" /\ freq \in 1 .. Frequencies + 1
      /\ at' = IF freq > Frequencies \/ marker THEN "shutdown"
               ELSE IF Piped THEN "take" ELSE "assemble"
      /\ UNCHANGED <<freq, current, results, failed, outcome, live, caches, marker>>
    BY DEF LoopHead, SweepInv, SweepTypes, DriverTypes
<1>2. UNCHANGED pipeVars
    BY DEF LoopHead
<1>3. SweepTypes'
    BY <1>1, <1>2, PipeUnchanged DEF SweepInv, SweepTypes, DriverTypes, DriverStates
<1>4. PipeInv'
    BY <1>1, <1>2, PipeUnchanged DEF SweepInv, PipeInv
<1>5. DriverInv'
    BY <1>1, <1>2, PipeUnchanged, SweepAssumption DEF SweepInv, DriverInv
<1>6. LiveInv'
    BY <1>1, <1>2, PipeUnchanged DEF SweepInv, LiveInv
<1>7. EndInv'
    BY <1>1, <1>2, PipeUnchanged, SweepAssumption DEF SweepInv, EndInv
<1>8. QED
    BY <1>2, <1>3, <1>4, <1>5, <1>6, <1>7, PipeUnchanged DEF SweepInv

LEMMA AssembleInv ==
    ASSUME SweepInv, Assemble
    PROVE  SweepInv'
<1>1. /\ at = "assemble" /\ freq \in 1 .. Frequencies /\ ~Piped
      /\ current = NoSystem
      /\ UNCHANGED <<task, step, first, depth, channel, stop, freq, results,
                     outcome, caches, marker>>
    BY DEF Assemble, pipeVars, SweepInv, DriverInv, SweepTypes, DriverTypes
<1>2. \/ /\ at' = "decide" /\ current' = freq /\ live' = live \cup {freq}
         /\ failed' = failed
      \/ /\ at' = "shutdown" /\ current' = current /\ live' = live
         /\ failed' = TRUE
    BY DEF Assemble, Throw
<1>3. ~Piped'
    BY <1>1 DEF Piped
<1>4. SweepTypes'
    <2>1. PipeTypes'
        BY <1>1 DEF SweepInv, SweepTypes, PipeTypes
    <2>2. DriverTypes'
        <3>1. failed' \in BOOLEAN /\ at' \in DriverStates
            BY <1>2 DEF SweepInv, SweepTypes, DriverTypes, DriverStates
        <3>2. current' \in 0 .. Frequencies
            BY <1>1, <1>2 DEF SweepInv, SweepTypes, DriverTypes
        <3>3. QED
            BY <1>1, <3>1, <3>2 DEF SweepInv, SweepTypes, DriverTypes
    <2>3. live' \in SUBSET (1 .. Frequencies)
        BY <1>1, <1>2 DEF SweepInv, SweepTypes
    <2>4. QED
        BY <1>1, <2>1, <2>2, <2>3 DEF SweepInv, SweepTypes
<1>5. PipeInv'
    BY <1>1, <1>2, <1>3 DEF SweepInv, PipeInv
<1>6. ChannelInv'
    BY <1>1 DEF SweepInv, ChannelInv, FreqOf
<1>7. DriverInv'
    BY <1>1, <1>2, <1>3 DEF SweepInv, DriverInv
<1>8. LiveInv'
    BY <1>1, <1>2, <1>3 DEF SweepInv, LiveInv, NoSystem
<1>9. EndInv'
    BY <1>1, <1>2, <1>3 DEF SweepInv, EndInv
<1>10. QED
    BY <1>4, <1>5, <1>6, <1>7, <1>8, <1>9 DEF SweepInv

LEMMA TakeInv ==
    ASSUME SweepInv, Take
    PROVE  SweepInv'
<1>1. /\ at = "take" /\ channel # << >> /\ channel' = Tail(channel)
      /\ UNCHANGED <<task, step, first, depth, stop, freq, results, outcome,
                     live, caches, marker>>
    BY DEF Take, TakeStep
<1>2. /\ Piped /\ NextTaken = freq /\ freq \in 1 .. Frequencies
      /\ channel[1].step = step - Len(channel) /\ channel[1].built = freq
      /\ channel' \in Seq([step : Nat, built : 1 .. Frequencies])
    BY <1>1, HeadOfChannel DEF SweepInv, DriverInv
<1>3. channel[1].step = StepOf(freq)
    <2>1. Len(channel) \in Nat /\ first \in Nat /\ step \in Nat
        BY LenProperties DEF SweepInv, SweepTypes, PipeTypes
    <2>2. QED
        BY <1>2, <2>1 DEF NextTaken, StepOf
<1>4. at' = "decide" /\ current' = freq /\ failed' = failed
    BY <1>2, <1>3 DEF Take, TakeStep
<1>5. ChannelInv' /\ NextTaken' = freq + 1
    BY <1>1, <1>2, ShiftChannel
<1>6. Piped' /\ StepCount' = StepCount /\ LastMade' = LastMade
    BY <1>1, <1>2 DEF Piped, StepCount, LastMade, FreqOf
<1>7. SweepTypes'
    <2>1. PipeTypes'
        BY <1>1, <1>2 DEF SweepInv, SweepTypes, PipeTypes
    <2>2. DriverTypes'
        BY <1>1, <1>2, <1>4 DEF SweepInv, SweepTypes, DriverTypes, DriverStates
    <2>3. QED
        BY <1>1, <2>1, <2>2 DEF SweepInv, SweepTypes
<1>8. PipeInv'
    BY <1>1, <1>2, <1>6 DEF SweepInv, PipeInv
<1>9. DriverInv'
    BY <1>1, <1>2, <1>4, <1>5 DEF SweepInv, DriverInv
<1>10. LiveInv'
    <2>1. freq <= LastMade /\ LastMade \in Int
        <3>1. Len(channel) \in Nat \ {0} /\ first \in Nat /\ step \in Nat
            BY <1>1, EmptySeq DEF SweepInv, SweepTypes, PipeTypes
        <3>2. QED
            BY <1>2, <3>1 DEF NextTaken, LastMade, FreqOf
    <2>2. current = NoSystem
        BY <1>1 DEF SweepInv, DriverInv
    <2>3. QED
        BY <1>1, <1>2, <1>4, <1>5, <1>6, <2>1, <2>2 DEF SweepInv, LiveInv, NoSystem
<1>11. EndInv'
    BY <1>1, <1>2, <1>4, SweepAssumption DEF SweepInv, EndInv
<1>12. QED
    BY <1>5, <1>7, <1>8, <1>9, <1>10, <1>11 DEF SweepInv

LEMMA TakeFailsInv ==
    ASSUME SweepInv, TakeFails
    PROVE  SweepInv'
<1>1. /\ at = "take" /\ at' = "shutdown" /\ failed' = TRUE
      /\ UNCHANGED <<freq, current, results, outcome, live, caches, marker>>
    BY DEF TakeFails, ChannelClosed, Throw
<1>2. UNCHANGED pipeVars
    BY DEF TakeFails
<1>3. SweepTypes'
    BY <1>1, <1>2, PipeUnchanged DEF SweepInv, SweepTypes, DriverTypes, DriverStates
<1>4. PipeInv'
    BY <1>1, <1>2, PipeUnchanged DEF SweepInv, PipeInv
<1>5. DriverInv'
    BY <1>1, <1>2, PipeUnchanged DEF SweepInv, DriverInv
<1>6. LiveInv'
    BY <1>1, <1>2, PipeUnchanged DEF SweepInv, LiveInv
<1>7. EndInv'
    BY <1>1, <1>2, PipeUnchanged DEF SweepInv, EndInv
<1>8. QED
    BY <1>2, <1>3, <1>4, <1>5, <1>6, <1>7, PipeUnchanged DEF SweepInv

LEMMA DecideInv ==
    ASSUME SweepInv, Decide
    PROVE  SweepInv'
<1>1. /\ at = "decide" /\ freq <= Frequencies /\ current = freq
      /\ freq \in Nat \ {0}
      /\ UNCHANGED <<step, channel, stop, freq, current, results, outcome,
                     live, caches, marker>>
    BY DEF Decide, SweepInv, DriverInv, SweepTypes, DriverTypes
<1>2. \/ at' = "solve" /\ failed' = failed
      \/ at' = "shutdown" /\ failed' = TRUE /\ UNCHANGED <<task, first, depth>>
    BY DEF Decide, Throw
<1>3. CASE UNCHANGED <<task, first, depth>>
    <2>1. /\ Piped' = Piped /\ StepCount' = StepCount
          /\ NextTaken' = NextTaken /\ LastMade' = LastMade
        BY <1>1, <1>3 DEF Piped, StepCount, NextTaken, LastMade, FreqOf
    <2>2. SweepTypes'
        BY <1>1, <1>3, <1>2 DEF SweepInv, SweepTypes, PipeTypes, DriverTypes, DriverStates
    <2>3. PipeInv'
        BY <1>1, <1>3, <1>2, <2>1 DEF SweepInv, PipeInv
    <2>4. ChannelInv'
        BY <1>1, <1>3 DEF SweepInv, ChannelInv, FreqOf
    <2>5. DriverInv'
        BY <1>1, <1>2, <2>1 DEF SweepInv, DriverInv
    <2>6. LiveInv'
        BY <1>1, <2>1 DEF SweepInv, LiveInv
    <2>7. EndInv'
        BY <1>1, <1>3, <1>2, <2>1 DEF SweepInv, EndInv
    <2>8. QED
        BY <2>2, <2>3, <2>4, <2>5, <2>6, <2>7 DEF SweepInv
<1>4. CASE /\ ~Piped /\ coupled /\ freq \in StartPoints /\ StartPipeline(freq + 1)
           /\ at' = "solve" /\ failed' = failed
    <2>1. freq + 2 <= Frequencies
        BY <1>1, <1>4, SweepAssumption DEF StartPoints
    <2>2. task' = "check" /\ first' = freq + 1 /\ depth' \in 1 .. Frequencies
        BY <1>4, LookaheadType DEF StartPipeline
    <2>3. step = 1 /\ channel = << >> /\ ~stop
        BY <1>4 DEF SweepInv, PipeInv
    <2>4. Len(channel) = 0
        BY <2>3
    <2>5. /\ Piped' /\ StepCount' = Frequencies - freq
          /\ NextTaken' = freq + 1 /\ LastMade' = freq
        BY <1>1, <2>2, <2>3, <2>4, SweepAssumption
        DEF Piped, NoSystem, StepCount, NextTaken, LastMade, FreqOf
    <2>6. SweepTypes'
        <3>1. PipeTypes'
            <4>1. first' \in 0 .. Frequencies /\ task' \in TaskStates
                BY <1>1, <2>1, <2>2, SweepAssumption DEF TaskStates
            <4>2. QED
                BY <1>1, <2>2, <4>1 DEF SweepInv, SweepTypes, PipeTypes
        <3>2. DriverTypes'
            BY <1>1, <1>4 DEF SweepInv, SweepTypes, DriverTypes, DriverStates
        <3>3. QED
            BY <1>1, <3>1, <3>2 DEF SweepInv, SweepTypes
    <2>7. PipeInv'
        BY <1>1, <1>4, <2>1, <2>2, <2>3, <2>5, SweepAssumption DEF PipeInv
    <2>8. ChannelInv'
        BY <1>1, <2>2, <2>3, <2>4 DEF ChannelInv
    <2>9. DriverInv'
        BY <1>1, <1>4, <2>5 DEF SweepInv, DriverInv
    <2>10. LiveInv'
        BY <1>1, <1>4, <2>5 DEF SweepInv, LiveInv
    <2>11. EndInv'
        BY <1>1, <1>4, <2>1, <2>2, SweepAssumption DEF SweepInv, EndInv
    <2>12. QED
        BY <2>6, <2>7, <2>8, <2>9, <2>10, <2>11 DEF SweepInv
<1>5. QED
    BY <1>3, <1>4 DEF Decide

LEMMA SolveInv ==
    ASSUME SweepInv, Solve
    PROVE  SweepInv'
<1>1. /\ at = "solve" /\ current = freq /\ freq \in Nat \ {0}
      /\ UNCHANGED <<freq, results, outcome, caches, marker>>
    BY DEF Solve, SweepInv, DriverInv, SweepTypes, DriverTypes
<1>2. UNCHANGED pipeVars
    BY DEF Solve
<1>3. \/ at' = "report" /\ failed' = failed
      \/ at' = "shutdown" /\ failed' = TRUE /\ UNCHANGED <<current, live>>
    BY DEF Solve, Throw
<1>4. \/ UNCHANGED <<current, live>>
      \/ live' = live \ {current} /\ current' = NoSystem
    BY DEF Solve
<1>5. SweepTypes'
    <2>1. failed' \in BOOLEAN /\ at' \in DriverStates
        BY <1>3 DEF SweepInv, SweepTypes, DriverTypes, DriverStates
    <2>2. current' \in 0 .. Frequencies
        BY <1>4, SweepAssumption DEF SweepInv, SweepTypes, DriverTypes, NoSystem
    <2>3. live' \in SUBSET (1 .. Frequencies)
        BY <1>4 DEF SweepInv, SweepTypes
    <2>4. QED
        BY <1>1, <1>2, <2>1, <2>2, <2>3, PipeUnchanged DEF SweepInv, SweepTypes, DriverTypes
<1>6. PipeInv'
    BY <1>1, <1>2, PipeUnchanged DEF SweepInv, PipeInv
<1>7. DriverInv'
    BY <1>1, <1>2, <1>3, <1>4, PipeUnchanged DEF SweepInv, DriverInv, NoSystem
<1>8. LiveInv'
    <2>1. Piped => freq < NextTaken
        BY <1>1 DEF SweepInv, DriverInv, NoSystem
    <2>2. NextTaken \in Int
        BY LenProperties DEF NextTaken, SweepInv, SweepTypes, PipeTypes
    <2>3. QED
        BY <1>1, <1>2, <1>4, <2>1, <2>2, PipeUnchanged DEF SweepInv, LiveInv, NoSystem
<1>9. EndInv'
    BY <1>1, <1>2, <1>3, PipeUnchanged DEF SweepInv, EndInv
<1>10. QED
    BY <1>2, <1>5, <1>6, <1>7, <1>8, <1>9, PipeUnchanged DEF SweepInv

LEMMA ReportInv ==
    ASSUME SweepInv, Report
    PROVE  SweepInv'
<1>1. /\ at = "report" /\ freq \in 1 .. Frequencies /\ current \in {freq, NoSystem}
      /\ UNCHANGED <<task, step, first, depth, channel, stop, outcome, caches,
                     marker>>
    BY DEF Report, pipeVars, SweepInv, DriverInv, SweepTypes, DriverTypes
<1>2. /\ Piped' = Piped /\ StepCount' = StepCount
      /\ NextTaken' = NextTaken /\ LastMade' = LastMade
    BY <1>1 DEF Piped, StepCount, NextTaken, LastMade, FreqOf
<1>3. PipeTypes'
    BY <1>1 DEF SweepInv, SweepTypes, PipeTypes
<1>4. PipeInv'
    BY <1>1, <1>2 DEF SweepInv, PipeInv, Report, Throw
<1>5. ChannelInv'
    BY <1>1 DEF SweepInv, ChannelInv, FreqOf
<1>6. CASE Throw /\ UNCHANGED <<freq, current, results, live>>
    <2>1. SweepTypes'
        BY <1>1, <1>3, <1>6
        DEF SweepInv, SweepTypes, DriverTypes, DriverStates, Throw
    <2>2. DriverInv'
        BY <1>1, <1>2, <1>6 DEF SweepInv, DriverInv, Throw
    <2>3. LiveInv'
        BY <1>1, <1>2, <1>6 DEF SweepInv, LiveInv
    <2>4. EndInv'
        BY <1>1, <1>2, <1>6 DEF SweepInv, EndInv, Throw
    <2>5. QED
        BY <1>4, <1>5, <2>1, <2>2, <2>3, <2>4 DEF SweepInv
<1>7. CASE /\ at' = "head" /\ results' = Append(results, freq) /\ freq' = freq + 1
           /\ live' = live \ {current} /\ current' = NoSystem /\ UNCHANGED failed
    <2>1. results \in Seq(1 .. Frequencies) /\ Len(results) = freq - 1
        BY DEF SweepInv, SweepTypes, DriverTypes, DriverInv
    <2>2. /\ results' \in Seq(1 .. Frequencies) /\ Len(results') = freq
          /\ \A i \in 1 .. freq - 1 : results'[i] = results[i]
          /\ results'[freq] = freq
        BY <1>1, <1>7, <2>1, AppendProperties
    <2>3. SweepTypes'
        BY <1>1, <1>3, <1>7, <2>2, SweepAssumption
        DEF SweepInv, SweepTypes, DriverTypes, DriverStates, NoSystem
    <2>4. DriverInv'
        <3>1. \A i \in 1 .. Len(results') : results'[i] = i
            BY <1>1, <2>1, <2>2 DEF SweepInv, DriverInv
        <3>2. Piped' => NextTaken' = freq'
            BY <1>1, <1>2, <1>7 DEF SweepInv, DriverInv
        <3>3. QED
            BY <1>1, <1>7, <2>2, <3>1, <3>2 DEF DriverInv
    <2>5. LiveInv'
        <3>1. Piped => NextTaken = freq + 1
            BY <1>1 DEF SweepInv, DriverInv
        <3>2. QED
            BY <1>1, <1>2, <1>7, <3>1 DEF SweepInv, LiveInv, NoSystem
    <2>6. EndInv'
        <3>1. freq' = Frequencies + 1 /\ Piped' => step' = StepCount' + 1 /\ channel' = << >>
            <4>1. SUFFICES ASSUME freq = Frequencies, Piped
                           PROVE  step = StepCount + 1 /\ channel = << >>
                BY <1>1, <1>2, <1>7, SweepAssumption
            <4>2. NextTaken = Frequencies + 1
                BY <1>1, <4>1 DEF SweepInv, DriverInv
            <4>3. /\ Len(channel) \in Nat /\ first \in Nat /\ step \in Nat
                  /\ step <= StepCount + 1
                BY <4>1, LenProperties DEF SweepInv, SweepTypes, PipeTypes, PipeInv
            <4>4. step = StepCount + 1 /\ Len(channel) = 0
                BY <4>2, <4>3, SweepAssumption DEF NextTaken, StepCount
            <4>5. channel = << >>
                BY <4>4, EmptySeq DEF SweepInv, SweepTypes, PipeTypes
            <4>6. QED
                BY <4>4, <4>5
        <3>2. QED
            BY <1>1, <1>7, <3>1 DEF SweepInv, EndInv
    <2>7. QED
        BY <1>4, <1>5, <2>3, <2>4, <2>5, <2>6 DEF SweepInv
<1>8. QED
    BY <1>6, <1>7 DEF Report

LEMMA ShutdownInv ==
    ASSUME SweepInv, Shutdown
    PROVE  SweepInv'
<1>1. /\ at = "shutdown" /\ at' = "drain" /\ stop' = Piped
      /\ UNCHANGED <<task, step, first, depth, channel, freq, current, results, failed,
                     outcome, live, caches, marker>>
    BY DEF Shutdown
<1>2. /\ Piped' = Piped /\ StepCount' = StepCount
      /\ NextTaken' = NextTaken /\ LastMade' = LastMade
    BY <1>1 DEF Piped, StepCount, NextTaken, LastMade, FreqOf
<1>3. SweepTypes'
    BY <1>1 DEF SweepInv, SweepTypes, PipeTypes, DriverTypes, DriverStates, Piped
<1>4. PipeInv'
    BY <1>1, <1>2 DEF SweepInv, PipeInv
<1>5. ChannelInv'
    BY <1>1 DEF SweepInv, ChannelInv, FreqOf
<1>6. DriverInv'
    BY <1>1, <1>2 DEF SweepInv, DriverInv
<1>7. LiveInv'
    BY <1>1, <1>2 DEF SweepInv, LiveInv
<1>8. EndInv'
    BY <1>1, <1>2 DEF SweepInv, EndInv
<1>9. QED
    BY <1>3, <1>4, <1>5, <1>6, <1>7, <1>8 DEF SweepInv

LEMMA DrainOneInv ==
    ASSUME SweepInv, DrainOne
    PROVE  SweepInv'
<1>1. /\ at = "drain" /\ channel # << >> /\ channel' = Tail(channel)
      /\ UNCHANGED <<task, step, first, depth, stop, at, freq, current, results,
                     failed, outcome, caches, marker>>
    BY DEF DrainOne, driverVars
<1>2. /\ Piped /\ NextTaken \in 1 .. Frequencies
      /\ channel' \in Seq([step : Nat, built : 1 .. Frequencies])
      /\ live' = live \ {NextTaken}
    BY <1>1, HeadOfChannel DEF DrainOne
<1>3. ChannelInv' /\ NextTaken' = NextTaken + 1
    BY <1>1, ShiftChannel
<1>4. Piped' /\ StepCount' = StepCount /\ LastMade' = LastMade
    BY <1>1, <1>2 DEF Piped, StepCount, LastMade, FreqOf
<1>5. SweepTypes'
    <2>1. PipeTypes'
        BY <1>1, <1>2 DEF SweepInv, SweepTypes, PipeTypes
    <2>2. DriverTypes'
        BY <1>1 DEF SweepInv, SweepTypes, DriverTypes
    <2>3. QED
        BY <1>1, <1>2, <2>1, <2>2 DEF SweepInv, SweepTypes
<1>6. PipeInv'
    BY <1>1, <1>2, <1>4 DEF SweepInv, PipeInv
<1>7. DriverInv'
    <2>1. Piped /\ current # NoSystem => current < NextTaken
        BY DEF SweepInv, DriverInv
    <2>2. current \in Nat
        BY DEF SweepInv, SweepTypes, DriverTypes
    <2>3. (Piped /\ current # NoSystem => current < NextTaken)'
        BY <1>1, <1>2, <1>3, <2>1, <2>2 DEF NoSystem
    <2>4. QED
        BY <1>1, <2>3 DEF SweepInv, DriverInv
<1>8. LiveInv'
    <2>1. current # NextTaken
        BY <1>2 DEF SweepInv, DriverInv, NoSystem
    <2>2. NextTaken <= LastMade /\ LastMade \in Int
        <3>1. Len(channel) \in Nat \ {0} /\ first \in Nat /\ step \in Nat
            BY <1>1, EmptySeq DEF SweepInv, SweepTypes, PipeTypes
        <3>2. QED
            BY <3>1 DEF NextTaken, LastMade, FreqOf
    <2>3. QED
        BY <1>1, <1>2, <1>3, <1>4, <2>1, <2>2 DEF SweepInv, LiveInv
<1>9. EndInv'
    BY <1>1, <1>2, <1>4, SweepAssumption DEF SweepInv, EndInv
<1>10. QED
    BY <1>3, <1>5, <1>6, <1>7, <1>8, <1>9 DEF SweepInv

LEMMA DrainedInv ==
    ASSUME SweepInv, Drained
    PROVE  SweepInv'
<1>1. /\ at = "drain" /\ at' = "release" /\ channel = << >>
      /\ task \in {"off", "ended", "failed"}
      /\ UNCHANGED <<freq, current, results, failed, outcome, live, caches, marker>>
    BY DEF Drained, ChannelDrained
<1>2. UNCHANGED pipeVars
    BY DEF Drained
<1>3. SweepTypes'
    BY <1>1, <1>2, PipeUnchanged DEF SweepInv, SweepTypes, DriverTypes, DriverStates
<1>4. PipeInv'
    BY <1>1, <1>2, PipeUnchanged DEF SweepInv, PipeInv
<1>5. DriverInv'
    BY <1>1, <1>2, PipeUnchanged DEF SweepInv, DriverInv
<1>6. LiveInv'
    BY <1>1, <1>2, PipeUnchanged DEF SweepInv, LiveInv
<1>7. EndInv'
    BY <1>1, <1>2, PipeUnchanged DEF SweepInv, EndInv
<1>8. QED
    BY <1>2, <1>3, <1>4, <1>5, <1>6, <1>7, PipeUnchanged DEF SweepInv

LEMMA ReturnInv ==
    ASSUME SweepInv, Return
    PROVE  SweepInv'
<1>1. /\ at = "release" /\ at' = "done" /\ current' = NoSystem /\ caches' = FALSE
      /\ live' = live \ {current}
      /\ outcome' = IF failed THEN "failed" ELSE IF marker THEN "cancelled"
                    ELSE "completed"
      /\ UNCHANGED <<freq, results, failed, marker>>
    BY DEF Return
<1>2. UNCHANGED pipeVars
    BY DEF Return
<1>3. channel = << >> /\ task \in {"off", "ended", "failed"}
    BY <1>1 DEF SweepInv, EndInv
<1>4. SweepTypes'
    <2>1. current' \in 0 .. Frequencies
        BY <1>1, SweepAssumption DEF NoSystem
    <2>2. QED
        BY <1>1, <1>2, <2>1, PipeUnchanged
        DEF SweepInv, SweepTypes, DriverTypes, DriverStates
<1>5. PipeInv'
    BY <1>1, <1>2, PipeUnchanged DEF SweepInv, PipeInv
<1>6. DriverInv'
    BY <1>1, <1>2, PipeUnchanged DEF SweepInv, DriverInv
<1>7. LiveInv'
    <2>1. NextTaken = LastMade + 1
        <3>1. Len(channel) = 0 /\ first \in Nat /\ step \in Nat
            BY <1>3 DEF SweepInv, SweepTypes, PipeTypes
        <3>2. QED
            BY <1>3, <3>1 DEF NextTaken, LastMade, FreqOf
    <2>2. LastMade \in Int
        BY <1>3 DEF LastMade, FreqOf, SweepInv, SweepTypes, PipeTypes
    <2>3. live' = {}
        <3>1. \A f \in 1 .. Frequencies : f \in live => f = current
            BY <2>1, <2>2 DEF SweepInv, LiveInv
        <3>2. live \subseteq 1 .. Frequencies
            BY DEF SweepInv, SweepTypes
        <3>3. QED
            BY <1>1, <3>1, <3>2
    <2>4. QED
        BY <1>1, <1>2, <2>1, <2>2, <2>3, PipeUnchanged DEF LiveInv, NoSystem
<1>8. EndInv'
    <2>1. outcome' = "completed" => ~failed' /\ freq' = Frequencies + 1
        BY <1>1 DEF SweepInv, EndInv
    <2>2. outcome' = "completed" => task' \in {"off", "ended"}
        <3>1. SUFFICES ASSUME freq = Frequencies + 1
                       PROVE  task # "failed"
            BY <1>1, <1>2, <1>3, <2>1, PipeUnchanged
        <3>2. CASE Piped
            <4>1. step = StepCount + 1
                BY <3>1, <3>2 DEF SweepInv, EndInv
            <4>2. StepCount \in Int
                BY SweepAssumption DEF StepCount, SweepInv, SweepTypes, PipeTypes
            <4>3. QED
                BY <3>2, <4>1, <4>2 DEF SweepInv, PipeInv
        <3>3. CASE ~Piped
            BY <3>3 DEF SweepInv, PipeInv
        <3>4. QED
            BY <3>2, <3>3
    <2>3. QED
        BY <1>1, <1>2, <1>3, <2>1, <2>2, PipeUnchanged DEF SweepInv, EndInv
<1>9. QED
    BY <1>2, <1>4, <1>5, <1>6, <1>7, <1>8, PipeUnchanged DEF SweepInv

LEMMA CancelInv ==
    ASSUME SweepInv, Cancel
    PROVE  SweepInv'
<1>1. /\ at # "done" /\ marker' = TRUE
      /\ UNCHANGED <<at, freq, current, results, failed, outcome, live, caches>>
    BY DEF Cancel, driverVars
<1>2. UNCHANGED pipeVars
    BY DEF Cancel
<1>3. SweepTypes'
    BY <1>1, <1>2, PipeUnchanged DEF SweepInv, SweepTypes, DriverTypes
<1>4. PipeInv'
    BY <1>1, <1>2, PipeUnchanged DEF SweepInv, PipeInv
<1>5. DriverInv'
    BY <1>1, <1>2, PipeUnchanged DEF SweepInv, DriverInv
<1>6. LiveInv'
    BY <1>1, <1>2, PipeUnchanged DEF SweepInv, LiveInv
<1>7. EndInv'
    BY <1>1, <1>2, PipeUnchanged DEF SweepInv, EndInv
<1>8. QED
    BY <1>2, <1>3, <1>4, <1>5, <1>6, <1>7, PipeUnchanged DEF SweepInv
-----------------------------------------------------------------------------
(* The theorems. *)

LEMMA InitInv == Init => SweepInv
<1> SUFFICES ASSUME Init
             PROVE  SweepInv
    OBVIOUS
<1>1. /\ task = "off" /\ step = 1 /\ first = NoSystem /\ depth = 0
      /\ channel = << >> /\ ~stop /\ at \in {"plan", "head"} /\ freq = 1 /\ current = NoSystem
      /\ results = << >> /\ failed = FALSE /\ outcome = "none"
      /\ live = {} /\ caches = TRUE /\ marker \in BOOLEAN
      /\ stop \in BOOLEAN
    BY SweepAssumption DEF Init
<1>2. ~Piped /\ Len(channel) = 0 /\ Len(results) = 0
    BY <1>1 DEF Piped
<1>3. SweepTypes
    <2>1. PipeTypes
        BY <1>1, SweepAssumption DEF PipeTypes, TaskStates, NoSystem
    <2>2. DriverTypes
        <3>1. freq \in 1 .. Frequencies + 1 /\ current \in 0 .. Frequencies
            BY <1>1, SweepAssumption DEF NoSystem
        <3>2. results \in Seq(1 .. Frequencies)
            BY <1>1
        <3>3. at \in DriverStates /\ failed \in BOOLEAN
            BY <1>1 DEF DriverStates
        <3>4. QED
            BY <1>1, <3>1, <3>2, <3>3 DEF DriverTypes
    <2>3. QED
        BY <1>1, <2>1, <2>2 DEF SweepTypes
<1>4. PipeInv
    BY <1>1, <1>2 DEF PipeInv
<1>5. ChannelInv
    BY <1>1, <1>2 DEF ChannelInv
<1>6. DriverInv
    BY <1>1, <1>2, SweepAssumption DEF DriverInv, NoSystem
<1>7. LiveInv
    BY <1>1, <1>2 DEF LiveInv, NoSystem
<1>8. EndInv
    BY <1>1, <1>2, SweepAssumption DEF EndInv
<1>9. QED
    BY <1>3, <1>4, <1>5, <1>6, <1>7, <1>8 DEF SweepInv

LEMMA NextInv == SweepInv /\ [Next]_vars => SweepInv'
<1> SUFFICES ASSUME SweepInv, [Next]_vars
             PROVE  SweepInv'
    OBVIOUS
<1>1. CASE ProducerRuns
    BY <1>1, CheckInv, ProduceInv, TestInv, PutInv DEF ProducerRuns
<1>2. CASE DriverRuns
    BY <1>2, PlanExteriorInv, LoopHeadInv, AssembleInv, TakeInv, TakeFailsInv,
       DecideInv, SolveInv, ReportInv, ShutdownInv, DrainOneInv, DrainedInv,
       ReturnInv DEF DriverRuns
<1>3. CASE Cancel
    BY <1>3, CancelInv
<1>4. CASE UNCHANGED vars
    <2>1. UNCHANGED pipeVars /\ UNCHANGED <<at, freq, current, results, failed,
                                          outcome, live, caches, marker>>
        BY <1>4 DEF vars, driverVars
    <2>2. SweepTypes' /\ PipeInv' /\ DriverInv' /\ LiveInv' /\ EndInv'
        BY <2>1, PipeUnchanged
        DEF SweepInv, SweepTypes, DriverTypes, PipeInv, DriverInv, LiveInv, EndInv
    <2>3. QED
        BY <2>1, <2>2, PipeUnchanged DEF SweepInv
<1>5. QED
    BY <1>1, <1>2, <1>3, <1>4 DEF Next, Over

\* The inductive invariant holds in every state of every sweep.
THEOREM Invariance == Spec => []SweepInv
<1>1. QED
    BY InitInv, NextInv, PTL DEF Spec

\* No step, system or frequency is ever outside the sweep.
THEOREM Typing == Spec => []TypeOK
<1>1. Init => coupled \in Drivers
    BY DEF Init
<1>2. coupled \in Drivers /\ [Next]_vars => (coupled \in Drivers)'
    BY DEF Next, ProducerRuns, DriverRuns, Cancel, Over, vars
<1>3. SweepInv /\ coupled \in Drivers => TypeOK
    BY DEF SweepInv, TypeOK
<1>4. QED
    BY <1>1, <1>2, <1>3, Invariance, PTL DEF Spec

\* The driver solves for a frequency only the system assembled for it, and
\* prints the frequencies in order.
THEOREM Pairing == Spec => []PairedInOrder
<1>1. SweepInv => PairedInOrder
    BY DEF SweepInv, DriverInv, PairedInOrder
<1>2. QED
    BY <1>1, Invariance, PTL

\* take_sweep_assembly! refuses no step, and finds the channel closed only
\* after a failed assembly.
THEOREM Taking == Spec => []TakeSucceeds
<1>1. ASSUME SweepInv
      PROVE  TakeSucceeds
    <2> SUFFICES ASSUME at = "take"
                 PROVE  /\ channel # << >> => /\ channel[1].step = StepOf(freq)
                                              /\ channel[1].built = freq
                        /\ channel = << >> => task # "ended"
        BY DEF TakeSucceeds
    <2>1. /\ Piped /\ NextTaken = freq /\ freq <= Frequencies /\ ~stop
          /\ freq \in Nat /\ first \in Nat /\ step \in Nat
          /\ Len(channel) \in Nat
        BY <1>1, LenProperties
        DEF SweepInv, DriverInv, PipeInv, SweepTypes, PipeTypes, DriverTypes
    <2>2. ASSUME channel # << >>
          PROVE  channel[1].step = StepOf(freq) /\ channel[1].built = freq
        BY <1>1, <2>1, <2>2, HeadOfChannel DEF NextTaken, StepOf
    <2>3. ASSUME channel = << >>, task = "ended"
          PROVE  FALSE
        <3>1. step = StepCount + 1 /\ Len(channel) = 0
            BY <1>1, <2>1, <2>3 DEF SweepInv, PipeInv
        <3>2. QED
            BY <2>1, <3>1, SweepAssumption DEF NextTaken, StepCount
    <2>4. QED
        BY <2>2, <2>3
<1>2. QED
    BY <1>1, Invariance, PTL

\* No system is left when the sweep returns.
THEOREM Freeing == Spec => []NoLeak
<1>1. ASSUME SweepInv
      PROVE  NoLeak
    <2> SUFFICES ASSUME at = "done"
                 PROVE  live = {}
        BY DEF NoLeak
    <2>1. /\ Len(channel) = 0 /\ task \in {"off", "ended", "failed"}
          /\ current = NoSystem /\ first \in Nat /\ step \in Nat
          /\ live \subseteq 1 .. Frequencies
        BY <1>1 DEF SweepInv, EndInv, DriverInv, SweepTypes, PipeTypes
    <2>2. LastMade = first + step - 2 /\ NextTaken = first + step - 1
        BY <2>1 DEF LastMade, NextTaken, FreqOf
    <2>3. \A f \in 1 .. Frequencies : f \notin live
        BY <1>1, <2>1, <2>2 DEF SweepInv, LiveInv, NoSystem
    <2>4. QED
        BY <2>1, <2>3
<1>2. QED
    BY <1>1, Invariance, PTL

\* The caches an assembly reads are freed only when no assembly can run.
THEOREM CacheOrder == Spec => []CachesOutliveProducer
<1>1. SweepInv => CachesOutliveProducer
    BY DEF SweepInv, EndInv, CachesOutliveProducer
<1>2. QED
    BY <1>1, Invariance, PTL

\* A completed sweep has printed every frequency.
THEOREM Completing == Spec => []CompletedIsComplete
<1>1. ASSUME SweepInv
      PROVE  CompletedIsComplete
    <2>1. Len(results) = freq - 1 /\ freq \in Nat
        BY <1>1 DEF SweepInv, DriverInv, SweepTypes, DriverTypes
    <2>2. QED
        BY <1>1, <2>1, SweepAssumption DEF SweepInv, EndInv, CompletedIsComplete
<1>2. QED
    BY <1>1, Invariance, PTL

\* With a pipeline the systems alive are at most two more than its depth;
\* without one there is the driver's own.
THEOREM Lookahead == Spec => []LookaheadBounded
<1>1. ASSUME SweepInv
      PROVE  LookaheadBounded
    <2> DEFINE ahead == IF Piped THEN NextTaken .. LastMade ELSE {}
               most  == IF Piped THEN depth + 1 ELSE 0
    <2>1. /\ first \in Nat /\ step \in Nat /\ Len(channel) \in Nat
          /\ Len(channel) <= depth /\ depth \in Nat
          /\ live \subseteq 1 .. Frequencies
        BY <1>1, LenProperties
        DEF SweepInv, SweepTypes, PipeTypes, ChannelInv
    <2>2. /\ NextTaken \in Int /\ LastMade \in Int
          /\ LastMade - NextTaken + 1 <= depth + 1
        BY <2>1 DEF NextTaken, LastMade, FreqOf
    <2>3. IsFiniteSet(ahead) /\ Cardinality(ahead) <= most
        <3>1. CASE Piped
            <4> DEFINE made == NextTaken .. LastMade
            <4>1. /\ IsFiniteSet(made)
                  /\ Cardinality(made) = IF NextTaken > LastMade THEN 0
                                         ELSE LastMade - NextTaken + 1
                BY <2>2, FS_Interval
            <4>2. ahead = made /\ most = depth + 1
                BY <3>1
            <4> HIDE DEF ahead, most, made
            <4>3. QED
                BY <2>1, <2>2, <4>1, <4>2
        <3>2. CASE ~Piped
            BY <3>2, FS_EmptySet
        <3>3. QED
            BY <3>1, <3>2
    <2>4. live \subseteq ahead \cup {current}
        BY <1>1, <2>1, <2>2 DEF SweepInv, LiveInv
    <2>5. most \in Nat /\ (IF Piped THEN depth + 2 ELSE 1) = most + 1
        BY <2>1
    <2> HIDE DEF ahead, most
    <2>6. Cardinality(ahead) \in Nat
        BY <2>3, FS_CardinalityType
    <2>7. /\ IsFiniteSet(ahead \cup {current})
          /\ \/ Cardinality(ahead \cup {current}) = Cardinality(ahead)
             \/ Cardinality(ahead \cup {current}) = Cardinality(ahead) + 1
        BY <2>3, FS_AddElement
    <2>8. Cardinality(ahead \cup {current}) <= most + 1
        BY <2>3, <2>5, <2>6, <2>7
    <2>9. Cardinality(live) <= Cardinality(ahead \cup {current})
        BY <2>4, <2>7, FS_Subset
    <2>10. Cardinality(live) \in Nat /\ Cardinality(ahead \cup {current}) \in Nat
        BY <2>4, <2>7, FS_Subset, FS_CardinalityType
    <2>11. QED
        BY <2>5, <2>8, <2>9, <2>10 DEF LookaheadBounded
<1>2. QED
    BY <1>1, Invariance, PTL

=============================================================================
