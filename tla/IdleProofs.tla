----------------------------- MODULE IdleProofs -----------------------------
(***************************************************************************)
(* Proofs about the idle cleanup of WorkerProcess, for any sets of calls,  *)
(* timers, holds and terminations: the reservations are counted, a pending *)
(* timer is never out of date, and retained caches are remembered unless a *)
(* stream observes an event after it has lost the worker.                  *)
(***************************************************************************)
EXTENDS PipeProofs

-----------------------------------------------------------------------------
(* The reservations.                                                         *)

\* Those of the calls that are inside the transport, and of the application.
Inside == {k \in Calls : pc[k] \notin {"new", "done"}}
Taken  == {h \in Holds : held[h] = "held"}

\* The sets of calls and holds may be infinite; those that have begun are not.
CountInv == IsFiniteSet(Inside) /\ IsFiniteSet(Taken) /\ HoldsCounted

\* A call takes its reservation when it begins and gives it back when it
\* returns, a hold likewise, and nothing else is counted.
LEMMA Reservations ==
    ASSUME HandleInv, [Next]_vars
    PROVE  \/ Inside' = Inside /\ Taken' = Taken /\ holds' = holds
           \/ \E k \in Calls : /\ k \notin Inside /\ Inside' = Inside \cup {k}
                               /\ Taken' = Taken /\ holds' = holds + 1
           \/ \E k \in Calls : /\ k \in Inside /\ Inside' = Inside \ {k}
                               /\ Taken' = Taken /\ holds' = holds - 1
           \/ \E h \in Holds : /\ h \notin Taken /\ Taken' = Taken \cup {h}
                               /\ Inside' = Inside /\ holds' = holds + 1
           \/ \E h \in Holds : /\ h \in Taken /\ Taken' = Taken \ {h}
                               /\ Inside' = Inside /\ holds' = holds - 1
<1> DEFINE Kept == Inside' = Inside /\ Taken' = Taken /\ holds' = holds
<1>0. pc \in [Calls -> PcStates] /\ held \in [Holds -> {"new", "held", "released"}]
  BY Typed DEF HandleInv, TypeInv, TypeOK, UserTypes
<1>1. pc' \in {pc, WokenCalls} => Inside' = Inside
  BY <1>0 DEF Inside, WokenCalls
<1>2. held' = held => Taken' = Taken
  BY DEF Taken
<1>3. ASSUME NEW k \in Calls, Call(k)
      PROVE  /\ k \notin Inside /\ Inside' = Inside \cup {k}
             /\ Taken' = Taken /\ holds' = holds + 1
  BY <1>0, <1>2, <1>3 DEF Call, Inside, Reserve, userVars
<1>4. ASSUME NEW k \in Calls, CallRuns(k), Release(k)
      PROVE  /\ k \in Inside /\ Inside' = Inside \ {k}
             /\ Taken' = Taken /\ holds' = holds - 1
  BY <1>0, <1>2, <1>4 DEF CallRuns, Release, Inside, Unreserve, userVars
<1>5. ASSUME NEW k \in Calls, CallRuns(k), ~Release(k) PROVE Kept
  <2>1. holds' = holds /\ held' = held
    BY <1>5 DEF CallRuns, Enter, WakeUp, TryClaim, StartReuse, StartSpawn, BootRead, BootEof,
       DiscardExpected, StopExpected, Write, Leave, userVars
  <2>2. Inside' = Inside
    BY <1>0, <1>5 DEF CallRuns, Enter, WakeUp, TryClaim, StartReuse, StartSpawn, BootRead,
       BootEof, DiscardExpected, StopExpected, Write, Leave, Inside, WokenCalls, AfterReady
  <2> QED  BY <1>2, <2>1, <2>2
<1>6. ASSUME NEW j \in Jobs, StreamStep(j) PROVE Kept
  BY <1>1, <1>2, <1>6 DEF StreamStep, Advance, ReadLine, ReadEof, Observe, Yield, Abandon,
     Finish, userVars
<1>7. ASSUME NEW j \in Submits, Close(j) \/ CloseFinish(j) PROVE Kept
  BY <1>1, <1>2, <1>7 DEF Close, CloseFinish, Finish, userVars, callVars
<1>8. ASSUME NEW x \in Killers, Terminate(x) \/ KillRuns(x) PROVE Kept
  BY <1>1, <1>2, <1>8 DEF Terminate, KillRuns, Seize, StopVictim, userVars, callVars
<1>9. ASSUME NEW t \in Timers, TimerRuns(t) PROVE Kept
  BY <1>1, <1>2, <1>9 DEF TimerRuns, userVars, callVars
<1>10. ASSUME NEW p \in Procs, ChildStep(p) PROVE Kept
  BY <1>1, <1>2, <1>10 DEF ChildStep, transportVars, userVars, callVars
<1>11. Rest \/ UNCHANGED vars => Kept
  BY <1>1, <1>2 DEF Rest, vars, userVars, callVars
<1>12. ASSUME NEW on \in BOOLEAN, UserStep, ConfigureIdle(on) PROVE Kept
  BY <1>1, <1>2, <1>12 DEF UserStep, ConfigureIdle, callVars
<1>13. ASSUME NEW h \in Holds, UserStep, HoldIdle(h)
       PROVE  /\ h \notin Taken /\ Taken' = Taken \cup {h}
              /\ Inside' = Inside /\ holds' = holds + 1
  BY <1>0, <1>1, <1>13 DEF UserStep, HoldIdle, Reserve, Taken, callVars
<1>14. ASSUME NEW h \in Holds, UserStep, ReleaseHold(h)
       PROVE  /\ h \in Taken /\ Taken' = Taken \ {h}
              /\ Inside' = Inside /\ holds' = holds - 1
  BY <1>0, <1>1, <1>14 DEF UserStep, ReleaseHold, Unreserve, Taken, callVars
<1> HIDE DEF Kept
<1>15. UserStep => \/ Kept
                   \/ \E h \in Holds : UserStep /\ (HoldIdle(h) \/ ReleaseHold(h))
  BY <1>12 DEF UserStep
<1> QED
  BY <1>3, <1>4, <1>5, <1>6, <1>7, <1>8, <1>9, <1>10, <1>11, <1>13, <1>14, <1>15 DEF Next, Kept

LEMMA CountStep ==
    ASSUME HandleInv, CountInv, [Next]_vars
    PROVE  CountInv'
<1>0. /\ IsFiniteSet(Inside) /\ IsFiniteSet(Taken)
      /\ holds = Cardinality(Inside) + Cardinality(Taken)
  BY DEF CountInv, HoldsCounted, Inside, Taken
<1>1. Cardinality(Inside) \in Nat /\ Cardinality(Taken) \in Nat
  BY <1>0, FS_CardinalityType
<1>2. SUFFICES /\ IsFiniteSet(Inside') /\ IsFiniteSet(Taken')
               /\ holds' = Cardinality(Inside') + Cardinality(Taken')
  BY DEF CountInv, HoldsCounted, Inside, Taken
<1>3. ASSUME NEW S, NEW x, IsFiniteSet(S), x \notin S
      PROVE  IsFiniteSet(S \cup {x}) /\ Cardinality(S \cup {x}) = Cardinality(S) + 1
  BY <1>3, FS_AddElement, Zenon
<1>4. ASSUME NEW S, NEW x, IsFiniteSet(S), x \in S
      PROVE  IsFiniteSet(S \ {x}) /\ Cardinality(S \ {x}) = Cardinality(S) - 1
  BY <1>4, FS_RemoveElement, Zenon
<1>5. IsFiniteSet(Inside') /\ IsFiniteSet(Taken')
  BY <1>0, <1>3, <1>4, Reservations, ZenonT(60)
<1>6. ASSUME NEW k, k \notin Inside, Inside' = Inside \cup {k}, Taken' = Taken, holds' = holds + 1
      PROVE  holds' = Cardinality(Inside') + Cardinality(Taken')
  <2>1. Cardinality(Inside \cup {k}) = Cardinality(Inside) + 1
    BY <1>0, <1>3, <1>6
  <2> QED  BY <1>0, <1>1, <1>6, <2>1
<1>7. ASSUME NEW k, k \in Inside, Inside' = Inside \ {k}, Taken' = Taken, holds' = holds - 1
      PROVE  holds' = Cardinality(Inside') + Cardinality(Taken')
  <2>1. Cardinality(Inside \ {k}) = Cardinality(Inside) - 1
    BY <1>0, <1>4, <1>7
  <2> QED  BY <1>0, <1>1, <1>7, <2>1
<1>8. ASSUME NEW h, h \notin Taken, Taken' = Taken \cup {h}, Inside' = Inside, holds' = holds + 1
      PROVE  holds' = Cardinality(Inside') + Cardinality(Taken')
  <2>1. Cardinality(Taken \cup {h}) = Cardinality(Taken) + 1
    BY <1>0, <1>3, <1>8
  <2> QED  BY <1>0, <1>1, <1>8, <2>1
<1>9. ASSUME NEW h, h \in Taken, Taken' = Taken \ {h}, Inside' = Inside, holds' = holds - 1
      PROVE  holds' = Cardinality(Inside') + Cardinality(Taken')
  <2>1. Cardinality(Taken \ {h}) = Cardinality(Taken) - 1
    BY <1>0, <1>4, <1>9
  <2> QED  BY <1>0, <1>1, <1>9, <2>1
<1> QED  BY <1>0, <1>5, <1>6, <1>7, <1>8, <1>9, Reservations

LEMMA CountInit == Init => CountInv
<1> SUFFICES ASSUME Init PROVE CountInv
  OBVIOUS
<1>1. Inside = {} /\ Taken = {} /\ holds = 0
  BY DEF Init, Inside, Taken
<1>2. IsFiniteSet({}) /\ Cardinality({}) = 0
  BY FS_EmptySet
<1>3. HoldsCounted
  BY <1>1, <1>2 DEF HoldsCounted, Inside, Taken
<1> QED  BY <1>1, <1>2, <1>3 DEF CountInv

\* Inside a call, and while the application holds it, the worker is reserved.
LEMMA Reserved ==
    ASSUME CountInv
    PROVE  holds \in Nat /\ (Inside # {} \/ Taken # {} => holds > 0)
<1>0. /\ IsFiniteSet(Inside) /\ IsFiniteSet(Taken)
      /\ holds = Cardinality(Inside) + Cardinality(Taken)
  BY DEF CountInv, HoldsCounted, Inside, Taken
<1>1. Cardinality(Inside) \in Nat /\ Cardinality(Taken) \in Nat
  BY <1>0, FS_CardinalityType
<1>2. /\ Inside # {} => Cardinality(Inside) # 0
      /\ Taken # {} => Cardinality(Taken) # 0
  BY <1>0, FS_EmptySet
<1> QED  BY <1>0, <1>1, <1>2

LEMMA HandleAlways == Spec => []HandleInv
<1>1. Init => HandleInv
  BY PipeInit DEF PipeInv
<1>2. HandleInv /\ [Next]_vars => HandleInv'
  BY TypeStep, OwnerStep, HandedStep DEF HandleInv
<1> QED  BY <1>1, <1>2, PTL DEF Spec

\* The counter of reservations is the number of calls inside the transport and
\* of holds of the application, whatever each of them ran into.
THEOREM Counting == Spec => []HoldsCounted
<1>1. CountInv => HoldsCounted
  BY DEF CountInv
<1> QED  BY <1>1, CountInit, CountStep, HandleAlways, PTL DEF Spec

-----------------------------------------------------------------------------
(* The idle timer.                                                           *)

\* A timer thread that was not cancelled is the pending one, and no thread
\* was started with a generation that is still to come.
Dated ==
    \A t \in Timers : timer[t] # "none" =>
        timerGen[t] <= idleGen /\ (timerGen[t] = idleGen => idleTimer = t)

Idle == /\ idleOn /\ holds = 0 /\ ~Busy
        /\ process # None /\ info = "reclaim"

\* A pending timer is one that was not cancelled, and it waits for an idle
\* worker.
Pending ==
    idleTimer # None =>
        Idle /\ timer[idleTimer] # "none" /\ timerGen[idleTimer] = idleGen

\* A worker that a timer has claimed still has the offer it was armed for.
Offered == active \in Timers /\ process # None => info = "reclaim"

LEMMA TimerTyped ==
    ASSUME HandleInv
    PROVE  /\ idleTimer \in Timers \cup {None} /\ idleGen \in Nat
           /\ timer \in [Timers -> {"none", "armed", "fired"}]
           /\ timerGen \in [Timers -> Nat] /\ None \notin Timers
BY ConstantsAssumption DEF HandleInv, TypeInv, TypeOK, TimerTypes

\* Cancelling counts the generation on where that makes a difference.
LEMMA Later ==
    ASSUME HandleInv, Dated
    PROVE  NextGen \in Nat /\ \A t \in Timers : timer[t] # "none" => timerGen[t] < NextGen
<1>0. idleGen \in Nat /\ timerGen \in [Timers -> Nat]
  BY TimerTyped
<1>1. ASSUME NEW t \in Timers, timer[t] # "none" PROVE timerGen[t] < NextGen
  BY <1>0, <1>1 DEF Dated, NextGen
<1>2. NextGen \in Nat
  BY <1>0 DEF NextGen
<1> QED  BY <1>1, <1>2

\* What _cancel_idle_locked leaves.
LEMMA Cancelled ==
    ASSUME HandleInv, Dated, CancelIdle
    PROVE  Dated' /\ idleTimer' = None
<1>0. timerGen \in [Timers -> Nat] /\ timer \in [Timers -> {"none", "armed", "fired"}]
  BY TimerTyped
<1>1. idleTimer' = None /\ idleGen' = NextGen /\ timerGen' = timerGen
  BY DEF CancelIdle
<1>2. \A t \in Timers : timer'[t] # "none" => timer[t] # "none"
  BY DEF CancelIdle
<1>3. Dated'
  BY <1>0, <1>1, <1>2, Later DEF Dated
<1> QED  BY <1>1, <1>3

\* What _arm_idle_locked leaves: nothing has changed, or a new timer waits.
LEMMA ArmedIdle ==
    ASSUME HandleInv, Dated, ArmIdle
    PROVE  /\ Dated'
           /\ UNCHANGED timerVars \/ (idleTimer = None /\ MayArm /\ Pending')
<1>0. /\ idleTimer \in Timers \cup {None} /\ idleGen \in Nat
      /\ timer \in [Timers -> {"none", "armed", "fired"}]
      /\ timerGen \in [Timers -> Nat] /\ None \notin Timers
  BY TimerTyped
<1>1. CASE UNCHANGED timerVars
  BY <1>1 DEF Dated, timerVars
<1>2. CASE ~UNCHANGED timerVars
  <2>1. idleTimer = None /\ MayArm
    BY <1>2 DEF ArmIdle
  <2>2. PICK t \in Timers : /\ timer[t] = "none" /\ idleTimer' = t /\ idleGen' = idleGen
                            /\ timer' = [timer EXCEPT ![t] = "armed"]
                            /\ timerGen' = [timerGen EXCEPT ![t] = idleGen]
    BY <2>1 DEF ArmIdle
  <2>3. Dated'
    BY <1>0, <2>1, <2>2 DEF Dated
  <2>4. Pending'
    BY <1>0, <2>1, <2>2 DEF MayArm, Pending, Idle, Busy
  <2> QED  BY <2>1, <2>3, <2>4
<1> QED  BY <1>1, <1>2

\* The fields of the timers change in a section that cancels or arms one, and
\* by the steps of the timer threads.
LEMMA TimerMoves ==
    ASSUME HandleInv, [Next]_vars
    PROVE  \/ UNCHANGED timerVars \/ CancelIdle \/ ArmIdle
           \/ \E on \in BOOLEAN : UserStep /\ ConfigureIdle(on) /\ MayArm
           \/ \E t \in Timers : TimerRuns(t) /\ (Fire(t) \/ RunIdle(t))
<1> DEFINE Kept == UNCHANGED timerVars \/ CancelIdle \/ ArmIdle
<1>1. ASSUME NEW c \in Calls, Call(c) \/ CallRuns(c) PROVE Kept
  BY <1>1 DEF Call, CallRuns, Enter, WakeUp, TryClaim, StartReuse, StartSpawn, BootRead,
     BootEof, DiscardExpected, StopExpected, Write, Leave, Release, Reserve, Unreserve,
     DetachExpected, DetachProcess
<1>2. ASSUME NEW j \in Jobs, StreamStep(j) PROVE Kept
  BY <1>2 DEF StreamStep, Advance, ReadLine, ReadEof, Observe, Yield, Abandon, Finish,
     DetachExpected, DetachProcess
<1>3. ASSUME NEW j \in Submits, Close(j) \/ CloseFinish(j) PROVE Kept
  BY <1>3 DEF Close, CloseFinish, Finish, DetachProcess
<1>4. ASSUME NEW x \in Killers, Terminate(x) \/ KillRuns(x) PROVE Kept
  BY <1>4 DEF Terminate, KillRuns, Seize, StopVictim, DetachProcess
<1>5. ASSUME NEW t \in Timers, TimerRuns(t), ~(Fire(t) \/ RunIdle(t)) PROVE Kept
  BY <1>5 DEF TimerRuns, IdleWrite, timerVars
<1>6. ASSUME NEW q \in Procs, ChildStep(q) PROVE Kept
  BY <1>6 DEF ChildStep, transportVars
<1>7. Rest \/ UNCHANGED vars => Kept
  BY DEF Rest, vars
<1>8. UserStep => Kept \/ \E on \in BOOLEAN : UserStep /\ ConfigureIdle(on) /\ MayArm
  BY DEF UserStep, ConfigureIdle, HoldIdle, ReleaseHold, Reserve, Unreserve
<1> HIDE DEF Kept
<1>9. \/ Kept
      \/ \E on \in BOOLEAN : UserStep /\ ConfigureIdle(on) /\ MayArm
      \/ \E t \in Timers : TimerRuns(t) /\ (Fire(t) \/ RunIdle(t))
  BY <1>1, <1>2, <1>3, <1>4, <1>5, <1>6, <1>7, <1>8 DEF Next
<1> QED  BY <1>9 DEF Kept

\* A worker with a pending timer rests: only a new reservation and a loss of
\* the child disturb it, and both cancel the timer.
LEMMA IdleKept ==
    ASSUME HandleInv, CountInv, [Next]_vars, Idle, UNCHANGED timerVars, idleTimer # None
    PROVE  Idle'
<1> DEFINE Kept == UNCHANGED <<idleOn, holds, lockVars, process, info>>
<1>0. Inside = {} /\ Taken = {} /\ active = None /\ None \notin Jobs
  BY Reserved, Names DEF Idle, Busy
<1>00. ~CancelIdle /\ ~DetachProcess
  BY DEF CancelIdle, DetachProcess, timerVars
<1>000. \A c \in Calls : pc[c] \in {"new", "done"}
  BY <1>0 DEF Inside
<1>1. ASSUME NEW c \in Calls, Call(c) \/ CallRuns(c) PROVE FALSE
  BY <1>00, <1>000, <1>1 DEF Call, CallRuns, Enter, WakeUp, TryClaim, StartReuse, StartSpawn, BootRead,
     BootEof, DiscardExpected, StopExpected, Write, Leave, Release, Reserve
<1>2. ASSUME NEW j \in Jobs, StreamStep(j) PROVE Kept
  BY <1>0, <1>00, <1>2 DEF StreamStep, Advance, ReadLine, ReadEof, Observe, Yield, Abandon, Finish,
     DetachExpected, lockVars, procVars, userVars
<1>3. ASSUME NEW j \in Submits, Close(j) \/ CloseFinish(j) PROVE Kept
  BY <1>0, <1>3, Names DEF Close, CloseFinish, Finish, lockVars, procVars, userVars
<1>4. ASSUME NEW x \in Killers, Terminate(x) \/ KillRuns(x) PROVE Kept \/ Idle'
  BY <1>00, <1>4 DEF Terminate, KillRuns, Seize, StopVictim, lockVars, procVars, userVars, Idle, Busy
<1>5. ASSUME NEW t \in Timers, TimerRuns(t) PROVE Kept
  <2>1. ~RunIdle(t) \/ UNCHANGED active
    BY TimerTyped DEF RunIdle, timerVars
  <2> QED  BY <1>5, <2>1 DEF TimerRuns, Fire, RunIdle, IdleWrite, lockVars, procVars, userVars
<1>6. ASSUME NEW q \in Procs, ChildStep(q) PROVE Kept
  BY <1>6 DEF ChildStep, transportVars, procVars, userVars
<1>7. Rest \/ UNCHANGED vars => Kept
  BY DEF Rest, vars, procVars, userVars
<1>8. ASSUME UserStep PROVE Kept \/ Idle'
  <2>1. UNCHANGED <<lockVars, procVars>> /\ \A h \in Holds : held[h] # "held"
    BY <1>0, <1>8 DEF UserStep, Taken
  <2>2. PICK on \in BOOLEAN : ConfigureIdle(on) /\ MayArm
    BY <1>00, <1>8, <2>1 DEF UserStep, ConfigureIdle, HoldIdle, ReleaseHold, Reserve
  <2> QED  BY <2>2 DEF MayArm, Idle, Busy
<1>9. Kept => Idle'
  BY DEF Idle, Busy, lockVars
<1> HIDE DEF Kept
<1> QED  BY <1>1, <1>2, <1>3, <1>4, <1>5, <1>6, <1>7, <1>8, <1>9 DEF Next

\* configure_idle_cleanup cancels one timer and may arm another.
LEMMA Configured ==
    ASSUME HandleInv, Dated, NEW on, ConfigureIdle(on), MayArm
    PROVE  Dated' /\ Pending'
<1>0. /\ idleTimer \in Timers \cup {None} /\ None \notin Timers
      /\ timer \in [Timers -> {"none", "armed", "fired"}] /\ timerGen \in [Timers -> Nat]
  BY TimerTyped
<1>1. PICK t \in Timers :
         /\ idleTimer' = t /\ idleGen' = NextGen
         /\ timer' = [u \in Timers |-> IF u = t THEN "armed"
                                      ELSE IF u = idleTimer /\ timer[u] = "armed"
                                      THEN "none" ELSE timer[u]]
         /\ timerGen' = [timerGen EXCEPT ![t] = NextGen]
  BY DEF ConfigureIdle
<1>2. ASSUME NEW u \in Timers, u # t, timer'[u] # "none"
      PROVE  timerGen'[u] = timerGen[u] /\ timerGen[u] < NextGen
  <2>1. timer[u] # "none"
    BY <1>1, <1>2
  <2> QED  BY <1>0, <1>1, <1>2, <2>1, Later
<1>3. timerGen'[t] = NextGen /\ timer'[t] = "armed" /\ NextGen \in Nat
  BY <1>0, <1>1, Later
<1>4. \A u \in Timers : timerGen[u] \in Nat
  BY <1>0
<1>5. Dated'
  BY <1>1, <1>2, <1>3, <1>4 DEF Dated
<1>6. Pending'
  BY <1>1, <1>3 DEF MayArm, Pending, Idle, Busy
<1> QED  BY <1>5, <1>6

\* A timer thread that fires stays what it was; one that is over was the
\* pending timer, or had been cancelled and leaves the pending one alone.
LEMMA TimerOver ==
    ASSUME HandleInv, Dated, Pending, NEW t \in Timers, TimerRuns(t), Fire(t) \/ RunIdle(t)
    PROVE  Dated' /\ Pending'
<1>0. /\ idleTimer \in Timers \cup {None} /\ idleGen \in Nat /\ None \notin Timers
      /\ timer \in [Timers -> {"none", "armed", "fired"}] /\ timerGen \in [Timers -> Nat]
  BY TimerTyped
<1>1. UNCHANGED <<idleOn, holds, starting, terminating, process, info, idleGen>>
  BY DEF TimerRuns, userVars, procVars
<1>2. CASE Fire(t)
  <2>1. timer[t] = "armed" /\ timer' = [timer EXCEPT ![t] = "fired"]
        /\ UNCHANGED <<active, idleTimer, timerGen>>
    BY <1>2 DEF Fire
  <2>2. Dated'
    BY <1>0, <1>1, <2>1 DEF Dated
  <2>3. Pending'
    BY <1>0, <1>1, <2>1 DEF Pending, Idle, Busy
  <2> QED  BY <2>2, <2>3
<1>3. CASE RunIdle(t)
  <2>1. /\ timer[t] = "fired" /\ timer' = [timer EXCEPT ![t] = "none"]
        /\ timerGen' = [timerGen EXCEPT ![t] = 0]
        /\ idleTimer' = IF timerGen[t] = idleGen THEN None ELSE idleTimer
        /\ timerGen[t] # idleGen => active' = active
    BY <1>3 DEF RunIdle, Current
  <2>2. Dated'
    BY <1>0, <1>1, <2>1 DEF Dated
  <2>3. Pending'
    BY <1>0, <1>1, <2>1 DEF Pending, Idle, Busy
  <2> QED  BY <2>2, <2>3
<1> QED  BY <1>2, <1>3

LEMMA PendingStep ==
    ASSUME HandleInv, CountInv, Dated, Pending, [Next]_vars
    PROVE  Dated' /\ Pending'
<1>1. CASE UNCHANGED timerVars
  <2>1. Dated'
    BY <1>1 DEF Dated, timerVars
  <2>2. idleTimer' # None => Idle'
    BY <1>1, IdleKept DEF Pending, timerVars
  <2> QED  BY <1>1, <2>1, <2>2 DEF Pending, timerVars
<1>2. CASE CancelIdle
  BY <1>2, Cancelled DEF Pending
<1>3. CASE ArmIdle
  BY <1>1, <1>3, ArmedIdle
<1> QED  BY <1>1, <1>2, <1>3, TimerMoves, Configured, TimerOver

\* While a reclamation owns the worker, no startup touches the offer.
LEMMA OfferedStep ==
    ASSUME HandleInv, Dated, Pending, Offered, [Next]_vars
    PROVE  Offered'
<1> SUFFICES ASSUME active' \in Timers, process' # None PROVE info' = "reclaim"
  BY DEF Offered
<1>0. /\ active \in Jobs \cup {None} /\ starting \in Calls \cup {None} /\ None \notin Calls
      /\ Calls \cap Timers = {} /\ Timers \subseteq Jobs /\ Submits \subseteq Calls
      /\ None \notin Timers
  BY Typed, Names DEF HandleInv
<1>1. CASE active \in Timers /\ active' = active
  <2>1. ASSUME NEW k \in Calls, StartSpawn(k) PROVE FALSE
    BY <1>0, <1>1, <2>1 DEF StartSpawn, HandleInv, OneOwner, InStartup
  <2>2. ASSUME NEW k \in Calls, BootRead(k) PROVE info' = info
    BY <1>0, <1>1, <2>2 DEF BootRead, HandleInv, OneOwner, InStartup
  <2>3. process' = process /\ info = "reclaim"
    BY <1>0, <1>1, <2>1, ProcessMoves DEF Offered
  <2> QED  BY <2>1, <2>2, <2>3, InfoMoves
<1>2. CASE active' # active
  <2>1. PICK j \in Timers : TimerRuns(j) /\ RunIdle(j) /\ active' = j
    BY <1>0, <1>2, ActiveMoves DEF Takes, Ends
  <2>2. timer[j] = "fired" /\ Current(j) /\ UNCHANGED <<process, info>>
    BY <1>2, <2>1 DEF RunIdle, TimerRuns, procVars
  <2>3. idleTimer = j
    BY <2>2 DEF Dated, Current
  <2> QED  BY <1>0, <2>2, <2>3 DEF Pending, Idle
<1> QED  BY <1>1, <1>2

\* The inductive invariant of the idle timer.
IdleInv == HandleInv /\ CountInv /\ Dated /\ Pending /\ Offered

LEMMA IdleAlways == Spec => []IdleInv
<1>1. Init => IdleInv
  BY CountInit, PipeInit DEF IdleInv, PipeInv, Init, Dated, Pending, Offered, ConstantsAssumption
<1>2. IdleInv /\ [Next]_vars => IdleInv'
  BY TypeStep, OwnerStep, HandedStep, CountStep, PendingStep, OfferedStep DEF IdleInv, HandleInv
<1> QED  BY <1>1, <1>2, PTL DEF Spec

\* Whatever comes between its start and its interval, a pending idle timer
\* waits for a worker that is idle, not reserved and able to reclaim.
THEOREM Timing == Spec => []TimerMeansIdle
<1>1. IdleInv => TimerMeansIdle
  BY DEF IdleInv, Pending, Idle, Offered, TimerMeansIdle
<1> QED  BY <1>1, IdleAlways, PTL

-----------------------------------------------------------------------------
(* The caches a solve leaves behind.                                         *)

\* The exception: an event is observed by a stream that has lost the worker.
NeverStale == \A j \in Jobs : rpc[j] = "observing" => active = j

Lies(e, lines) == \E i \in 1..Len(lines) : lines[i] = e

\* Progress reports no cleanup.
PlainLine(e) == e.type = "progress" => e.cleanup = "none"
Plain ==
    /\ \A p \in Procs : \A e \in Event : Lies(e, outbox[p]) => PlainLine(e)
    /\ \A j \in Jobs : PlainLine(event[j])

\* Caches are those of a child that runs and has left its startup behind.
Caches == \A p \in Procs : retained[p] => alive[p] /\ ~Fresh(p) /\ ~Boots(p)

\* The last event of the submission that owns the worker, as long as it has
\* not been observed.
Unseen(e) ==
    /\ active # None /\ Terminal(e)
    /\ Lies(e, outbox[process]) \/ (rpc[active] = "observing" /\ e = event[active])

\* The submission that owns the worker was broken off: its child goes with it.
Broken == active # None /\ rpc[active] = "abandoning" /\ ~Terminal(event[active])

\* Caches of the attached child are marked, or will be when the last event
\* of the submission is observed.
Marked ==
    process # None /\ retained[process] /\ ~Broken =>
        /\ dirty \/ \E e \in Event : Unseen(e)
        /\ \A e \in Event : Unseen(e) => DirtyAfter(active, e)

\* A worker that may arm its timer has done so; one that is terminated has no
\* child.
Arms  == Idle /\ dirty
Armed == (Arms => idleTimer # None) /\ (terminating => process = None)

RetentionInv == Plain /\ Caches /\ Marked /\ Armed

LEMMA LinesTyped ==
    ASSUME NEW lines \in Seq(Event), NEW e, Lies(e, lines)
    PROVE  e \in Event
BY DEF Lies

LEMMA LiesTail ==
    ASSUME NEW lines \in Seq(Event), lines # << >>, NEW e
    PROVE  Lies(e, lines) <=> e = Head(lines) \/ Lies(e, Tail(lines))
<1>1. /\ Len(lines) \in Nat /\ Len(lines) >= 1 /\ Head(lines) = lines[1]
      /\ Len(Tail(lines)) = Len(lines) - 1
      /\ \A i \in 1..Len(Tail(lines)) : Tail(lines)[i] = lines[i + 1]
  OBVIOUS
<1>2. ASSUME NEW i \in 1..Len(lines), lines[i] = e, i # 1 PROVE Lies(e, Tail(lines))
  <2>1. i - 1 \in 1..Len(Tail(lines)) /\ (i - 1) + 1 = i
    BY <1>1, <1>2
  <2> QED  BY <1>1, <1>2, <2>1 DEF Lies
<1>3. ASSUME NEW i \in 1..Len(Tail(lines)), Tail(lines)[i] = e PROVE Lies(e, lines)
  <2>1. i + 1 \in 1..Len(lines)
    BY <1>1
  <2> QED  BY <1>1, <1>3, <2>1 DEF Lies
<1>4. 1 \in 1..Len(lines)
  BY <1>1
<1> QED  BY <1>1, <1>2, <1>3, <1>4 DEF Lies

LEMMA LiesAppend ==
    ASSUME NEW lines \in Seq(Event), NEW e, NEW x
    PROVE  Lies(e, Append(lines, x)) <=> e = x \/ Lies(e, lines)
<1>1. /\ Len(lines) \in Nat /\ Len(Append(lines, x)) = Len(lines) + 1
      /\ Append(lines, x)[Len(lines) + 1] = x
      /\ \A i \in 1..Len(lines) : Append(lines, x)[i] = lines[i]
  OBVIOUS
<1>2. Len(lines) + 1 \in 1..Len(Append(lines, x))
  BY <1>1
<1>3. \A i \in 1..Len(Append(lines, x)) : i \in 1..Len(lines) \/ i = Len(lines) + 1
  BY <1>1
<1>4. \A i \in 1..Len(lines) : i \in 1..Len(Append(lines, x))
  BY <1>1
<1> QED  BY <1>1, <1>2, <1>3, <1>4 DEF Lies

\* What an answer leaves in the child, and what it says of that.
LEMMA Answering ==
    ASSUME HandleInv, NEW p \in Procs, ChildAnswers(p)
    PROVE  \E j \in inbox[p] : \E e \in Event :
              /\ outbox'[p] = Append(outbox[p], e) /\ Terminal(e)
              /\ retained'[p] => \/ e.cleanup = "reuse"
                                 \/ /\ e.cleanup = "none" /\ e.type = "completed"
                                    /\ j \in Fields /\ retained[p]
<1>0. /\ inbox \in [Procs -> SUBSET Jobs] /\ outbox \in [Procs -> Seq(Event)]
      /\ retained \in [Procs -> BOOLEAN]
  BY Typed DEF HandleInv, TypeInv, TypeOK, ChildTypes
<1>1. PICK j \in inbox[p] : \E o \in Outcomes(Operation(j), retained[p]) :
          /\ retained' = [retained EXCEPT ![p] = o.keeps]
          /\ Emit(p, [type |-> o.type, job |-> j, cleanup |-> o.cleanup])
  BY DEF ChildAnswers
<1>2. PICK o \in Outcomes(Operation(j), retained[p]) :
          /\ retained' = [retained EXCEPT ![p] = o.keeps]
          /\ Emit(p, [type |-> o.type, job |-> j, cleanup |-> o.cleanup])
  BY <1>1
<1> DEFINE e == [type |-> o.type, job |-> j, cleanup |-> o.cleanup]
<1>3. outbox'[p] = Append(outbox[p], e) /\ retained'[p] = o.keeps
  BY <1>0, <1>2 DEF Emit
<1>4. /\ o.type \in {"completed", "cancelled", "failed"} /\ o.keeps \in BOOLEAN
      /\ o.cleanup \in {"none", "reuse", "full"}
  BY DEF Outcomes, Answer
<1>5. j \in Jobs /\ e \in Event
  BY <1>0, <1>4 DEF Event, OtherEvent
<1>6. o.keeps => \/ o.cleanup = "reuse"
                 \/ /\ Operation(j) = "bem_field" /\ o.keeps = retained[p]
                    /\ o.cleanup = "none" /\ o.type = "completed"
  BY <1>4 DEF Outcomes
<1>7. Operation(j) = "bem_field" => j \in Fields
  BY DEF Operation
<1>8. e.type = o.type /\ e.cleanup = o.cleanup /\ Terminal(e)
  BY <1>4 DEF Terminal
<1> HIDE DEF e
<1> QED  BY <1>3, <1>5, <1>6, <1>7, <1>8

\* Caches appear by an answer and go with the child.
LEMMA RetainedMoves ==
    ASSUME HandleInv, [Next]_vars, NEW p \in Procs, retained'[p]
    PROVE  (retained[p] /\ (alive[p] => alive'[p])) \/ (ChildStep(p) /\ ChildAnswers(p))
<1> DEFINE Same == retained'[p] = retained[p] /\ (alive[p] => alive'[p])
           Gone == retained'[p] = FALSE
<1>0. /\ alive \in [Procs -> BOOLEAN] /\ retained \in [Procs -> BOOLEAN] /\ Procs = Calls
  BY Typed, Names DEF HandleInv, TypeInv, TypeOK, ChildTypes
<1>1. ASSUME NEW q, Dead(q) PROVE Same \/ Gone
  BY <1>0, <1>1 DEF Dead
<1>2. ASSUME NEW j, NEW b, Finish(j, b) PROVE Same \/ Gone
  BY <1>1, <1>2 DEF Finish, childVars
<1>3. ASSUME NEW c \in Calls, Call(c) \/ CallRuns(c) PROVE Same \/ Gone
  BY <1>0, <1>1, <1>3 DEF Call, CallRuns, Enter, WakeUp, TryClaim, StartReuse, StartSpawn, BootRead,
     BootEof, DiscardExpected, StopExpected, Write, Leave, Release, childVars
<1>4. ASSUME NEW j \in Jobs, StreamStep(j) PROVE Same \/ Gone
  BY <1>2, <1>4 DEF StreamStep, Advance, ReadLine, ReadEof, Observe, Yield, Abandon, childVars
<1>5. ASSUME NEW j \in Submits, Close(j) \/ CloseFinish(j) PROVE Same \/ Gone
  BY <1>2, <1>5 DEF Close, CloseFinish, childVars
<1>6. ASSUME NEW x \in Killers, Terminate(x) \/ KillRuns(x) PROVE Same \/ Gone
  BY <1>1, <1>6 DEF Terminate, KillRuns, Seize, StopVictim, childVars
<1>7. ASSUME NEW t \in Timers, TimerRuns(t) PROVE Same
  BY <1>7 DEF TimerRuns
<1>8. ASSUME NEW q \in Procs, ChildStep(q)
      PROVE  Same \/ Gone \/ (q = p /\ ChildAnswers(q))
  BY <1>0, <1>1, <1>8 DEF ChildStep, ChildBoots, ChildProgress, ChildAnswers, ChildDies
<1>9. UserStep \/ Rest \/ UNCHANGED vars => Same
  BY DEF UserStep, Rest, vars, childVars
<1>10. Same \/ Gone \/ (ChildStep(p) /\ ChildAnswers(p))
  BY <1>3, <1>4, <1>5, <1>6, <1>7, <1>8, <1>9 DEF Next
<1> QED  BY <1>10

\* The mark changes when an event is observed, and falls when the child goes
\* or a new one is wanted.
LEMMA DirtyMoves ==
    ASSUME HandleInv, [Next]_vars, dirty' # dirty
    PROVE  \/ \E j \in Jobs : StreamStep(j) /\ Observe(j)
           \/ process' = None
           \/ \E k \in Calls : StartSpawn(k)
<1>1. ASSUME NEW c \in Calls, Call(c) \/ CallRuns(c), ~StartSpawn(c) PROVE process' = None
  BY <1>1 DEF Call, CallRuns, Enter, WakeUp, TryClaim, StartReuse, BootRead,
     BootEof, DiscardExpected, StopExpected, Write, Leave, Release, procVars, DetachExpected, DetachProcess
<1>2. ASSUME NEW j \in Jobs, StreamStep(j), ~Observe(j) PROVE process' = None
  BY <1>2 DEF StreamStep, Advance, ReadLine, ReadEof, Yield, Abandon, Finish,
     procVars, DetachExpected, DetachProcess
<1>3. ASSUME NEW j \in Submits, Close(j) \/ CloseFinish(j) PROVE process' = None
  BY <1>3 DEF Close, CloseFinish, procVars, Finish, DetachProcess
<1>4. ASSUME NEW x \in Killers, Terminate(x) \/ KillRuns(x) PROVE process' = None
  BY <1>4 DEF Terminate, KillRuns, Seize, StopVictim, procVars, DetachProcess
<1>5. ASSUME NEW t \in Timers, TimerRuns(t) PROVE FALSE
  BY <1>5 DEF TimerRuns, procVars
<1>6. ASSUME NEW q \in Procs, ChildStep(q) PROVE FALSE
  BY <1>6 DEF ChildStep, transportVars, procVars
<1>7. ~(UserStep \/ Rest \/ UNCHANGED vars)
  BY DEF UserStep, Rest, vars, procVars
<1> QED  BY <1>1, <1>2, <1>3, <1>4, <1>5, <1>6, <1>7 DEF Next

LEMMA PlainStep ==
    ASSUME PipeInv, Plain, [Next]_vars
    PROVE  Plain'
<1>0. /\ HandleInv /\ inbox \in [Procs -> SUBSET Jobs] /\ outbox \in [Procs -> Seq(Event)]
      /\ jproc \in [Jobs -> Procs \cup {None}] /\ event \in [Jobs -> Event]
      /\ \A j \in Jobs : rpc[j] \notin {"none", "closed"} => jproc[j] \in Procs
  BY Typed DEF PipeInv
<1>1. ASSUME NEW p \in Procs, NEW e \in Event, Lies(e, outbox'[p])
      PROVE  PlainLine(e)
  <2>0. outbox[p] \in Seq(Event) /\ \A x \in Event : Lies(x, outbox[p]) => PlainLine(x)
    BY <1>0 DEF Plain
  <2>1. CASE outbox'[p] = outbox[p]
    BY <1>1, <2>0, <2>1
  <2>2. CASE outbox[p] # << >> /\ outbox'[p] = Tail(outbox[p])
    BY <1>1, <2>0, <2>2, LiesTail
  <2>3. ASSUME NEW x, outbox'[p] = Append(outbox[p], x), PlainLine(x) PROVE PlainLine(e)
    <3>1. e = x \/ Lies(e, outbox[p])
      BY <1>1, <2>0, <2>3, LiesAppend
    <3> QED  BY <2>0, <2>3, <3>1
  <2>4. BootRead(p) => outbox[p] # << >> /\ outbox'[p] = Tail(outbox[p])
    BY <1>0 DEF BootRead
  <2>5. ASSUME NEW j \in Jobs, ReadLine(j), jproc[j] = p
        PROVE  outbox[p] # << >> /\ outbox'[p] = Tail(outbox[p])
    BY <1>0, <2>5 DEF ReadLine
  <2>6. ChildBoots(p) => \E x : outbox'[p] = Append(outbox[p], x) /\ PlainLine(x)
    <3>1. ASSUME NEW a, Emit(p, [type |-> "ready", job |-> None, cleanup |-> a])
          PROVE  \E x : outbox'[p] = Append(outbox[p], x) /\ PlainLine(x)
      <4> DEFINE x == [type |-> "ready", job |-> None, cleanup |-> a]
      <4>1. PlainLine(x) /\ outbox'[p] = Append(outbox[p], x)
        BY <1>0, <3>1 DEF Emit, PlainLine
      <4> QED  BY <4>1
    <3>2. ASSUME Emit(p, [type |-> "failed", job |-> None, cleanup |-> "none"])
          PROVE  \E x : outbox'[p] = Append(outbox[p], x) /\ PlainLine(x)
      <4> DEFINE x == [type |-> "failed", job |-> None, cleanup |-> "none"]
      <4>1. PlainLine(x) /\ outbox'[p] = Append(outbox[p], x)
        BY <1>0, <3>2 DEF Emit, PlainLine
      <4> QED  BY <4>1
    <3> QED  BY <3>1, <3>2 DEF ChildBoots
  <2>7. ChildProgress(p) => \E x : outbox'[p] = Append(outbox[p], x) /\ PlainLine(x)
    <3>1. ASSUME NEW j, Emit(p, [type |-> "progress", job |-> j, cleanup |-> "none"])
          PROVE  \E x : outbox'[p] = Append(outbox[p], x) /\ PlainLine(x)
      <4> DEFINE x == [type |-> "progress", job |-> j, cleanup |-> "none"]
      <4>1. PlainLine(x) /\ outbox'[p] = Append(outbox[p], x)
        BY <1>0, <3>1 DEF Emit, PlainLine
      <4> QED  BY <4>1
    <3> QED  BY <3>1 DEF ChildProgress
  <2>8. ChildAnswers(p) => \E x : outbox'[p] = Append(outbox[p], x) /\ PlainLine(x)
    <3>1. \A x : Terminal(x) => PlainLine(x)
      BY DEF Terminal, PlainLine
    <3> QED  BY <1>0, <3>1, Answering
  <2> QED  BY <1>0, <2>1, <2>2, <2>3, <2>4, <2>5, <2>6, <2>7, <2>8, OutboxMoves
<1>2. ASSUME NEW j \in Jobs PROVE PlainLine(event'[j])
  <2>1. PlainLine(event[j]) /\ PlainLine(NoEvent)
    BY DEF Plain, PlainLine, NoEvent
  <2>2. CASE StreamStep(j)
    <3>1. CASE ReadLine(j)
      <4>1. event'[j] = event[j] \/ event'[j] = Head(outbox[jproc[j]])
        BY <1>0, <3>1 DEF ReadLine
      <4>2. jproc[j] \in Procs /\ outbox[jproc[j]] # << >> /\ outbox[jproc[j]] \in Seq(Event)
        BY <1>0, <3>1 DEF ReadLine
      <4>3. Lies(Head(outbox[jproc[j]]), outbox[jproc[j]])
        BY <4>2, LiesTail
      <4>4. Head(outbox[jproc[j]]) \in Event
        BY <4>2, <4>3, LinesTyped
      <4> QED  BY <2>1, <4>1, <4>2, <4>3, <4>4 DEF Plain
    <3>2. CASE ~ReadLine(j)
      BY <1>0, <2>1, <2>2, <3>2 DEF StreamStep, Advance, ReadEof, Observe, Yield, Abandon
    <3> QED  BY <3>1, <3>2
  <2>3. CASE Takes(j)
    BY <2>1, <2>3, Taking
  <2>4. CASE TimerRuns(j) /\ IdleWrite(j)
    BY <2>1, <2>4 DEF IdleWrite
  <2> QED  BY <1>0, <2>1, <2>2, <2>3, <2>4, StreamMoves
<1> QED  BY <1>1, <1>2 DEF Plain

LEMMA CachesStep ==
    ASSUME PipeInv, Caches, [Next]_vars
    PROVE  Caches'
<1> SUFFICES ASSUME NEW p \in Procs, retained'[p]
             PROVE  alive'[p] /\ ~Fresh(p)' /\ ~Boots(p)'
  BY DEF Caches
<1>0. HandleInv /\ Procs = Calls /\ Unread
  BY Names DEF PipeInv
<1>1. alive[p] /\ alive'[p] /\ ~Fresh(p) /\ ~Boots(p)
  <2>1. CASE retained[p] /\ (alive[p] => alive'[p])
    BY <2>1 DEF Caches
  <2>2. CASE ChildAnswers(p)
    BY <1>0, <2>2 DEF ChildAnswers, Unread
  <2> QED  BY <1>0, <2>1, <2>2, RetainedMoves
<1>2. StartSpawn(p) => Fresh(p)
  BY DEF StartSpawn, Fresh
<1> QED  BY <1>0, <1>1, <1>2, Stages

\* Nothing but the end of an owner, of a reservation or of a configuration
\* lets a worker arm its timer, and each of them looks whether it may.
LEMMA ArmsMoves ==
    ASSUME IdleInv, PipeInv, NeverStale, Armed, [Next]_vars, UNCHANGED timerVars, Arms'
    PROVE  Arms
<1>0. /\ HandleInv /\ CountInv /\ active \in Jobs \cup {None} /\ None \notin Jobs
      /\ active' = None
  BY Typed, Names DEF IdleInv, Arms, Idle, Busy
<1>1. ASSUME idleTimer = None, ArmIdle PROVE FALSE
  <2>1. MayArm
    BY DEF Arms, Idle, Busy, MayArm
  <2>2. None \notin Timers
    BY ConstantsAssumption
  <2> QED  BY <1>1, <2>1, <2>2 DEF ArmIdle, timerVars
<1>2. CASE idleTimer # None
  <2>1. Idle
    BY <1>2 DEF IdleInv, Pending
  <2>2. dirty
    <3>1. ASSUME NEW j \in Jobs, Observe(j) PROVE FALSE
      BY <1>0, <2>1, <3>1 DEF Observe, NeverStale, Idle, Busy
    <3>2. ASSUME NEW k \in Calls, StartSpawn(k) PROVE FALSE
      BY <3>2 DEF StartSpawn, Arms, Idle
    <3> QED  BY <1>0, <3>1, <3>2, DirtyMoves DEF Arms, Idle
  <2> QED  BY <2>1, <2>2 DEF Arms
<1>3. CASE idleTimer = None
  <2> DEFINE Same == UNCHANGED <<idleOn, holds, lockVars, procVars>>
  <2>1. ~ArmIdle /\ ~DetachProcess
    BY <1>1, <1>3 DEF DetachProcess, Arms, Idle
  <2>2. holds' = 0 /\ process' # None /\ dirty' /\ info' = "reclaim"
    BY DEF Arms, Idle
  <2>3. ASSUME NEW c \in Calls, Call(c) \/ CallRuns(c) PROVE FALSE
    <3>1. CASE Call(c)
      BY <1>0, <2>2, <3>1, Reserved DEF Call, Reserve
    <3>2. CASE CallRuns(c)
      <4>1. c \in Inside
        BY <3>2 DEF CallRuns, Enter, WakeUp, StartReuse, StartSpawn, BootRead, BootEof,
           DiscardExpected, StopExpected, Write, Leave, Release, Inside
      <4>2. holds # 0
        BY <1>0, <4>1, Reserved
      <4> QED
        BY <2>1, <2>2, <3>2, <4>2 DEF CallRuns, Enter, WakeUp, TryClaim, StartReuse, StartSpawn,
           BootRead, BootEof, DiscardExpected, StopExpected, Write, Leave, Release, Unreserve
    <3> QED  BY <2>3, <3>1, <3>2
  <2>4. ASSUME NEW j \in Jobs, StreamStep(j) PROVE Same
    <3>1. ASSUME NEW b, Finish(j, b) PROVE UNCHANGED <<active, procVars>>
      BY <2>1, <3>1 DEF Finish
    <3>2. ~Observe(j)
      BY <1>0 DEF Observe, NeverStale
    <3> QED  BY <2>1, <2>4, <3>1, <3>2 DEF StreamStep, Advance, ReadLine, ReadEof, Yield, Abandon,
                DetachExpected, lockVars, userVars
  <2>5. ASSUME NEW j \in Submits, Close(j) \/ CloseFinish(j) PROVE Same
    BY <2>1, <2>5 DEF Close, CloseFinish, Finish, lockVars, userVars
  <2>6. ASSUME NEW x \in Killers, Terminate(x) \/ KillRuns(x) PROVE Same \/ Arms
    <3>1. CASE StopVictim(x) /\ terminating
      BY <2>2, <3>1 DEF StopVictim, procVars, Armed
    <3>2. CASE StopVictim(x) /\ ~terminating
      BY <2>6, <3>2 DEF StopVictim, procVars, KillRuns, userVars, Terminate, Arms, Idle, Busy
    <3>3. CASE ~StopVictim(x)
      BY <2>1, <2>6, <3>3 DEF Terminate, KillRuns, Seize, userVars
    <3> QED  BY <3>1, <3>2, <3>3
  <2>7. ASSUME NEW t \in Timers, TimerRuns(t) PROVE Same \/ Arms
    <3>1. ~(RunIdle(t) /\ active' # active)
      BY <1>0, ConstantsAssumption DEF RunIdle
    <3> QED  BY <2>7, <3>1 DEF TimerRuns, Fire, RunIdle, IdleWrite, lockVars, userVars
  <2>8. ASSUME NEW q \in Procs, ChildStep(q) PROVE Same
    BY <2>8 DEF ChildStep, transportVars, userVars
  <2>9. Rest \/ UNCHANGED vars => Same
    BY DEF Rest, vars, userVars
  <2>10. ~UserStep \/ Same
    <3>1. ASSUME NEW on, ConfigureIdle(on) PROVE FALSE
      BY <1>3, <2>2, <3>1, ConstantsAssumption DEF ConfigureIdle, Arms, Idle, Busy, MayArm, timerVars
    <3>2. ASSUME NEW h \in Holds, HoldIdle(h) PROVE FALSE
      BY <1>0, <2>2, <3>2, Reserved DEF HoldIdle, Reserve
    <3>3. ASSUME NEW h \in Holds, ReleaseHold(h) PROVE FALSE
      BY <2>1, <3>3 DEF ReleaseHold, Unreserve
    <3> QED  BY <3>1, <3>2, <3>3 DEF UserStep
  <2>11. Same => Arms
    BY DEF Arms, Idle, Busy, lockVars, procVars
  <2> HIDE DEF Same
  <2> QED  BY <2>3, <2>4, <2>5, <2>6, <2>7, <2>8, <2>9, <2>10, <2>11 DEF Next
<1> QED  BY <1>2, <1>3

\* A timer is cancelled where a reservation is taken or held, where the child
\* is lost, and by a configuration.
LEMMA CancelSections ==
    ASSUME HandleInv, CountInv, [Next]_vars, CancelIdle, ~UNCHANGED timerVars
    PROVE  \/ holds' # 0 \/ process' = None \/ ArmIdle
           \/ \E on \in BOOLEAN : ConfigureIdle(on)
           \/ \E t \in Timers : TimerRuns(t) /\ (Fire(t) \/ RunIdle(t))
<1>1. ASSUME NEW c \in Calls, Call(c) \/ CallRuns(c)
      PROVE  holds' # 0 \/ process' = None \/ ArmIdle
  <2>1. CASE Call(c)
    BY <2>1, Reserved DEF Call, Reserve
  <2>2. CASE CallRuns(c)
    <3>1. c \in Inside
      BY <2>2 DEF CallRuns, Enter, WakeUp, StartReuse, StartSpawn, BootRead, BootEof,
         DiscardExpected, StopExpected, Write, Leave, Release, Inside
    <3> QED
      BY <2>2, <3>1, Reserved DEF CallRuns, Enter, WakeUp, TryClaim, StartReuse, StartSpawn,
         BootRead, BootEof, DiscardExpected, StopExpected, Write, Leave, Release, Unreserve,
         DetachExpected, DetachProcess
  <2> QED  BY <1>1, <2>1, <2>2
<1>2. ASSUME NEW j \in Jobs, StreamStep(j) PROVE process' = None \/ ArmIdle
  BY <1>2 DEF StreamStep, Advance, ReadLine, ReadEof, Observe, Yield, Abandon, Finish,
     DetachExpected, DetachProcess
<1>3. ASSUME NEW j \in Submits, Close(j) \/ CloseFinish(j) PROVE process' = None \/ ArmIdle
  BY <1>3 DEF Close, CloseFinish, Finish, DetachProcess
<1>4. ASSUME NEW x \in Killers, Terminate(x) \/ KillRuns(x) PROVE process' = None
  BY <1>4 DEF Terminate, KillRuns, Seize, StopVictim, DetachProcess
<1>5. ASSUME NEW q \in Procs, ChildStep(q) PROVE FALSE
  BY <1>5 DEF ChildStep, transportVars
<1>6. ~(Rest \/ UNCHANGED vars)
  BY DEF Rest, vars
<1>7. UserStep => holds' # 0 \/ ArmIdle \/ \E on \in BOOLEAN : ConfigureIdle(on)
  BY Reserved DEF UserStep, HoldIdle, ReleaseHold, Reserve, Unreserve
<1>8. ASSUME NEW t \in Timers, TimerRuns(t) PROVE Fire(t) \/ RunIdle(t)
  BY <1>8 DEF TimerRuns, IdleWrite, timerVars
<1> QED  BY <1>1, <1>2, <1>3, <1>4, <1>5, <1>6, <1>7, <1>8 DEF Next

LEMMA TerminatingMoves ==
    ASSUME HandleInv, [Next]_vars, terminating', ~terminating
    PROVE  process' = None
<1>1. ASSUME NEW c \in Calls, Call(c) \/ CallRuns(c) PROVE FALSE
  BY <1>1 DEF Call, CallRuns, Enter, WakeUp, TryClaim, StartReuse, StartSpawn, BootRead,
     BootEof, DiscardExpected, StopExpected, Write, Leave, Release, lockVars
<1>2. ASSUME NEW j \in Jobs, StreamStep(j) PROVE FALSE
  BY <1>2 DEF StreamStep
<1>3. ASSUME NEW j \in Submits, Close(j) \/ CloseFinish(j) PROVE FALSE
  BY <1>3 DEF Close, CloseFinish, lockVars
<1>4. ASSUME NEW x \in Killers, Terminate(x) \/ KillRuns(x) PROVE process' = None
  BY <1>4 DEF Terminate, KillRuns, Seize, StopVictim, lockVars, DetachProcess
<1>5. ASSUME NEW t \in Timers, TimerRuns(t) PROVE FALSE
  BY <1>5 DEF TimerRuns
<1>6. ASSUME NEW q \in Procs, ChildStep(q) PROVE FALSE
  BY <1>6 DEF ChildStep, transportVars, lockVars
<1>7. ~(UserStep \/ Rest \/ UNCHANGED vars)
  BY DEF UserStep, Rest, vars, lockVars
<1> QED  BY <1>1, <1>2, <1>3, <1>4, <1>5, <1>6, <1>7 DEF Next

LEMMA ArmedStep ==
    ASSUME IdleInv, PipeInv, NeverStale, Armed, [Next]_vars
    PROVE  Armed'
<1>0. /\ HandleInv /\ CountInv /\ Dated /\ Pending /\ None \notin Timers /\ OneOwner
  BY ConstantsAssumption DEF IdleInv, HandleInv
<1>1. ASSUME Arms' PROVE idleTimer' # None
  <2>0. MayArm
    BY <1>1 DEF Arms, Idle, Busy, MayArm
  <2>1. CASE UNCHANGED timerVars
    BY <1>1, <2>1, ArmsMoves DEF Armed, timerVars
  <2>2. CASE ArmIdle
    BY <1>0, <2>0, <2>2 DEF ArmIdle, timerVars
  <2>3. ASSUME NEW on \in BOOLEAN, ConfigureIdle(on) PROVE idleTimer' # None
    BY <1>0, <2>0, <2>3 DEF ConfigureIdle
  <2>4. ASSUME NEW t \in Timers, TimerRuns(t), Fire(t) PROVE idleTimer' # None
    BY <1>1, <2>4 DEF Fire, TimerRuns, Armed, Arms, Idle, Busy, userVars, procVars
  <2>5. ASSUME NEW t \in Timers, TimerRuns(t), RunIdle(t) PROVE idleTimer' # None
    <3>1. /\ UNCHANGED <<idleOn, holds, starting, terminating, process, info, dirty>>
          /\ active' = None
      BY <1>1, <2>5 DEF TimerRuns, userVars, procVars, Arms, Idle, Busy
    <3>2. active' = active
      BY <1>0, <2>5, <3>1 DEF RunIdle
    <3>3. Arms
      BY <1>1, <3>1, <3>2 DEF Arms, Idle, Busy
    <3>4. ~Current(t)
      BY <1>0, <2>5, <3>1, <3>3 DEF RunIdle, Arms, Idle
    <3> QED  BY <2>5, <3>3, <3>4 DEF RunIdle, Armed
  <2>6. CASE CancelIdle /\ ~UNCHANGED timerVars
    <3>1. holds' = 0 /\ process' # None
      BY <1>1 DEF Arms, Idle
    <3> QED  BY <1>0, <2>2, <2>3, <2>4, <2>5, <2>6, <3>1, CancelSections
  <2> QED  BY <1>0, <2>1, <2>2, <2>3, <2>4, <2>5, <2>6, TimerMoves
<1>2. ASSUME terminating' PROVE process' = None
  <2>1. CASE terminating
    <3>1. ASSUME NEW k \in Calls, StartSpawn(k) PROVE FALSE
      BY <1>0, <2>1, <3>1, Names DEF StartSpawn, OneOwner, InStartup
    <3> QED  BY <1>0, <2>1, <3>1, ProcessMoves DEF Armed
  <2>2. CASE ~terminating
    BY <1>0, <1>2, <2>2, TerminatingMoves
  <2> QED  BY <2>1, <2>2
<1> QED  BY <1>1, <1>2 DEF Armed

\* While the submission goes on, its last event is unseen until it is observed.
LEMMA MarkedOn ==
    ASSUME PipeInv, Plain, Caches, NeverStale, EventsStayWithTheirJob, Marked, [Next]_vars,
           NEW p \in Procs, process = p, process' = p, active' = active,
           retained[p], retained'[p], ~(ChildStep(p) /\ ChildAnswers(p)), ~Broken', ~Broken
    PROVE  /\ dirty' \/ \E e \in Event : Unseen(e)'
           /\ \A e \in Event : Unseen(e)' => DirtyAfter(active, e)'
<1> DEFINE Same == dirty' = dirty /\ \A e \in Event : Unseen(e)' <=> Unseen(e)
<1>0. /\ HandleInv /\ Mine /\ Attached /\ Stale /\ Pipe /\ Quiet /\ Accepted /\ Startup
      /\ active \in Jobs \cup {None} /\ None \notin Jobs \cup Procs /\ Procs = Calls
      /\ outbox \in [Procs -> Seq(Event)] /\ rpc \in [Jobs -> RpcStates]
      /\ jproc \in [Jobs -> Procs \cup {None}] /\ event \in [Jobs -> Event]
      /\ invalidated \in [Jobs -> BOOLEAN]
      /\ Timers \subseteq Jobs /\ starting \in Calls \cup {None}
  BY Typed, Names DEF PipeInv
<1>1. p \in Running /\ ~Fresh(p) /\ ~Boots(p)
  BY <1>0 DEF Caches, Running
<1>2. ~BootingNow /\ booted[p]
  BY <1>0, <1>1 DEF Startup, BootingNow, Accepted
<1>3. \A k \in Calls : ~StartSpawn(k)
  BY <1>1 DEF StartSpawn
<1>4. Same => /\ dirty' \/ \E e \in Event : Unseen(e)'
              /\ \A e \in Event : Unseen(e)' => DirtyAfter(active, e)'
  <2> SUFFICES ASSUME Same
               PROVE  /\ dirty' \/ \E e \in Event : Unseen(e)'
                      /\ \A e \in Event : Unseen(e)' => DirtyAfter(active, e)'
    OBVIOUS
  <2>1. \A e \in Event : Unseen(e)' <=> Unseen(e)
    OBVIOUS
  <2>2. \A e \in Event : DirtyAfter(active, e)' <=> DirtyAfter(active, e)
    BY DEF DirtyAfter, Terminal
  <2>3. dirty \/ \E e \in Event : Unseen(e)
    BY <1>0 DEF Marked
  <2>4. \A e \in Event : Unseen(e) => DirtyAfter(active, e)
    BY <1>0 DEF Marked
  <2> HIDE DEF Unseen, Same
  <2> QED  BY <2>1, <2>2, <2>3, <2>4 DEF Same
<1>5. CASE active = None
  <2>1. \A j \in Jobs : ~Observe(j)
    BY <1>0, <1>5 DEF NeverStale, Observe
  <2>2. dirty' = dirty
    BY <1>0, <1>3, <2>1, DirtyMoves
  <2> QED  BY <1>4, <1>5, <2>2 DEF Unseen
<1>6. ASSUME NEW a \in Jobs, active = a, StreamStep(a), Observe(a)
      PROVE  /\ dirty' \/ \E e \in Event : Unseen(e)'
             /\ \A e \in Event : Unseen(e)' => DirtyAfter(active, e)'
  <2>1. /\ rpc[a] = "observing" /\ rpc'[a] = "yielded" /\ event' = event /\ outbox' = outbox
        /\ dirty' = DirtyAfter(a, event[a]) /\ event[a] \in Event
    BY <1>0, <1>6 DEF Observe, childVars
  <2>2. CASE Terminal(event[a])
    <3>1. Unseen(event[a])
      BY <1>0, <1>6, <2>1, <2>2 DEF Unseen
    <3>2. dirty'
      BY <1>0, <1>6, <2>1, <3>1 DEF Marked
    <3>3. outbox[p] = << >>
      BY <1>0, <1>6, <2>1, <2>2 DEF Pipe, Attached, Finished, Empty
    <3>4. \A e \in Event : ~Unseen(e)'
      BY <1>0, <1>6, <2>1, <3>3 DEF Unseen, Lies
    <3> QED  BY <3>2, <3>4
  <2>3. CASE ~Terminal(event[a])
    <3>1. event[a].job = a
      BY <2>1 DEF EventsStayWithTheirJob
    <3>2. event[a].type = "progress"
      BY <1>0, <2>1, <2>3, <3>1 DEF Event, ReadyEvent, OtherEvent, Terminal
    <3>3. event[a].cleanup = "none"
      BY <3>2 DEF Plain, PlainLine
    <3>4. dirty' = dirty
      <4>1. dirty \in BOOLEAN
        BY <1>0 DEF HandleInv, TypeInv, TypeOK, ProcTypes
      <4> QED  BY <2>1, <3>2, <3>3, <4>1 DEF DirtyAfter
    <3>5. \A e \in Event : Unseen(e)' <=> Unseen(e)
      BY <1>0, <1>6, <2>1, <2>3 DEF Unseen, Terminal
    <3> QED  BY <1>4, <3>4, <3>5
  <2> QED  BY <2>2, <2>3
<1>7. ASSUME NEW a \in Jobs, active = a, ~(StreamStep(a) /\ Observe(a)) PROVE Same
  <2>1. dirty' = dirty
    <3>1. \A j \in Jobs : Observe(j) => j = a
      BY <1>7 DEF NeverStale, Observe
    <3> QED  BY <1>0, <1>3, <1>7, <3>1, DirtyMoves
  <2>2. jproc[a] = p /\ \A j \in Jobs : ~Takes(j)
    BY <1>0, <1>7 DEF Attached, Takes
  <2>3. ASSUME StreamStep(a), ReadLine(a)
        PROVE  \A e \in Event : Unseen(e)' <=> Unseen(e)
    <3>1. /\ outbox[p] # << >> /\ outbox'[p] = Tail(outbox[p]) /\ rpc[a] = "reading"
          /\ outbox[p] \in Seq(Event) /\ ~Terminal(event[a])
      BY <1>0, <2>2, <2>3 DEF ReadLine, Mine
    <3>2. rpc'[a] = "observing" /\ event'[a] = Head(outbox[p])
      BY <1>0, <1>7, <2>2, <2>3, <3>1 DEF ReadLine, Broken, Terminal
    <3>3. \A e \in Event : Lies(e, outbox[p]) <=> e = Head(outbox[p]) \/ Lies(e, Tail(outbox[p]))
      BY <3>1, LiesTail
    <3> QED  BY <1>0, <1>7, <3>1, <3>2, <3>3 DEF Unseen, Terminal
  <2>4. ASSUME ~(StreamStep(a) /\ ReadLine(a))
        PROVE  \A e \in Event : Unseen(e)' <=> Unseen(e)
    <3>1. \A e \in Event : Terminal(e) => (Lies(e, outbox'[p]) <=> Lies(e, outbox[p]))
      <4>1. CASE outbox'[p] = outbox[p]
        BY <4>1
      <4>2. CASE outbox'[p] # outbox[p]
        <5>1. ASSUME NEW j \in Jobs, ReadLine(j), jproc[j] = p PROVE j = a
          BY <1>0, <1>7, <5>1 DEF Stale, ReadLine
        <5>2. ~BootRead(p)
          BY <1>1 DEF BootRead, Boots
        <5>3. ChildProgress(p)
          BY <1>0, <1>2, <2>4, <4>2, <5>1, <5>2, OutboxMoves DEF ChildBoots
        <5>4. PICK j : Emit(p, [type |-> "progress", job |-> j, cleanup |-> "none"])
          BY <5>3 DEF ChildProgress
        <5> DEFINE x == [type |-> "progress", job |-> j, cleanup |-> "none"]
        <5>5. outbox'[p] = Append(outbox[p], x) /\ ~Terminal(x) /\ outbox[p] \in Seq(Event)
          BY <1>0, <5>4 DEF Emit, Terminal
        <5> HIDE DEF x
        <5> QED  BY <5>5, LiesAppend
      <4> QED  BY <4>1, <4>2
    <3>2. \A e \in Event : rpc'[a] = "observing" /\ e = event'[a]
                           <=> rpc[a] = "observing" /\ e = event[a]
      <4>1. CASE rpc'[a] = rpc[a] /\ event'[a] = event[a]
        BY <4>1
      <4>2. CASE StreamStep(a)
        BY <1>0, <1>7, <2>4, <4>2 DEF StreamStep, Advance, ReadEof, Yield, Abandon
      <4>3. CASE TimerRuns(a) /\ IdleWrite(a)
        BY <1>0, <4>3 DEF IdleWrite
      <4> QED  BY <1>0, <2>2, <4>1, <4>2, <4>3, StreamMoves
    <3> QED  BY <1>0, <1>7, <3>1, <3>2 DEF Unseen, Terminal
  <2> QED  BY <2>1, <2>3, <2>4
<1> QED  BY <1>0, <1>4, <1>5, <1>6, <1>7

\* A worker that is let go of with its child has observed the last event.
LEMMA MarkedOff ==
    ASSUME PipeInv, Marked, NEW a \in Jobs, Ends(a), process' # None, process \in Procs,
           retained[process]
    PROVE  dirty /\ ~Broken /\ process' = process /\ dirty' = dirty
<1>0. /\ HandleInv /\ Mine /\ Attached /\ Pipe /\ active = a /\ a # None /\ process # None
      /\ Submits \subseteq Jobs
  BY Names DEF PipeInv, Ends
<1>1. ASSUME NEW b, Finish(a, b) PROVE ~b /\ process' = process /\ dirty' = dirty
  BY <1>0, <1>1 DEF Finish, Discards, DetachProcess, procVars
<1>2. ASSUME NEW x \in Killers, Seize(x) PROVE FALSE
  BY <1>0, <1>2 DEF Seize, DetachProcess, Ends, lockVars
<1>3. Finished(a) /\ ~Broken /\ rpc[a] # "observing" /\ process' = process /\ dirty' = dirty
  <2>1. CASE Abandon(a)
    BY <1>0, <1>1, <2>1 DEF Abandon, Finished, Broken
  <2>2. CASE a \in Submits /\ CloseFinish(a)
    BY <1>0, <1>1, <2>2 DEF CloseFinish, Finished, Broken, Mine
  <2> QED  BY <1>2, <2>1, <2>2 DEF Ends
<1>4. outbox[process] = << >>
  BY <1>0, <1>3 DEF Pipe, Attached, Empty
<1>5. \A e \in Event : ~Unseen(e)
  BY <1>0, <1>3, <1>4 DEF Unseen, Lies
<1> QED  BY <1>0, <1>3, <1>5 DEF Marked

\* The last event of a submission says what its child keeps.
LEMMA MarkedByAnswer ==
    ASSUME PipeInv, Marked, NEW p \in Procs, process = p, ChildStep(p), ChildAnswers(p),
           retained'[p], ~Broken
    PROVE  /\ dirty' \/ \E e \in Event : Unseen(e)'
           /\ \A e \in Event : Unseen(e)' => DirtyAfter(active, e)'
<1>0. /\ HandleInv /\ Attached /\ Pipe /\ Quiet /\ Unread /\ Startup
      /\ active \in Jobs \cup {None} /\ starting \in Calls \cup {None} /\ Procs = Calls
      /\ outbox \in [Procs -> Seq(Event)] /\ retained \in [Procs -> BOOLEAN]
      /\ dirty \in BOOLEAN /\ Jobs = Submits \cup Timers /\ Fields \subseteq Submits
      /\ p # None
  BY Typed, Names, ConstantsAssumption
     DEF PipeInv, HandleInv, TypeInv, TypeOK, ChildTypes, ProcTypes
<1>1. /\ UNCHANGED <<active, process, dirty, rpc, event>>
  BY DEF ChildStep, transportVars, lockVars, procVars, streamVars
<1>2. inbox[p] # {} /\ ~BootingNow
  <2>1. inbox[p] # {}
    BY DEF ChildAnswers
  <2> QED  BY <1>0, <2>1 DEF Unread, Startup, BootingNow
<1>3. active # None /\ jproc[active] = p
  BY <1>0, <1>2 DEF Quiet, Attached, Empty
<1>4. \A e \in Event : ~Unseen(e)
  <2>1. \A e : Terminal(e) => ~Lies(e, outbox[p])
    BY <1>2, <1>3 DEF Pipe, Lies, PipeInv
  <2>2. ~Finished(active)
    BY <1>0, <1>2, <1>3 DEF Pipe, Empty
  <2> QED  BY <2>1, <2>2 DEF Unseen, Finished
<1>5. PICK j \in inbox[p] : \E e \in Event :
              /\ outbox'[p] = Append(outbox[p], e) /\ Terminal(e)
              /\ retained'[p] => \/ e.cleanup = "reuse"
                                 \/ /\ e.cleanup = "none" /\ e.type = "completed"
                                    /\ j \in Fields /\ retained[p]
  BY <1>0, Answering
<1>6. PICK a \in Event :
              /\ outbox'[p] = Append(outbox[p], a) /\ Terminal(a)
              /\ retained'[p] => \/ a.cleanup = "reuse"
                                 \/ /\ a.cleanup = "none" /\ a.type = "completed"
                                    /\ j \in Fields /\ retained[p]
  BY <1>5
<1>7. j = active
  BY <1>0, <1>3 DEF Pipe
<1>8. retained[p] => dirty
  BY <1>0, <1>4 DEF Marked
<1>9. DirtyAfter(active, a)'
  BY <1>0, <1>1, <1>6, <1>7, <1>8 DEF DirtyAfter
<1>10. \A e \in Event : Unseen(e)' <=> e = a
  <2>1. \A e \in Event : Lies(e, outbox'[p]) <=> e = a \/ Lies(e, outbox[p])
    BY <1>0, <1>6, LiesAppend
  <2> QED  BY <1>1, <1>3, <1>4, <1>6, <2>1 DEF Unseen, Terminal
<1> HIDE DEF Unseen
<1> QED  BY <1>6, <1>9, <1>10

LEMMA MarkedStep ==
    ASSUME PipeInv, Plain, Caches, NeverStale, EventsStayWithTheirJob, Marked, [Next]_vars
    PROVE  Marked'
<1> SUFFICES ASSUME process' # None, retained'[process'], ~Broken'
             PROVE  /\ dirty' \/ \E e \in Event : Unseen(e)'
                    /\ \A e \in Event : Unseen(e)' => DirtyAfter(active, e)'
  BY DEF Marked
<1>0. /\ HandleInv /\ Attached /\ Mine /\ active \in Jobs \cup {None} /\ None \notin Jobs
      /\ rpc \in [Jobs -> RpcStates]
      /\ process \in Procs \cup {None} /\ Procs = Calls /\ Submits \subseteq Jobs
  BY Typed, Names DEF PipeInv
<1>1. process' = process /\ process # None
  <2>1. ASSUME NEW k \in Calls, StartSpawn(k), process' = k PROVE FALSE
    <3>1. ~retained[k] /\ retained' = retained
      BY <1>0, <2>1 DEF StartSpawn, Caches, Fresh
    <3> QED  BY <2>1, <3>1
  <2> QED  BY <1>0, <2>1, ProcessMoves
<1>2. PICK p \in Procs : p = process
  BY <1>0, <1>1
<1>3. CASE ChildStep(p) /\ ChildAnswers(p)
  <2>1. ~Broken
    BY <1>3 DEF ChildStep, transportVars, lockVars, streamVars, Broken, Terminal
  <2> QED  BY <1>1, <1>2, <1>3, <2>1, MarkedByAnswer
<1>4. CASE retained[p] /\ ~(ChildStep(p) /\ ChildAnswers(p))
  <2>1. ASSUME NEW j \in Jobs, Takes(j)
        PROVE  /\ dirty' \/ \E e \in Event : Unseen(e)'
               /\ \A e \in Event : Unseen(e)' => DirtyAfter(active, e)'
    <3>1. /\ active = None /\ active' = j /\ outbox[process] = << >> /\ outbox' = outbox
          /\ rpc'[j] \in {"open", "claimed"}
      BY <2>1, Taking DEF Takes, Empty
    <3>2. dirty
      BY <1>1, <1>2, <1>4, <3>1 DEF Marked, Unseen, Broken
    <3>3. dirty' = dirty
      BY <2>1 DEF Takes, Write, TimerRuns, procVars
    <3>4. \A e \in Event : ~Unseen(e)'
      BY <1>1, <3>1 DEF Unseen, Lies
    <3> QED  BY <3>2, <3>3, <3>4
  <2>2. ASSUME NEW j \in Jobs, Ends(j)
        PROVE  /\ dirty' \/ \E e \in Event : Unseen(e)'
               /\ \A e \in Event : Unseen(e)' => DirtyAfter(active, e)'
    <3>1. dirty'
      BY <1>1, <1>2, <1>4, <2>2, MarkedOff
    <3>2. \A e \in Event : ~Unseen(e)'
      BY <2>2 DEF Ends, Unseen
    <3> QED  BY <3>1, <3>2
  <2>3. CASE active' = active
    <3>1. ~Broken
      <4> SUFFICES ASSUME Broken PROVE FALSE
        OBVIOUS
      <4>1. active \in Jobs /\ rpc[active] = "abandoning" /\ ~Terminal(event[active])
        BY <1>0 DEF Broken
      <4>2. rpc'[active] # rpc[active] \/ event'[active] # event[active]
        BY <2>3, <4>1 DEF Broken, Terminal
      <4>3. ~Takes(active)
        BY DEF Takes
      <4>4. StreamStep(active) /\ Abandon(active)
        BY <1>0, <4>1, <4>2, <4>3, StreamMoves
           DEF StreamStep, Advance, ReadLine, ReadEof, Observe, Yield, IdleWrite
      <4> QED  BY <1>0, <2>3, <4>1, <4>4 DEF Abandon, Finish
    <3> QED  BY <1>1, <1>2, <1>4, <2>3, <3>1, MarkedOn
  <2> QED  BY <1>0, <2>1, <2>2, <2>3, ActiveMoves
<1>5. (retained[p] /\ (alive[p] => alive'[p])) \/ (ChildStep(p) /\ ChildAnswers(p))
  BY <1>0, <1>1, <1>2, RetainedMoves
<1> QED  BY <1>3, <1>4, <1>5

\* The caches a finished solve leaves in the child are remembered, and freed by
\* a timer where one is allowed, as long as no stream observes an event after
\* it has lost the worker: that race is the only way to forget them.
THEOREM Retention == Spec /\ []NeverStale => []RetentionRemembered
<1>1. Init => RetentionInv
  <2> SUFFICES ASSUME Init PROVE RetentionInv
    OBVIOUS
  <2>1. Plain
    BY DEF Init, Plain, PlainLine, NoEvent, Lies
  <2>2. Caches /\ Marked /\ Armed
    BY Names DEF Init, Caches, Marked, Armed, Arms, Idle
  <2> QED  BY <2>1, <2>2 DEF RetentionInv
<1>2. ASSUME PipeInv, IdleInv, EventsStayWithTheirJob, NeverStale, RetentionInv, [Next]_vars
      PROVE  RetentionInv'
  BY <1>2, PlainStep, CachesStep, MarkedStep, ArmedStep DEF RetentionInv
<1>3. ASSUME PipeInv, RetentionInv PROVE RetentionRemembered
  <2> SUFFICES ASSUME Resting, retained[process]
               PROVE  dirty /\ (idleOn /\ holds = 0 /\ info = "reclaim" => idleTimer # None)
    BY DEF RetentionRemembered
  <2>1. process # None /\ active = None /\ ~Busy
    BY Names DEF Resting, Running, Busy
  <2>2. dirty
    BY <1>3, <2>1 DEF RetentionInv, Marked, Broken, Unseen
  <2> QED  BY <1>3, <2>1, <2>2 DEF RetentionInv, Armed, Arms, Idle
<1> QED  BY <1>1, <1>2, <1>3, PipeAlways, IdleAlways, OwnEvents, PTL DEF Spec

-----------------------------------------------------------------------------
(* Without terminate(), and with streams closed by their consumers only, no  *)
(* stream loses its worker: a startup timer comes too late for that.         *)

Undisturbed ==
    /\ \A j \in Jobs : ~invalidated[j]
    /\ \A j \in Submits : closer[j] # "none" => rpc[j] \in {"open", "yielded", "closed"}
    /\ \A k \in Calls :
          killer[k] # "off" /\ (pc[k] = "writing" \/ (active = k /\ pc[k] \notin {"releasing", "done"}))
          => ready[k]

LEMMA ReadyMoves ==
    ASSUME HandleInv, [Next]_vars, NEW k \in Calls, ready[k], ~ready'[k]
    PROVE  pc'[k] = "done"
<1>0. pc \in [Calls -> PcStates] /\ ready \in [Calls -> BOOLEAN]
  BY Typed DEF HandleInv, TypeInv, TypeOK, CallTypes
<1>1. ASSUME NEW c \in Calls, Call(c) \/ CallRuns(c) PROVE pc'[k] = "done"
  BY <1>0, <1>1 DEF Call, CallRuns, Enter, WakeUp, TryClaim, StartReuse, StartSpawn, BootRead,
     BootEof, DiscardExpected, StopExpected, Write, Leave, Release
<1>2. ASSUME NEW j \in Jobs, StreamStep(j) PROVE FALSE
  BY <1>2 DEF StreamStep
<1>3. ASSUME NEW j \in Submits, Close(j) \/ CloseFinish(j) PROVE FALSE
  BY <1>3 DEF Close, CloseFinish, callVars
<1>4. ASSUME NEW x \in Killers, Terminate(x) \/ KillRuns(x) PROVE FALSE
  BY <1>4 DEF Terminate, KillRuns, callVars
<1>5. ASSUME NEW t \in Timers, TimerRuns(t) PROVE FALSE
  BY <1>5 DEF TimerRuns, callVars
<1>6. ASSUME NEW q \in Procs, ChildStep(q) PROVE FALSE
  BY <1>6 DEF ChildStep, transportVars, callVars
<1>7. ~(UserStep \/ Rest \/ UNCHANGED vars)
  BY DEF UserStep, Rest, vars, callVars
<1> QED  BY <1>1, <1>2, <1>3, <1>4, <1>5, <1>6, <1>7 DEF Next

LEMMA InvalidatedMoves ==
    ASSUME HandleInv, [Next]_vars, NEW j \in Jobs, ~invalidated[j], invalidated'[j]
    PROVE  \/ j \in Submits /\ Close(j) /\ InGenerator(j)
           \/ active = j /\ \E x \in Killers : Seize(x) /\ ~TooLate(x) /\ killer[x] = "called"
<1>0. invalidated \in [Jobs -> BOOLEAN]
  BY Typed
<1>1. ASSUME NEW c \in Calls, Call(c) \/ CallRuns(c) PROVE FALSE
  BY <1>1 DEF Call, CallRuns, Enter, WakeUp, TryClaim, StartReuse, StartSpawn, BootRead,
     BootEof, DiscardExpected, StopExpected, Write, Leave, Release, streamVars
<1>2. ASSUME NEW i \in Jobs, StreamStep(i) PROVE FALSE
  BY <1>2 DEF StreamStep
<1>3. ASSUME NEW i \in Submits, Close(i) \/ CloseFinish(i)
      PROVE  i = j /\ Close(i) /\ InGenerator(i)
  BY <1>0, <1>3 DEF Close, CloseFinish, InGenerator
<1>4. ASSUME NEW x \in Killers, Terminate(x) \/ KillRuns(x)
      PROVE  active = j /\ Seize(x) /\ ~TooLate(x) /\ killer[x] = "called"
  BY <1>0, <1>4 DEF Terminate, KillRuns, Seize, StopVictim, Invalidate, streamVars
<1>5. ASSUME NEW t \in Timers, TimerRuns(t) PROVE FALSE
  BY <1>0, <1>5 DEF TimerRuns, Fire, RunIdle, IdleWrite
<1>6. ASSUME NEW q \in Procs, ChildStep(q) PROVE FALSE
  BY <1>6 DEF ChildStep, transportVars, streamVars
<1>7. ~(UserStep \/ Rest \/ UNCHANGED vars)
  BY DEF UserStep, Rest, vars, streamVars
<1> QED  BY <1>1, <1>2, <1>3, <1>4, <1>5, <1>6, <1>7 DEF Next

LEMMA UndisturbedStep ==
    ASSUME Terminations = {}, ~ThreadedClose, PipeInv, Undisturbed, [Next]_vars
    PROVE  Undisturbed'
<1>0. /\ HandleInv /\ Unspawned /\ OneOwner /\ active \in Jobs \cup {None} /\ None \notin Jobs
      /\ starting \in Calls \cup {None} /\ None \notin Calls /\ Killers = Calls
      /\ rpc \in [Jobs -> RpcStates] /\ Submits \subseteq Jobs /\ Submits \subseteq Calls
      /\ Submits \cap Timers = {} /\ pc \in [Calls -> PcStates]
      /\ Calls \cap Timers = {}
  BY Typed, Names DEF PipeInv, HandleInv, Killers
<1>1. ASSUME NEW j \in Jobs PROVE ~invalidated'[j]
  <2>1. ASSUME NEW x \in Killers, active = j, ~TooLate(x), killer[x] = "called" PROVE FALSE
    <3>1. x \in Calls /\ starting = x /\ ~ready[x]
      BY <1>0, <2>1 DEF TooLate
    <3>2. active = x /\ pc[x] = "leaving"
      BY <1>0, <2>1, <3>1 DEF OneOwner
    <3> QED  BY <2>1, <3>1, <3>2 DEF Undisturbed
  <2>2. Close(j) => ~InGenerator(j)
    BY DEF Close
  <2> QED  BY <1>0, <2>1, <2>2, InvalidatedMoves DEF Undisturbed
<1>2. ASSUME NEW j \in Submits, closer'[j] # "none"
      PROVE  rpc'[j] \in {"open", "yielded", "closed"}
  <2>1. CASE StreamStep(j)
    <3>1. closer[j] # "none" /\ rpc[j] \in {"open", "yielded", "closed"}
      BY <1>2, <2>1 DEF StreamStep, Undisturbed
    <3> QED
      BY <1>0, <2>1, <3>1 DEF StreamStep, Advance, ReadLine, ReadEof, Observe, Yield, Abandon,
         ClosedByOther
  <2>2. CASE Takes(j)
    BY <1>0, <1>2, <2>2, Taking
  <2>3. CASE rpc'[j] = rpc[j]
    <3>1. CASE closer'[j] = closer[j]
      BY <1>2, <2>3, <3>1 DEF Undisturbed
    <3>2. CASE Close(j)
      BY <2>3, <3>2 DEF Close, InGenerator
    <3>3. CASE CloseFinish(j)
      BY <2>3, <3>3 DEF CloseFinish, Undisturbed
    <3> QED  BY <1>0, <3>1, <3>2, <3>3, StreamMoves
  <2> QED  BY <1>0, <2>1, <2>2, <2>3, StreamMoves
<1>3. ASSUME NEW k \in Calls, killer'[k] # "off",
             pc'[k] = "writing" \/ (active' = k /\ pc'[k] \notin {"releasing", "done"})
      PROVE  ready'[k]
  <2>0. pc'[k] # "done" /\ (ready[k] => ready'[k])
    BY <1>0, <1>3, ReadyMoves
  <2>1. CASE killer[k] = "off"
    <3>1. pc'[k] \in {"booting", "leaving"} /\ active' = None
      BY <1>0, <1>3, <2>1, KillerMoves, Starting
    <3> QED  BY <1>0, <1>3, <3>1
  <2>2. CASE killer[k] # "off" /\ pc'[k] = "writing" /\ pc[k] # "writing"
    <3>1. ~StartReuse(k)
      BY <2>2 DEF StartReuse, Unspawned, Fresh, PipeInv
    <3>2. BootRead(k)
      BY <1>0, <2>2, <3>1, Stages
    <3> QED  BY <1>0, <2>2, <3>2, Typed DEF BootRead, HandleInv, TypeInv, TypeOK, CallTypes
  <2>3. CASE killer[k] # "off" /\ pc[k] = "writing"
    BY <2>0, <2>3 DEF Undisturbed
  <2>4. CASE /\ killer[k] # "off" /\ active' = k /\ pc[k] # "writing"
             /\ pc'[k] \notin {"releasing", "done"}
    <3>1. active = k
      <4>1. ~Takes(k)
        BY <1>0, <2>4 DEF Takes, Write
      <4> QED  BY <1>0, <2>4, <4>1, ActiveMoves DEF Takes, Ends
    <3>2. pc[k] \notin {"releasing", "done"}
      BY <1>0, <2>4, PcMoves DEF Call, CallRuns, Enter, WakeUp, StartReuse, StartSpawn, BootRead,
         BootEof, DiscardExpected, StopExpected, Write, Leave, Release
    <3> QED  BY <2>0, <2>4, <3>1, <3>2 DEF Undisturbed
  <2> QED  BY <1>3, <2>1, <2>2, <2>3, <2>4
<1> QED  BY <1>1, <1>2, <1>3 DEF Undisturbed

\* Where nobody terminates the worker and no other thread closes a stream, the
\* caches of a finished solve are never forgotten.
THEOREM RetentionAlone ==
    ASSUME Terminations = {}, ~ThreadedClose
    PROVE  Spec => []RetentionRemembered
<1>1. Init => Undisturbed
  BY DEF Init, Undisturbed, Killers
<1>2. PipeInv /\ Undisturbed /\ [Next]_vars => Undisturbed'
  BY UndisturbedStep
<1>3. PipeInv /\ Undisturbed => NeverStale
  BY DEF PipeInv, Mine, Undisturbed, NeverStale, ClosedByOther
<1> QED  BY <1>1, <1>2, <1>3, PipeAlways, Retention, PTL DEF Spec
=============================================================================
