---------------------------- MODULE WorkerProofs ----------------------------
(***************************************************************************)
(* Proofs about WorkerProcess, for any sets of calls, timers, holds and    *)
(* terminations: its types, and the exclusive ownership of the worker.     *)
(***************************************************************************)
EXTENDS WorkerProperties, TLAPS

-----------------------------------------------------------------------------
(* Types. A stream that is being consumed has a child to read from: without *)
(* that, ReadLine would apply outbox outside its domain.                     *)

HasChild ==
    \A j \in Jobs : rpc[j] \notin {"none", "closed"} => jproc[j] \in Procs

TypeInv == TypeOK /\ HasChild

LEMMA CancelIdleTypes ==
    ASSUME TimerTypes, CancelIdle
    PROVE  TimerTypes'
BY DEF TimerTypes, CancelIdle, NextGen

LEMMA ArmIdleTypes ==
    ASSUME TimerTypes, ArmIdle
    PROVE  TimerTypes'
BY DEF TimerTypes, ArmIdle, timerVars

LEMMA DetachTypes ==
    ASSUME TimerTypes, DetachProcess
    PROVE  ProcTypes' /\ TimerTypes'
BY CancelIdleTypes DEF DetachProcess, ProcTypes

LEMMA DetachExpectedTypes ==
    ASSUME ProcTypes, TimerTypes, NEW p, DetachExpected(p)
    PROVE  ProcTypes' /\ TimerTypes'
BY DetachTypes
   DEF DetachExpected, ProcTypes, TimerTypes, procVars, timerVars

LEMMA DeadTypes ==
    ASSUME ChildTypes, NEW p, Dead(p)
    PROVE  ChildTypes'
BY DEF Dead, ChildTypes

LEMMA WokenTypes ==
    ASSUME CallTypes, KillTypes
    PROVE  /\ WokenCalls \in [Calls -> PcStates]
           /\ WokenKillers \in [Killers -> {"off", "armed", "called", "waiting",
                                            "stopping", "done"}]
BY DEF CallTypes, KillTypes, WokenCalls, WokenKillers, PcStates

LEMMA FinishTypes ==
    ASSUME TypeOK, NEW j, NEW b, Finish(j, b)
    PROVE  /\ active' \in Jobs \cup {None}
           /\ ProcTypes' /\ TimerTypes' /\ ChildTypes'
           /\ pc' \in [Calls -> PcStates]
           /\ killer' \in [Killers -> {"off", "armed", "called", "waiting",
                                       "stopping", "done"}]
<1>1. CASE active # j
  BY <1>1 DEF Finish, TypeOK, LockTypes, ProcTypes, TimerTypes, CallTypes,
              KillTypes, ChildTypes, procVars, timerVars, childVars
<1>2. CASE active = j
  <2>1. active' = None /\ pc' = WokenCalls /\ killer' = WokenKillers
    BY <1>2 DEF Finish
  <2>2. ProcTypes' /\ TimerTypes' /\ ChildTypes'
    <3>1. CASE Discards(j, b)
      <4>1. DetachProcess /\ Dead(process)
        BY <1>2, <3>1 DEF Finish
      <4> QED  BY <4>1, DetachTypes, DeadTypes DEF TypeOK
    <3>2. CASE ~Discards(j, b)
      <4>1. UNCHANGED <<procVars, childVars>> /\ ArmIdle
        BY <1>2, <3>2 DEF Finish
      <4> QED
        BY <4>1, ArmIdleTypes
           DEF TypeOK, ProcTypes, ChildTypes, procVars, childVars
    <3> QED  BY <3>1, <3>2
  <2> QED  BY <2>1, <2>2, WokenTypes DEF TypeOK
<1> QED  BY <1>1, <1>2

LEMMA NoEventType == NoEvent \in Event
BY DEF NoEvent, Event, OtherEvent

LEMMA InitTypes == Init => TypeInv
<1> SUFFICES ASSUME Init PROVE TypeInv
  OBVIOUS
<1>1. LockTypes /\ ProcTypes
  BY DEF Init, LockTypes, ProcTypes
<1>6. TimerTypes
  BY DEF Init, TimerTypes
<1>7. UserTypes
  <2>1. idleOn \in BOOLEAN /\ configs \in Nat
    BY DEF Init
  <2>2. holds \in Int
    BY DEF Init
  <2>3. held \in [Holds -> {"new", "held", "released"}]
    BY DEF Init
  <2> QED  BY <2>1, <2>2, <2>3 DEF UserTypes
<1>2. CallTypes /\ KillTypes
  BY DEF Init, CallTypes, KillTypes, PcStates
<1>3. StreamTypes
  BY NoEventType DEF Init, StreamTypes, RpcStates
<1>4. ChildTypes
  BY DEF Init, ChildTypes
<1>5. HasChild
  BY DEF Init, HasChild
<1> QED  BY <1>1, <1>2, <1>3, <1>4, <1>5, <1>6, <1>7 DEF TypeInv, TypeOK

-----------------------------------------------------------------------------
(* Every action keeps the types. A group of variables an action leaves alone *)
(* keeps its type by Frame.                                                  *)

LEMMA Frame ==
    ASSUME TypeInv
    PROVE  /\ UNCHANGED lockVars => LockTypes'
           /\ UNCHANGED procVars => ProcTypes'
           /\ UNCHANGED timerVars => TimerTypes'
           /\ UNCHANGED <<holds, userVars>> => UserTypes'
           /\ UNCHANGED callVars => CallTypes'
           /\ UNCHANGED streamVars => StreamTypes'
           /\ UNCHANGED killVars => KillTypes'
           /\ UNCHANGED childVars => ChildTypes'
           /\ UNCHANGED <<rpc, jproc>> => HasChild'
BY DEF TypeInv, TypeOK, HasChild, LockTypes, ProcTypes, TimerTypes, UserTypes,
       CallTypes, StreamTypes, KillTypes, ChildTypes, lockVars, procVars,
       timerVars, userVars, callVars, streamVars, killVars, childVars

LEMMA CallType ==
    ASSUME TypeInv, NEW k \in Calls, Call(k)
    PROVE  TypeInv'
<1>1. TimerTypes'
  BY CancelIdleTypes DEF Call, Reserve, TypeInv, TypeOK
<1>2. UserTypes'
  BY DEF Call, Reserve, TypeInv, TypeOK, UserTypes, userVars
<1>3. CallTypes'
  BY DEF Call, TypeInv, TypeOK, CallTypes, PcStates
<1> QED  BY <1>1, <1>2, <1>3, Frame DEF Call, TypeInv, TypeOK, streamVars

LEMMA CallRunsType ==
    ASSUME TypeInv, NEW k \in Calls, CallRuns(k)
    PROVE  TypeInv'
<1> USE DEF TypeInv, TypeOK
<1>0. UNCHANGED userVars
  BY DEF CallRuns
<1>1. CASE Enter(k) \/ WakeUp(k)
  <2>1. TimerTypes'
    BY <1>1, CancelIdleTypes, Frame DEF Enter, WakeUp
  <2>2. LockTypes' /\ CallTypes'
    BY <1>1 DEF Enter, WakeUp, TryClaim, LockTypes, CallTypes, PcStates
  <2> QED  BY <1>0, <1>1, <2>1, <2>2, Frame DEF Enter, WakeUp, TryClaim, streamVars
<1>2. CASE StartReuse(k)
  <2>1. CallTypes'
    BY <1>2 DEF StartReuse, AfterReady, CallTypes, PcStates
  <2> QED  BY <1>0, <1>2, <2>1, Frame DEF StartReuse, streamVars
<1>3. CASE StartSpawn(k)
  <2>1. CallTypes'
    BY <1>3 DEF StartSpawn, CallTypes, PcStates
  <2>2. ProcTypes'
    BY <1>3 DEF StartSpawn, ProcTypes, Procs
  <2>3. KillTypes' /\ ChildTypes'
    BY <1>3 DEF StartSpawn, KillTypes, ChildTypes, Killers
  <2> QED  BY <1>0, <1>3, <2>1, <2>2, <2>3, Frame DEF StartSpawn, streamVars
<1>4. CASE BootRead(k)
  <2>1. Head(outbox[k]) \in Event /\ Tail(outbox[k]) \in Seq(Event)
    BY <1>4 DEF BootRead, ChildTypes, Procs
  <2>2. CallTypes'
    BY <1>4 DEF BootRead, AfterReady, CallTypes, PcStates
  <2>3. ProcTypes'
    BY <1>4, <2>1 DEF BootRead, ProcTypes, Event, ReadyEvent, OtherEvent
  <2>4. KillTypes'
    BY <1>4 DEF BootRead, CancelStartupTimer, KillTypes
  <2>5. ChildTypes'
    BY <1>4, <2>1 DEF BootRead, ChildTypes
  <2> QED  BY <1>0, <1>4, <2>2, <2>3, <2>4, <2>5, Frame DEF BootRead, streamVars
<1>5. CASE BootEof(k)
  <2>1. CallTypes'
    BY <1>5 DEF BootEof, CallTypes, PcStates
  <2> QED  BY <1>0, <1>5, <2>1, DetachExpectedTypes, Frame DEF BootEof, streamVars
<1>6. CASE DiscardExpected(k)
  <2>1. CallTypes' /\ KillTypes'
    BY <1>6 DEF DiscardExpected, CancelStartupTimer, CallTypes, KillTypes, PcStates
  <2> QED
    BY <1>0, <1>6, <2>1, DetachExpectedTypes, Frame DEF DiscardExpected, streamVars
<1>7. CASE StopExpected(k)
  <2>1. CallTypes' /\ KillTypes'
    BY <1>7 DEF StopExpected, CancelStartupTimer, CallTypes, KillTypes, PcStates
  <2> QED  BY <1>0, <1>7, <2>1, DeadTypes, Frame DEF StopExpected, streamVars
<1>8. CASE Write(k)
  <2>1. CallTypes'
    BY <1>8 DEF Write, CallTypes, PcStates
  <2>2. LockTypes'
    BY <1>8 DEF Write, LockTypes, Jobs
  <2>4. ChildTypes'
    <3>1. ASSUME NEW p \in Procs
          PROVE  inbox[p] \cup {k} \in SUBSET Jobs /\ (k \in Chatty) \in BOOLEAN
      BY <1>8 DEF Write, ChildTypes, Jobs
    <3>2. CASE UNCHANGED <<inbox, chatty>>
      BY <1>8, <3>2 DEF Write, ChildTypes
    <3>3. CASE /\ process \in Running
               /\ inbox' = [inbox EXCEPT ![process] = @ \cup {k}]
               /\ chatty' = [chatty EXCEPT ![process] = k \in Chatty]
      <4>1. inbox' \in [Procs -> SUBSET Jobs]
        BY <3>1, <3>3 DEF ChildTypes, Running
      <4>2. chatty' \in [Procs -> BOOLEAN]
        BY <3>1, <3>3, Zenon DEF ChildTypes
      <4> QED  BY <1>8, <4>1, <4>2 DEF Write, ChildTypes
    <3> QED  BY <1>8, <3>2, <3>3 DEF Write
  <2>3. StreamTypes' /\ HasChild'
    BY <1>8 DEF Write, StreamTypes, HasChild, RpcStates, Running
  <2> QED  BY <1>0, <1>8, <2>1, <2>2, <2>3, <2>4, Frame DEF Write
<1>9. CASE Leave(k)
  <2>1. CallTypes'
    BY <1>9, WokenTypes DEF Leave, CallTypes, PcStates
  <2>2. LockTypes' /\ KillTypes'
    BY <1>9, WokenTypes DEF Leave, LockTypes, KillTypes
  <2> QED  BY <1>0, <1>9, <2>1, <2>2, Frame DEF Leave, streamVars
<1>10. CASE Release(k)
  <2>1. CallTypes'
    BY <1>10 DEF Release, CallTypes, PcStates
  <2>2. UserTypes'
    BY <1>0, <1>10 DEF Release, Unreserve, UserTypes, userVars
  <2> QED
    BY <1>10, <2>1, <2>2, ArmIdleTypes, Frame DEF Release, Unreserve, streamVars
<1> QED
  BY <1>1, <1>2, <1>3, <1>4, <1>5, <1>6, <1>7, <1>8, <1>9, <1>10 DEF CallRuns

LEMMA StreamStepType ==
    ASSUME TypeInv, NEW j \in Jobs, StreamStep(j)
    PROVE  TypeInv'
<1> USE DEF TypeInv, TypeOK
<1>0. UNCHANGED <<starting, terminating, holds, userVars, dropped, ready,
                  invalidated, jproc, closer, victim>>
  BY DEF StreamStep
<1>1. CASE Advance(j) \/ Yield(j)
  <2>1. StreamTypes' /\ HasChild'
    BY <1>0, <1>1 DEF Advance, Yield, StreamTypes, HasChild, RpcStates
  <2> QED  BY <1>0, <1>1, <2>1, Frame DEF Advance, Yield, lockVars, callVars, killVars
<1>2. CASE ReadLine(j)
  <2>1. jproc[j] \in Procs
    BY <1>2 DEF ReadLine, HasChild
  <2>2. Head(outbox[jproc[j]]) \in Event /\ Tail(outbox[jproc[j]]) \in Seq(Event)
    BY <1>2, <2>1 DEF ReadLine, ChildTypes
  <2>3. StreamTypes' /\ HasChild'
    BY <1>0, <1>2, <2>2, ZenonT(60) DEF ReadLine, StreamTypes, HasChild, RpcStates
  <2>4. ChildTypes'
    BY <1>2, <2>2 DEF ReadLine, ChildTypes
  <2> QED
    BY <1>0, <1>2, <2>3, <2>4, Frame DEF ReadLine, lockVars, callVars, killVars
<1>3. CASE ReadEof(j)
  <2>1. StreamTypes' /\ HasChild'
    BY <1>0, <1>3 DEF ReadEof, StreamTypes, HasChild, RpcStates
  <2> QED
    BY <1>0, <1>3, <2>1, DetachExpectedTypes, Frame
       DEF ReadEof, lockVars, callVars, killVars
<1>4. CASE Observe(j)
  <2>1. StreamTypes' /\ HasChild'
    BY <1>0, <1>4 DEF Observe, StreamTypes, HasChild, RpcStates
  <2>2. DirtyAfter(j, event[j]) \in BOOLEAN
    BY DEF DirtyAfter, ProcTypes
  <2>3. ProcTypes'
    BY <1>4, <2>2 DEF Observe, ProcTypes
  <2> QED
    BY <1>0, <1>4, <2>1, <2>3, Frame DEF Observe, lockVars, callVars, killVars
<1>5. CASE Abandon(j)
  <2>1. StreamTypes' /\ HasChild'
    BY <1>0, <1>5, NoEventType DEF Abandon, StreamTypes, HasChild, RpcStates
  <2>2. Finish(j, ~Terminal(event[j]))
    BY <1>5 DEF Abandon
  <2>3. /\ active' \in Jobs \cup {None}
        /\ ProcTypes' /\ TimerTypes' /\ ChildTypes'
        /\ pc' \in [Calls -> PcStates]
        /\ killer' \in [Killers -> {"off", "armed", "called", "waiting",
                                    "stopping", "done"}]
    BY <2>2, FinishTypes
  <2>4. LockTypes' /\ CallTypes' /\ KillTypes' /\ UserTypes'
    BY <1>0, <2>3, Frame DEF LockTypes, CallTypes, KillTypes
  <2> QED  BY <2>1, <2>3, <2>4
<1> QED  BY <1>1, <1>2, <1>3, <1>4, <1>5 DEF StreamStep

LEMMA CloseType ==
    ASSUME TypeInv, NEW j \in Submits, Close(j) \/ CloseFinish(j)
    PROVE  TypeInv'
<1> USE DEF TypeInv, TypeOK
<1>1. CASE Close(j)
  <2>1. StreamTypes' /\ HasChild'
    BY <1>1 DEF Close, StreamTypes, HasChild
  <2> QED  BY <1>1, <2>1, Frame DEF Close
<1>2. CASE CloseFinish(j)
  <2>1. StreamTypes' /\ HasChild'
    BY <1>2 DEF CloseFinish, StreamTypes, HasChild
  <2>2. Finish(j, closer[j] = "discarding")
    BY <1>2 DEF CloseFinish
  <2>3. /\ active' \in Jobs \cup {None}
        /\ ProcTypes' /\ TimerTypes' /\ ChildTypes'
        /\ pc' \in [Calls -> PcStates]
        /\ killer' \in [Killers -> {"off", "armed", "called", "waiting",
                                    "stopping", "done"}]
    BY <2>2, FinishTypes
  <2>4. LockTypes' /\ CallTypes' /\ KillTypes' /\ UserTypes'
    BY <1>2, <2>3, Frame DEF CloseFinish, LockTypes, CallTypes, KillTypes
  <2> QED  BY <2>1, <2>3, <2>4
<1> QED  BY <1>1, <1>2

LEMMA KillType ==
    ASSUME TypeInv, NEW x \in Killers, Terminate(x) \/ KillRuns(x)
    PROVE  TypeInv'
<1> USE DEF TypeInv, TypeOK
<1>1. CASE Terminate(x)
  <2>1. KillTypes'
    BY <1>1 DEF Terminate, KillTypes
  <2> QED  BY <1>1, <2>1, Frame DEF Terminate, streamVars
<1>2. CASE KillRuns(x) /\ Seize(x)
  <2>0. UNCHANGED <<holds, userVars, ready, rpc, discard, jproc, event, closer>>
        /\ UNCHANGED childVars
    BY <1>2 DEF KillRuns, Seize
  <2>1. CASE terminating \/ TooLate(x)
    <3>1. KillTypes'
      BY <1>2, <2>1 DEF Seize, KillTypes
    <3> QED
      BY <1>2, <2>0, <2>1, <3>1, Frame DEF Seize, callVars, streamVars
  <2>2. CASE ~(terminating \/ TooLate(x))
    <3>1. LockTypes'
      BY <1>2, <2>2 DEF Seize, LockTypes
    <3>3. CallTypes'
      BY <1>2, <2>0, <2>2, WokenTypes DEF Seize, Invalidate, CallTypes
    <3>4. KillTypes'
      BY <1>2, <2>2, WokenTypes DEF Seize, KillTypes, ProcTypes
    <3>2. StreamTypes' /\ HasChild'
      BY <1>2, <2>0, <2>2 DEF Seize, Invalidate, StreamTypes, HasChild
    <3> QED
      BY <1>2, <2>0, <2>2, <3>1, <3>2, <3>3, <3>4, DetachTypes, Frame DEF Seize
  <2> QED  BY <2>1, <2>2
<1>3. CASE KillRuns(x) /\ StopVictim(x)
  <2>1. LockTypes' /\ CallTypes' /\ KillTypes'
    BY <1>3, WokenTypes
       DEF KillRuns, StopVictim, LockTypes, CallTypes, KillTypes
  <2>2. ChildTypes'
    BY <1>3, DeadTypes DEF StopVictim
  <2> QED
    BY <1>3, <2>1, <2>2, Frame DEF KillRuns, StopVictim, streamVars
<1> QED  BY <1>1, <1>2, <1>3 DEF KillRuns

LEMMA UserType ==
    ASSUME TypeInv, UserStep
    PROVE  TypeInv'
<1> USE DEF TypeInv, TypeOK
<1>0. UNCHANGED <<lockVars, procVars, callVars, streamVars, killVars, childVars>>
  BY DEF UserStep
<1>1. ASSUME NEW on \in BOOLEAN, ConfigureIdle(on)
      PROVE  UserTypes' /\ TimerTypes'
  <2>1. UserTypes'
    BY <1>1 DEF ConfigureIdle, UserTypes
  <2>2. NextGen \in Nat
    BY DEF NextGen, TimerTypes
  <2>3. TimerTypes'
    BY <1>1, <2>2, CancelIdleTypes DEF ConfigureIdle, TimerTypes
  <2> QED  BY <2>1, <2>3
<1>2. ASSUME NEW h \in Holds, HoldIdle(h) \/ ReleaseHold(h)
      PROVE  UserTypes' /\ TimerTypes'
  <2>1. UserTypes'
    BY <1>2 DEF HoldIdle, ReleaseHold, Reserve, Unreserve, UserTypes
  <2>2. TimerTypes'
    BY <1>2, CancelIdleTypes, ArmIdleTypes DEF HoldIdle, ReleaseHold, Reserve, Unreserve
  <2> QED  BY <2>1, <2>2
<1>3. UserTypes' /\ TimerTypes'
  BY <1>1, <1>2 DEF UserStep
<1> QED  BY <1>0, <1>3, Frame DEF streamVars

LEMMA TimerType ==
    ASSUME TypeInv, NEW t \in Timers, TimerRuns(t)
    PROVE  TypeInv'
<1> USE DEF TypeInv, TypeOK
<1>0. UNCHANGED <<starting, terminating, procVars, holds, idleGen, userVars,
                  callVars, closer, killVars, alive, booted, outbox, chatty,
                  retained>>
  BY DEF TimerRuns
<1>1. t \in Jobs
  BY DEF Jobs
<1>2. CASE Fire(t)
  <2>1. TimerTypes'
    BY <1>0, <1>2 DEF Fire, TimerTypes
  <2> QED
    BY <1>0, <1>2, <2>1, Frame DEF Fire, lockVars, streamVars, childVars
<1>3. CASE RunIdle(t)
  <2>1. TimerTypes'
    BY <1>0, <1>3 DEF RunIdle, TimerTypes
  <2>2. LockTypes'
    BY <1>0, <1>1, <1>3 DEF RunIdle, LockTypes
  <2>3. StreamTypes' /\ HasChild'
    BY <1>0, <1>1, <1>3, NoEventType, ZenonT(60)
       DEF RunIdle, StreamTypes, HasChild, RpcStates, ProcTypes
  <2> QED
    BY <1>0, <1>3, <2>1, <2>2, <2>3, Frame DEF RunIdle, childVars
<1>4. CASE IdleWrite(t)
  <2>1. StreamTypes' /\ HasChild'
    BY <1>0, <1>1, <1>4 DEF IdleWrite, StreamTypes, HasChild, RpcStates
  <2>2. ChildTypes'
    <3>1. inbox' \in [Procs -> SUBSET Jobs]
      <4>1. ASSUME NEW p \in Procs
            PROVE  inbox[p] \cup {t} \in SUBSET Jobs
        BY <1>1 DEF ChildTypes
      <4>2. CASE inbox' = [inbox EXCEPT ![jproc[t]] = @ \cup {t}]
        BY <1>4, <4>1, <4>2 DEF ChildTypes
      <4>3. CASE UNCHANGED inbox
        BY <4>3 DEF ChildTypes
      <4> QED  BY <1>4, <4>2, <4>3 DEF IdleWrite
    <3> QED  BY <1>0, <3>1 DEF ChildTypes
  <2> QED
    BY <1>0, <1>4, <2>1, <2>2, Frame DEF IdleWrite, lockVars, timerVars
<1> QED  BY <1>2, <1>3, <1>4 DEF TimerRuns

LEMMA ChildType ==
    ASSUME TypeInv, NEW p \in Procs, ChildStep(p)
    PROVE  TypeInv'
<1> USE DEF TypeInv, TypeOK
<1>1. ASSUME NEW e \in Event, Emit(p, e)
      PROVE  outbox' \in [Procs -> Seq(Event)]
  BY <1>1 DEF Emit, ChildTypes
<1>2. ASSUME ChildBoots(p)
      PROVE  ChildTypes'
  <2>1. PICK e \in Event : Emit(p, e)
    BY <1>2, ConstantsAssumption
       DEF ChildBoots, Event, ReadyEvent, OtherEvent
  <2> QED  BY <1>1, <1>2, <2>1 DEF ChildBoots, ChildTypes
<1>3. ASSUME ChildProgress(p)
      PROVE  ChildTypes'
  <2>1. PICK e \in Event : Emit(p, e)
    BY <1>3 DEF ChildProgress, Event, OtherEvent, ChildTypes
  <2> QED  BY <1>1, <1>3, <2>1 DEF ChildProgress, ChildTypes
<1>4. ASSUME ChildAnswers(p)
      PROVE  ChildTypes'
  <2>1. PICK j \in inbox[p] : \E o \in Outcomes(Operation(j), retained[p]) :
          /\ inbox' = [inbox EXCEPT ![p] = @ \ {j}]
          /\ retained' = [retained EXCEPT ![p] = o.keeps]
          /\ Emit(p, [type |-> o.type, job |-> j, cleanup |-> o.cleanup])
    BY <1>4 DEF ChildAnswers
  <2>2. PICK o \in Outcomes(Operation(j), retained[p]) :
          /\ inbox' = [inbox EXCEPT ![p] = @ \ {j}]
          /\ retained' = [retained EXCEPT ![p] = o.keeps]
          /\ Emit(p, [type |-> o.type, job |-> j, cleanup |-> o.cleanup])
    BY <2>1
  <2>3. j \in Jobs /\ retained[p] \in BOOLEAN
    BY DEF ChildTypes
  <2>4. /\ o.type \in {"completed", "cancelled", "failed"}
        /\ o.cleanup \in {"none", "reuse", "full"}
        /\ o.keeps \in BOOLEAN
    BY DEF Outcomes, Answer
  <2>5. [type |-> o.type, job |-> j, cleanup |-> o.cleanup] \in Event
    BY <2>3, <2>4 DEF Event, OtherEvent
  <2> QED  BY <1>1, <1>4, <2>2, <2>4, <2>5 DEF ChildAnswers, ChildTypes
<1>5. ASSUME ChildDies(p)
      PROVE  ChildTypes'
  BY <1>5, DeadTypes DEF ChildDies
<1>6. UNCHANGED transportVars /\ ChildTypes'
  BY <1>2, <1>3, <1>4, <1>5 DEF ChildStep
<1> QED  BY <1>6, Frame DEF transportVars, streamVars

LEMMA TypeStep == TypeInv /\ [Next]_vars => TypeInv'
<1> SUFFICES ASSUME TypeInv, [Next]_vars PROVE TypeInv'
  OBVIOUS
<1>1. CASE UNCHANGED vars
  BY <1>1, Frame DEF vars, TypeInv, TypeOK, streamVars
<1>2. CASE Next
  BY <1>1, <1>2, CallType, CallRunsType, StreamStepType, CloseType, KillType,
     UserType, TimerType, ChildType DEF Next, Rest
<1> QED  BY <1>1, <1>2

\* Every reachable state of the transport has the declared types, whatever
\* the numbers of calls, timers, holds and terminations.
THEOREM Typing == Spec => []TypeOK
<1>1. TypeInv => TypeOK
  BY DEF TypeInv
<1> QED  BY InitTypes, TypeStep, <1>1, PTL DEF Spec

-----------------------------------------------------------------------------
(* Exclusive ownership. OneOwner is inductive: a call reaches Write with its *)
(* token intact only while _starting is its own, and then nobody else owns   *)
(* the worker.                                                               *)

\* Who holds the worker and how far its call is: all that OneOwner looks at.
ownerVars == <<lockVars, pc, dropped>>

LEMMA OwnerFrame == OneOwner /\ UNCHANGED ownerVars => OneOwner'
BY DEF OneOwner, InStartup, ownerVars, lockVars

\* Waking the waiters moves no call into or out of its startup.
LEMMA WokenStartup ==
    ASSUME TypeInv, NEW k \in Calls
    PROVE  /\ WokenCalls[k] \in {"starting", "booting", "discarding", "stopping",
                                "writing", "leaving"} <=> InStartup(k)
           /\ WokenCalls[k] = "leaving" <=> pc[k] = "leaving"
BY DEF TypeInv, TypeOK, CallTypes, WokenCalls, InStartup

LEMMA FinishOwner ==
    ASSUME TypeInv, OneOwner, NEW j, NEW b, Finish(j, b),
           UNCHANGED <<starting, terminating, dropped>>
    PROVE  OneOwner'
<1>1. CASE active # j
  BY <1>1, OwnerFrame DEF Finish, ownerVars, lockVars
<1>2. CASE active = j
  BY <1>2, WokenStartup DEF Finish, OneOwner, InStartup
<1> QED  BY <1>1, <1>2

LEMMA CallOwner ==
    ASSUME TypeInv, OneOwner, NEW k \in Calls, Call(k) \/ CallRuns(k)
    PROVE  OneOwner'
<1> USE DEF TypeInv, TypeOK, LockTypes, CallTypes
<1>1. CASE Call(k)
  BY <1>1 DEF Call, OneOwner, InStartup, lockVars
<1>2. CASE Enter(k) \/ WakeUp(k)
  BY <1>2, ConstantsAssumption
     DEF Enter, WakeUp, TryClaim, Busy, OneOwner, InStartup
<1>3. CASE StartReuse(k)
  BY <1>3 DEF StartReuse, AfterReady, OneOwner, InStartup, lockVars
<1>4. CASE StartSpawn(k)
  BY <1>4 DEF StartSpawn, OneOwner, InStartup, lockVars
<1>5. CASE BootRead(k)
  BY <1>5 DEF BootRead, AfterReady, OneOwner, InStartup, lockVars
<1>6. CASE BootEof(k)
  BY <1>6 DEF BootEof, OneOwner, InStartup, lockVars
<1>7. CASE DiscardExpected(k)
  BY <1>7 DEF DiscardExpected, OneOwner, InStartup, lockVars
<1>8. CASE StopExpected(k)
  BY <1>8 DEF StopExpected, OneOwner, InStartup, lockVars
<1>9. CASE Write(k)
  BY <1>9, ConstantsAssumption DEF Write, OneOwner, InStartup
<1>10. CASE Leave(k)
  <2>1. CASE starting = k
    <3>1. /\ starting' = None /\ active' = active
          /\ terminating' = terminating /\ dropped' = dropped
          /\ pc' = [WokenCalls EXCEPT ![k] = "releasing"]
      BY <1>10, <2>1 DEF Leave
    <3>2. ASSUME NEW c \in Calls, InStartup(c)'
          PROVE  InStartup(c) /\ c # k
      BY <3>1, <3>2, WokenStartup, WokenTypes DEF InStartup, KillTypes
    <3> QED  BY <2>1, <3>1, <3>2 DEF OneOwner
  <2>2. CASE starting # k
    BY <1>10, <2>2 DEF Leave, OneOwner, InStartup
  <2> QED  BY <2>1, <2>2
<1>11. CASE Release(k)
  BY <1>11 DEF Release, OneOwner, InStartup, lockVars
<1> QED
  BY <1>1, <1>2, <1>3, <1>4, <1>5, <1>6, <1>7, <1>8, <1>9, <1>10, <1>11
     DEF CallRuns

LEMMA StreamOwner ==
    ASSUME TypeInv, OneOwner, NEW j \in Jobs, StreamStep(j)
    PROVE  OneOwner'
<1>1. CASE Abandon(j)
  BY <1>1, FinishOwner DEF StreamStep, Abandon
<1>2. CASE ~Abandon(j)
  BY <1>2, OwnerFrame
     DEF StreamStep, Advance, ReadLine, ReadEof, Observe, Yield, ownerVars, lockVars
<1> QED  BY <1>1, <1>2

LEMMA CloseOwner ==
    ASSUME TypeInv, OneOwner, NEW j \in Submits, Close(j) \/ CloseFinish(j)
    PROVE  OneOwner'
BY OwnerFrame, FinishOwner DEF Close, CloseFinish, ownerVars, callVars

LEMMA KillOwner ==
    ASSUME TypeInv, OneOwner, NEW x \in Killers, Terminate(x) \/ KillRuns(x)
    PROVE  OneOwner'
<1> USE DEF TypeInv, TypeOK, LockTypes, CallTypes
<1>1. CASE Terminate(x)
  BY <1>1, OwnerFrame DEF Terminate, ownerVars, callVars
<1>2. CASE Seize(x)
  <2>1. CASE UNCHANGED <<lockVars, pc, dropped>>
    BY <2>1, OwnerFrame DEF ownerVars
  <2>2. CASE /\ Invalidate /\ active' = None /\ starting' = None
             /\ terminating' = TRUE /\ pc' = WokenCalls
    BY <2>2, WokenStartup DEF Invalidate, OneOwner, InStartup
  <2> QED  BY <1>2, <2>1, <2>2 DEF Seize
<1>3. CASE StopVictim(x)
  BY <1>3, WokenStartup DEF StopVictim, OneOwner, InStartup
<1> QED  BY <1>1, <1>2, <1>3 DEF KillRuns

LEMMA TimerOwner ==
    ASSUME TypeInv, OneOwner, NEW t \in Timers, TimerRuns(t)
    PROVE  OneOwner'
<1>1. CASE UNCHANGED active
  BY <1>1, OwnerFrame DEF TimerRuns, ownerVars, lockVars, callVars
<1>2. CASE ~UNCHANGED active
  <2>1. RunIdle(t) /\ ~Busy
    BY <1>2 DEF TimerRuns, Fire, RunIdle, IdleWrite
  <2> QED  BY <2>1 DEF TimerRuns, Busy, OneOwner, InStartup, callVars
<1> QED  BY <1>1, <1>2

LEMMA OwnerStep ==
    ASSUME TypeInv, OneOwner, [Next]_vars
    PROVE  OneOwner'
<1>1. CASE UNCHANGED ownerVars
  BY <1>1, OwnerFrame
<1>2. CASE ~UNCHANGED ownerVars
  <2>1. ~UNCHANGED vars
    BY <1>2 DEF vars, ownerVars, callVars
  <2>2. ~UserStep /\ ~Rest
    BY <1>2, <2>1 DEF UserStep, Rest, ownerVars, callVars
  <2>3. ASSUME NEW p \in Procs
        PROVE  ~ChildStep(p)
    BY <1>2 DEF ChildStep, transportVars, ownerVars, callVars
  <2> QED
    BY <2>1, <2>2, <2>3, CallOwner, StreamOwner, CloseOwner, KillOwner,
       TimerOwner DEF Next
<1> QED  BY <1>1, <1>2

\* At any time at most one call starts the worker, or one submission uses it,
\* or one termination takes it down; whoever lost it has been told.
THEOREM Ownership == Spec => []OneOwner
<1>1. Init => TypeInv /\ OneOwner
  BY InitTypes DEF Init, OneOwner, InStartup
<1>2. TypeInv /\ OneOwner /\ [Next]_vars => (TypeInv /\ OneOwner)'
  BY TypeStep, OwnerStep
<1> QED  BY <1>1, <1>2, PTL DEF Spec
=============================================================================
