---------------------------- MODULE HandleProofs ----------------------------
(***************************************************************************)
(* The sections of WorkerProcess are the steps of WorkerHandle, for any    *)
(* sets of calls, timers, holds and terminations.                          *)
(***************************************************************************)
EXTENDS WorkerProofs

\* A stream that is read or closed has been returned: the startup that made it
\* is over, so that its end frees the worker and not only the submission.
StreamsHanded ==
    \A j \in Submits : rpc[j] \notin {"none", "open"} \/ closer[j] # "none"
                          => pc[j] = "done"

HandleInv == TypeInv /\ OneOwner /\ StreamsHanded

LEMMA WokenDone ==
    ASSUME TypeInv, NEW k \in Calls
    PROVE  WokenCalls[k] = "done" <=> pc[k] = "done"
BY DEF TypeInv, TypeOK, CallTypes, WokenCalls

LEMMA FinishHanded ==
    ASSUME TypeInv, NEW j, NEW b, Finish(j, b), NEW k \in Calls, pc[k] = "done"
    PROVE  pc'[k] = "done"
BY WokenDone DEF Finish

LEMMA HandedStep ==
    ASSUME HandleInv, [Next]_vars
    PROVE  StreamsHanded'
<1> USE DEF HandleInv, StreamsHanded
<1>0. Submits \subseteq Calls /\ Submits \cap Timers = {}
  BY ConstantsAssumption DEF Calls
<1>1. TypeInv /\ pc \in [Calls -> PcStates] /\ rpc \in [Jobs -> RpcStates]
      /\ closer \in [Submits -> {"none", "discarding", "ending", "closed"}]
  BY DEF TypeInv, TypeOK, CallTypes, StreamTypes
<1>2. ASSUME NEW k \in Calls, Call(k) \/ CallRuns(k) PROVE StreamsHanded'
  <2>1. CASE Write(k)
    BY <1>0, <1>1, <2>1 DEF Write, Jobs, RpcStates
  <2>2. CASE ~Write(k)
    <3>1. UNCHANGED <<rpc, closer>>
      BY <1>2, <2>2 DEF Call, CallRuns, Enter, WakeUp, TryClaim, StartReuse, StartSpawn,
         BootRead, BootEof, DiscardExpected, StopExpected, Leave, Release, streamVars
    <3>2. ASSUME NEW c \in Calls, pc[c] = "done" PROVE pc'[c] = "done"
      BY <1>0, <1>1, <1>2, <2>2, <3>2, WokenDone DEF Call, CallRuns, Enter, WakeUp, TryClaim, StartReuse,
         StartSpawn, BootRead, BootEof, DiscardExpected, StopExpected, Leave, Release,
         AfterReady, WokenCalls
    <3> QED  BY <1>0, <3>1, <3>2
  <2> QED  BY <2>1, <2>2
<1>3. ASSUME NEW j \in Jobs, StreamStep(j) PROVE StreamsHanded'
  <2>1. ASSUME NEW c \in Calls, pc[c] = "done" PROVE pc'[c] = "done"
    BY <1>1, <1>3, <2>1, FinishHanded
       DEF StreamStep, Advance, ReadLine, ReadEof, Observe, Yield, Abandon
  <2>2. UNCHANGED closer /\ \A i \in Jobs : i # j => rpc'[i] = rpc[i]
    BY <1>1, <1>3 DEF StreamStep, Advance, ReadLine, ReadEof, Observe, Yield, Abandon
  <2>3. j \in Submits => rpc[j] \notin {"none", "open"} \/ pc[j] = "done"
    BY <1>3 DEF StreamStep, Advance, ReadLine, ReadEof, Observe, Yield, Abandon, Handed
  <2> QED  BY <1>0, <2>1, <2>2, <2>3 DEF Jobs
<1>4. ASSUME NEW j \in Submits, Close(j) \/ CloseFinish(j) PROVE StreamsHanded'
  <2>1. ASSUME NEW c \in Calls, pc[c] = "done" PROVE pc'[c] = "done"
    BY <1>1, <1>4, <2>1, FinishHanded DEF Close, CloseFinish, callVars
  <2>2. UNCHANGED rpc /\ pc[j] = "done" /\ \A i \in Submits : i # j => closer'[i] = closer[i]
    BY <1>1, <1>4 DEF Close, CloseFinish, Handed
  <2> QED  BY <1>0, <2>1, <2>2
<1>5. ASSUME NEW x \in Killers, Terminate(x) \/ KillRuns(x) PROVE StreamsHanded'
  BY <1>0, <1>1, <1>5, WokenDone
     DEF Terminate, KillRuns, Seize, StopVictim, callVars, streamVars
<1>6. ASSUME NEW t \in Timers, TimerRuns(t) PROVE StreamsHanded'
  BY <1>0, <1>1, <1>6 DEF TimerRuns, Fire, RunIdle, IdleWrite, callVars, Jobs
<1>7. CASE UserStep \/ Rest \/ UNCHANGED vars
  BY <1>7 DEF UserStep, Rest, vars, callVars, streamVars
<1>8. ASSUME NEW p \in Procs, ChildStep(p) PROVE StreamsHanded'
  BY <1>8 DEF ChildStep, transportVars, callVars, streamVars
<1> QED  BY <1>2, <1>3, <1>4, <1>5, <1>6, <1>7, <1>8 DEF Next

-----------------------------------------------------------------------------
(* One lemma for each kind of thread. *)

LEMMA Shape ==
    /\ handle.owner = owner /\ handle.child = process
    /\ handle.dirty = dirty /\ handle.holds = holds
BY DEF handle, Handle!Of

\* What an update of the handle changes of the fields.
LEMMA Updates ==
    ASSUME NEW k, NEW p, NEW d
    PROVE  /\ UNCHANGED <<owner, process, dirty, holds>> => handle' = handle
           /\ owner' = k /\ UNCHANGED <<process, dirty, holds>>
                => handle' = Handle!Take(handle, k)
           /\ owner' = None /\ UNCHANGED <<process, dirty, holds>>
                => handle' = Handle!Free(handle)
           /\ owner' = owner /\ process' = None /\ dirty' = FALSE /\ holds' = holds
                => handle' = Handle!Detach(handle)
           /\ owner' = k /\ process' = None /\ dirty' = FALSE /\ holds' = holds
                => handle' = Handle!Take(Handle!Detach(handle), k)
           /\ owner' = None /\ process' = None /\ dirty' = FALSE /\ holds' = holds
                => handle' = Handle!Free(Handle!Detach(handle))
           /\ owner' = owner /\ process' = p /\ dirty' = FALSE /\ holds' = holds
                => handle' = Handle!Attach(handle, p)
           /\ UNCHANGED <<owner, process, holds>> /\ dirty' = d
                => handle' = Handle!Observe(handle, d)
           /\ UNCHANGED <<owner, process, dirty>> /\ holds' = holds + 1
                => handle' = Handle!Reserve(handle)
           /\ UNCHANGED <<owner, process, dirty>> /\ holds' = holds - 1
                => handle' = Handle!Unreserve(handle)
<1>1. handle' = Handle!Of(owner', process', dirty', holds')
  BY DEF handle
<1>2. /\ Handle!Take(handle, k) = Handle!Of(k, process, dirty, holds)
      /\ Handle!Free(handle) = Handle!Of(None, process, dirty, holds)
  BY Shape DEF Handle!Take, Handle!Free
<1>3. /\ Handle!Attach(handle, p) = Handle!Of(owner, p, FALSE, holds)
      /\ Handle!Detach(handle) = Handle!Of(owner, None, FALSE, holds)
  BY Shape DEF Handle!Attach, Handle!Detach
<1>4. /\ Handle!Take(Handle!Detach(handle), k) = Handle!Of(k, None, FALSE, holds)
      /\ Handle!Free(Handle!Detach(handle)) = Handle!Of(None, None, FALSE, holds)
  BY <1>3 DEF Handle!Take, Handle!Free, Handle!Of
<1>5. /\ Handle!Observe(handle, d) = Handle!Of(owner, process, d, holds)
      /\ Handle!Reserve(handle) = Handle!Of(owner, process, dirty, holds + 1)
      /\ Handle!Unreserve(handle) = Handle!Of(owner, process, dirty, holds - 1)
  BY Shape DEF Handle!Observe, Handle!Reserve, Handle!Unreserve
<1> QED  BY <1>1, <1>2, <1>3, <1>4, <1>5 DEF handle

LEMMA OwnerKept == UNCHANGED lockVars => owner' = owner
BY DEF owner, lockVars, Handle!Terminating

LEMMA DetachedHandle ==
    ASSUME NEW p, DetachExpected(p), UNCHANGED <<lockVars, holds>>
    PROVE  handle' = handle \/ handle' = Handle!Detach(handle)
BY Updates, Shape DEF DetachExpected, DetachProcess, owner, Handle!Terminating, lockVars, procVars

LEMMA CallHandle ==
    ASSUME HandleInv, NEW k \in Calls, Call(k) \/ CallRuns(k)
    PROVE  handle' = handle \/ Handle!Step(handle, handle')
<1> USE DEF HandleInv
<1>0. TypeOK /\ pc \in [Calls -> PcStates] /\ k # None
      /\ active \in Jobs \cup {None} /\ starting \in Calls \cup {None}
  BY ConstantsAssumption DEF TypeInv, TypeOK, CallTypes, LockTypes
<1>1. CASE Call(k)
  <2>1. handle' = Handle!Reserve(handle)
    BY <1>1, Updates, Shape DEF Call, Reserve, owner, Handle!Terminating, lockVars, procVars
  <2> QED  BY <2>1 DEF Handle!Step
<1>2. CASE Enter(k) \/ WakeUp(k)
  <2>1. UNCHANGED <<active, terminating, process, dirty, holds>>
    BY <1>2 DEF Enter, WakeUp, TryClaim, procVars
  <2>2. CASE Busy
    BY <1>2, <2>1, <2>2, Updates, Shape DEF Enter, WakeUp, TryClaim, owner, Handle!Terminating
  <2>3. CASE ~Busy
    <3>1. starting' = k /\ ~terminating /\ active = None /\ starting = None
      BY <1>2, <2>3 DEF Enter, WakeUp, TryClaim, Busy
    <3>2. handle.owner = None /\ handle' = Handle!Take(handle, k)
      BY <2>1, <3>1, Updates, Shape DEF owner, Handle!Terminating
    <3> QED  BY <3>2 DEF Handle!Step
  <2> QED  BY <2>2, <2>3
<1>3. CASE StartSpawn(k)
  <2>1. starting = k /\ active = None /\ ~terminating
    BY <1>0, <1>3 DEF StartSpawn, OneOwner, InStartup
  <2>2. UNCHANGED <<active, starting, terminating, holds>> /\ dirty' = FALSE
    BY <1>3 DEF StartSpawn, lockVars
  <2>3. handle.owner \in Calls
    BY <2>1, Updates, Shape DEF owner, Handle!Terminating
  <2>4. CASE process' = k
    <3>1. handle' = Handle!Attach(handle, k)
      BY <2>2, <2>4, Updates, Shape DEF owner, Handle!Terminating
    <3> QED  BY <2>3, <3>1 DEF Handle!Step, Procs
  <2>5. CASE process' = process
    <3>1. handle' = Handle!Observe(handle, FALSE)
      BY <2>2, <2>5, Updates, Shape DEF owner, Handle!Terminating
    <3> QED  BY <3>1 DEF Handle!Step
  <2> QED  BY <1>3, <2>4, <2>5 DEF StartSpawn
<1>4. CASE StartReuse(k) \/ BootRead(k) \/ StopExpected(k)
  <2>1. UNCHANGED <<lockVars, process, dirty, holds>>
    BY <1>4 DEF StartReuse, BootRead, StopExpected, procVars, CallRuns
  <2> QED  BY <2>1, OwnerKept, Updates
<1>5. CASE BootEof(k) \/ DiscardExpected(k)
  <2>1. handle' = handle \/ handle' = Handle!Detach(handle)
    BY <1>5, DetachedHandle DEF BootEof, DiscardExpected
  <2> QED  BY <2>1 DEF Handle!Step
<1>6. CASE Write(k)
  <2>1. UNCHANGED <<starting, terminating, process, dirty, holds>>
    BY <1>6 DEF Write, procVars
  <2>2. active' = active \/ (active' = k /\ ~dropped[k])
    BY <1>6 DEF Write
  <2>3. ~dropped[k] => starting = k /\ active = None
    BY <1>0, <1>6 DEF Write, OneOwner, InStartup
  <2> QED  BY <1>0, <2>1, <2>2, <2>3, Updates, Shape DEF owner, Handle!Terminating
<1>7. CASE Leave(k)
  <2>1. UNCHANGED <<active, terminating, process, dirty, holds>>
    BY <1>7 DEF Leave, procVars
  <2>2. CASE starting # k \/ active # None
    <3>1. starting # k \/ active = starting
      BY <1>0, <2>2 DEF OneOwner
    <3>2. owner' = owner
      BY <1>0, <1>7, <2>1, <2>2, <3>1 DEF Leave, owner, OneOwner
    <3> QED  BY <2>1, <3>2, Updates
  <2>3. CASE starting = k /\ active = None
    <3>1. starting' = None /\ ~terminating
      BY <1>0, <1>7, <2>3 DEF Leave, OneOwner
    <3>2. handle.owner = k /\ handle' = Handle!Free(handle)
      BY <2>1, <2>3, <3>1, Updates, Shape DEF owner, Handle!Terminating
    <3> QED  BY <3>2 DEF Handle!Step
  <2> QED  BY <2>2, <2>3
<1>8. CASE Release(k)
  <2>1. handle' = Handle!Unreserve(handle)
    BY <1>8, Updates, Shape DEF Release, Unreserve, owner, Handle!Terminating, lockVars, procVars
  <2> QED  BY <2>1 DEF Handle!Step
<1> QED
  BY <1>1, <1>2, <1>3, <1>4, <1>5, <1>6, <1>7, <1>8 DEF CallRuns

LEMMA FinishHandle ==
    ASSUME HandleInv, NEW j \in Jobs, NEW b \in BOOLEAN, Finish(j, b),
           UNCHANGED <<starting, terminating, holds>>, j \in Submits => pc[j] = "done"
    PROVE  handle' = handle \/ Handle!Step(handle, handle')
<1>1. CASE active # j
  BY <1>1, Updates, Shape DEF Finish, owner, Handle!Terminating, procVars
<1>2. CASE active = j
  <2>1. j # None /\ j \in Calls \cup Timers /\ (j \in Calls => j \in Submits)
    BY ConstantsAssumption DEF Jobs, Calls
  <2>2. starting = None /\ ~terminating
    BY <1>2, <2>1, ConstantsAssumption DEF HandleInv, OneOwner, TypeInv, TypeOK, LockTypes
  <2>3. handle.owner = j /\ active' = None
    BY <1>2, <2>1, <2>2, Updates, Shape DEF owner, Finish, Handle!Terminating
  <2>4. \/ UNCHANGED <<process, dirty>>
        \/ process' = None /\ dirty' = FALSE
    BY <1>2 DEF Finish, DetachProcess, procVars
  <2>5. handle' = Handle!Free(handle) \/ handle' = Handle!Free(Handle!Detach(handle))
    BY <2>2, <2>3, <2>4, Updates, Shape DEF owner, Handle!Terminating
  <2> QED  BY <2>1, <2>3, <2>5 DEF Handle!Step
<1> QED  BY <1>1, <1>2

LEMMA StreamHandle ==
    ASSUME HandleInv, NEW j \in Jobs, StreamStep(j)
    PROVE  handle' = handle \/ Handle!Step(handle, handle')
<1>0. UNCHANGED <<starting, terminating, holds>>
  BY DEF StreamStep
<1>1. CASE Advance(j) \/ ReadLine(j) \/ Yield(j)
  BY <1>0, <1>1, Updates, Shape DEF Advance, ReadLine, Yield, owner, Handle!Terminating, procVars
<1>2. CASE ReadEof(j)
  <2>1. handle' = handle \/ handle' = Handle!Detach(handle)
    BY <1>0, <1>2, DetachedHandle DEF ReadEof, lockVars
  <2> QED  BY <2>1 DEF Handle!Step
<1>3. CASE Observe(j)
  <2>1. dirty' \in BOOLEAN
    BY <1>3 DEF Observe, DirtyAfter, HandleInv, TypeInv, TypeOK, ProcTypes
  <2>2. handle' = Handle!Observe(handle, dirty')
    BY <1>0, <1>3, Updates, Shape DEF Observe, owner, Handle!Terminating
  <2> QED  BY <2>1, <2>2 DEF Handle!Step
<1>4. CASE Abandon(j)
  <2>1. j \in Submits => pc[j] = "done"
    BY <1>4 DEF Abandon, HandleInv, StreamsHanded
  <2> QED  BY <1>0, <1>4, <2>1, FinishHandle DEF Abandon, Terminal
<1> QED  BY <1>1, <1>2, <1>3, <1>4 DEF StreamStep

LEMMA CloseHandle ==
    ASSUME HandleInv, NEW j \in Submits, Close(j) \/ CloseFinish(j)
    PROVE  handle' = handle \/ Handle!Step(handle, handle')
<1>1. CASE Close(j)
  BY <1>1, Updates, Shape DEF Close, owner, Handle!Terminating, lockVars, procVars
<1>2. CASE CloseFinish(j)
  <2>1. j \in Jobs /\ pc[j] = "done"
    BY <1>2 DEF CloseFinish, HandleInv, StreamsHanded, Jobs
  <2> QED  BY <1>2, <2>1, FinishHandle DEF CloseFinish
<1> QED  BY <1>1, <1>2

LEMMA KillHandle ==
    ASSUME HandleInv, NEW x \in Killers, Terminate(x) \/ KillRuns(x)
    PROVE  handle' = handle \/ Handle!Step(handle, handle')
<1> USE DEF HandleInv, TypeInv, TypeOK, LockTypes
<1>1. CASE Terminate(x)
  BY <1>1, Updates, Shape DEF Terminate, owner, Handle!Terminating, lockVars, procVars
<1>2. CASE Seize(x) /\ UNCHANGED holds
  <2>1. CASE UNCHANGED <<lockVars, procVars>>
    BY <1>2, <2>1, OwnerKept, Updates DEF procVars
  <2>2. CASE /\ ~terminating /\ terminating' = TRUE /\ DetachProcess
    <3>1. handle.owner \in Calls \cup Timers \cup {None}
      BY <2>2, Shape DEF owner, Jobs, Calls
    <3>2. owner' = Handle!Terminating /\ process' = None /\ dirty' = FALSE
      BY <2>2 DEF DetachProcess, owner
    <3>3. handle' = Handle!Take(Handle!Detach(handle), Handle!Terminating)
      BY <1>2, <3>2, Updates
    <3> QED  BY <3>1, <3>3 DEF Handle!Step
  <2> QED  BY <1>2, <2>1, <2>2 DEF Seize
<1>3. CASE StopVictim(x) /\ UNCHANGED holds
  <2>0. UNCHANGED <<active, starting, process, dirty>> /\ terminating' = FALSE
    BY <1>3 DEF StopVictim, procVars
  <2>1. CASE terminating
    <3>1. active = None /\ starting = None
      BY <2>1 DEF OneOwner
    <3>2. handle.owner = Handle!Terminating /\ owner' = None
      BY <2>0, <2>1, <3>1, Shape DEF owner
    <3>3. handle' = Handle!Free(handle)
      BY <1>3, <2>0, <3>2, Updates
    <3> QED  BY <3>2, <3>3 DEF Handle!Step
  <2>2. CASE ~terminating
    <3>1. owner' = owner
      BY <2>0, <2>2 DEF owner
    <3> QED  BY <1>3, <2>0, <3>1, Updates
  <2> QED  BY <2>1, <2>2
<1> QED  BY <1>1, <1>2, <1>3 DEF KillRuns

LEMMA TimerHandle ==
    ASSUME HandleInv, NEW t \in Timers, TimerRuns(t)
    PROVE  handle' = handle \/ Handle!Step(handle, handle')
<1>0. UNCHANGED <<starting, terminating, process, dirty, holds>>
  BY DEF TimerRuns, procVars
<1>1. CASE UNCHANGED active
  BY <1>0, <1>1, Updates, Shape DEF owner, Handle!Terminating
<1>2. CASE ~UNCHANGED active
  <2>1. /\ active' = t /\ holds = 0 /\ dirty /\ ~Busy /\ process # None
    BY <1>2 DEF TimerRuns, Fire, RunIdle, IdleWrite
  <2>2. t # None
    BY ConstantsAssumption
  <2>3. Handle!Reclaimable(handle) /\ handle' = Handle!Take(handle, t)
    BY <1>0, <2>1, <2>2, Updates, Shape DEF Busy, owner, Handle!Reclaimable, Handle!Terminating
  <2> QED  BY <2>3 DEF Handle!Step
<1> QED  BY <1>1, <1>2

LEMMA UserHandle ==
    ASSUME HandleInv, UserStep
    PROVE  handle' = handle \/ Handle!Step(handle, handle')
<1>0. UNCHANGED <<lockVars, procVars>>
  BY DEF UserStep
<1>1. holds' \in {holds, holds + 1, holds - 1}
  BY DEF UserStep, ConfigureIdle, HoldIdle, ReleaseHold, Reserve, Unreserve
<1>2. \/ handle' = handle \/ handle' = Handle!Reserve(handle)
      \/ handle' = Handle!Unreserve(handle)
  BY <1>0, <1>1, Updates, Shape DEF owner, Handle!Terminating, lockVars, procVars
<1> QED  BY <1>2 DEF Handle!Step

LEMMA HandleStep ==
    ASSUME HandleInv, [Next]_vars
    PROVE  handle' = handle \/ Handle!Step(handle, handle')
<1>1. CASE UNCHANGED vars \/ Rest
  <2>1. UNCHANGED <<lockVars, procVars, holds>>
    BY <1>1 DEF Rest, vars
  <2> QED  BY <2>1, OwnerKept, Updates DEF procVars
<1>2. ASSUME NEW p \in Procs, ChildStep(p) PROVE handle' = handle
  BY <1>2, Updates, Shape DEF ChildStep, transportVars, owner, Handle!Terminating, lockVars, procVars
<1> QED
  BY <1>1, <1>2, CallHandle, StreamHandle, CloseHandle, KillHandle, TimerHandle, UserHandle DEF Next

\* The transport implements the worker the pool is modelled over, whatever the
\* numbers of calls, timers, holds and terminations: nobody takes a worker
\* that has an owner, and no reclamation one that is reserved.
THEOREM Implements == Spec => KeepsHandle
<1>1. Init => HandleInv
  BY InitTypes DEF HandleInv, StreamsHanded, Init, OneOwner, InStartup, TypeInv, Jobs
<1>2. HandleInv /\ [Next]_vars => HandleInv'
  BY TypeStep, OwnerStep, HandedStep DEF HandleInv
<1>3. HandleInv /\ [Next]_vars => [Handle!Step(handle, handle')]_handle
  BY HandleStep
<1> QED  BY <1>1, <1>2, <1>3, PTL DEF Spec, KeepsHandle
=============================================================================
