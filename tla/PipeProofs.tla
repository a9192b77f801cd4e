----------------------------- MODULE PipeProofs -----------------------------
(***************************************************************************)
(* Proofs about WorkerProcess, for any sets of calls, timers, holds and    *)
(* terminations: what is in the pipes of the children, and to whom it      *)
(* belongs. The children themselves: none is forgotten while it runs.      *)
(***************************************************************************)
EXTENDS HandleProofs, SequenceTheorems, FiniteSetTheorems

-----------------------------------------------------------------------------
(* The inductive invariant, in parts.                                        *)

\* A call that has not spawned its child, and one that waits for the child's
\* announcement or gives it up.
Fresh(k)   == pc[k] \in {"new", "entering", "waiting", "woken", "starting"}
Boots(k)   == pc[k] \in {"booting", "discarding"}
BootingNow == starting # None /\ Boots(starting)

Before(k)  == pc[k] \in {"new", "entering", "waiting", "woken"}

\* A call that owns its startup, or has none yet, has not been told otherwise.
Told ==
    \A k \in Calls : /\ starting = k => InStartup(k) /\ ~dropped[k]
                     /\ Before(k) => ~dropped[k]

\* A child is nothing before its call spawns it.
Unspawned ==
    \A k \in Calls : Fresh(k) =>
        ~alive[k] /\ outbox[k] = << >> /\ process # k /\ killer[k] = "off"

\* No stream reads a child, and no command was written to it, before it has
\* announced itself; a child that runs and is read from did so.
Unread ==
    /\ \A k \in Calls : Fresh(k) \/ Boots(k) =>
          inbox[k] = {} /\ \A j \in Jobs : jproc[j] # k
    /\ \A j \in Jobs : jproc[j] \in Running => booted[jproc[j]]
    /\ \A p \in Procs : inbox[p] # {} => alive[p] /\ booted[p]

\* The startup under way is that of the attached child, which has printed at
\* most its announcement.
Startup ==
    \A k \in Calls : Boots(k) =>
        /\ process = k => starting = k
        /\ starting = k => process = k \/ (process = None /\ pc[k] = "discarding")
        /\ pc[k] = "booting" => /\ Len(outbox[k]) <= 1
                                /\ alive[k] /\ ~booted[k] => outbox[k] = << >>

\* A stream that was not told it lost the worker owns it.
Mine ==
    \A j \in Jobs :
        /\ rpc[j] \notin {"none", "closed"} /\ ~invalidated[j] /\ ~ClosedByOther(j)
              => active = j
        /\ rpc[j] = "reading" /\ ClosedByOther(j) => invalidated[j]
        /\ rpc[j] \in {"none", "claimed", "open", "reading"} => ~Terminal(event[j])
        /\ j \in Submits /\ closer[j] = "ending" => rpc[j] \in {"yielded", "closed"}

\* The child of the submission that owns the worker is the attached one, or
\* none is.
Attached == active # None => jproc[active] \in Procs /\ process \in {jproc[active], None}

\* A stream that lost the worker and does not know yet reads, or writes to,
\* another child than the attached one and the one that is now in use.
Stale ==
    \A j \in Jobs : rpc[j] \in {"claimed", "reading"} /\ active # j =>
        /\ jproc[j] # process
        /\ active # None => jproc[j] # jproc[active]

\* A reclamation that has not written its command yet finds its child as the
\* last submission left it, and is the only one to write to it.
Claimed ==
    \A t \in Timers : rpc[t] = "claimed" =>
        /\ inbox[jproc[t]] = {}
        /\ active = t => outbox[jproc[t]] = << >>
        /\ \A u \in Timers : rpc[u] = "claimed" /\ jproc[u] = jproc[t] => u = t

Empty(p) == inbox[p] = {} /\ outbox[p] = << >>

\* Submission j has seen its last event.
Finished(j) ==
    \/ rpc[j] \in {"observing", "yielded", "abandoning"} /\ Terminal(event[j])
    \/ j \in Submits /\ closer[j] = "ending"

\* What is in the pipes of the child in use belongs to the submission that
\* owns the worker, and nothing follows its last event.
Pipe ==
    active # None =>
        LET p == jproc[active] IN
        /\ inbox[p] \subseteq {active}
        /\ \A i \in 1..Len(outbox[p]) :
              /\ outbox[p][i].job = active
              /\ Terminal(outbox[p][i]) => i = Len(outbox[p]) /\ inbox[p] = {}
        /\ Finished(active) => Empty(p)

\* The pipes of a child that is attached, ready and not in use are empty.
Quiet == active = None /\ process # None /\ ~BootingNow => Empty(process)

\* An attached child that runs has been accepted, unless it is starting.
Accepted ==
    /\ process \in Running /\ ~BootingNow => info # "none" /\ booted[process]
    /\ \A k \in Calls : pc[k] = "writing" /\ ~dropped[k] => process # None

\* No child is sent a second command before it has answered the first.
Single == \A p \in Procs : \A a, b \in inbox[p] : a = b

PipeInv ==
    /\ HandleInv /\ Told /\ Unspawned /\ Unread /\ Startup /\ Mine /\ Attached
    /\ Stale /\ Claimed /\ Pipe /\ Quiet /\ Accepted /\ Single

\* What the definitions say of the types, as far as the proofs need it.
LEMMA Typed ==
    ASSUME HandleInv
    PROVE  /\ active \in Jobs \cup {None} /\ starting \in Calls \cup {None}
           /\ process \in Procs \cup {None} /\ info \in {"none", "reclaim", "basic"}
           /\ pc \in [Calls -> PcStates] /\ dropped \in [Calls -> BOOLEAN]
           /\ rpc \in [Jobs -> RpcStates] /\ invalidated \in [Jobs -> BOOLEAN]
           /\ jproc \in [Jobs -> Procs \cup {None}] /\ event \in [Jobs -> Event]
           /\ closer \in [Submits -> {"none", "discarding", "ending", "closed"}]
           /\ alive \in [Procs -> BOOLEAN] /\ booted \in [Procs -> BOOLEAN]
           /\ inbox \in [Procs -> SUBSET Jobs] /\ outbox \in [Procs -> Seq(Event)]
           /\ \A j \in Jobs : rpc[j] \notin {"none", "closed"} => jproc[j] \in Procs
BY DEF HandleInv, TypeInv, TypeOK, LockTypes, ProcTypes, CallTypes, StreamTypes,
       ChildTypes, HasChild

LEMMA Names ==
    /\ Procs = Calls /\ Submits \subseteq Calls /\ Submits \subseteq Jobs
    /\ Timers \subseteq Jobs /\ Jobs = Submits \cup Timers /\ Calls \cap Timers = {}
    /\ None \notin Calls \cup Jobs
BY ConstantsAssumption DEF Procs, Calls, Jobs

-----------------------------------------------------------------------------
(* What the sections change. *)

\* The attached child changes only by a startup that has the worker, and by
\* being detached.
LEMMA ProcessMoves ==
    ASSUME HandleInv, [Next]_vars
    PROVE  \/ process' \in {process, None}
           \/ \E k \in Calls : StartSpawn(k) /\ process' = k
BY DEF HandleInv, Next, vars, procVars, Call, CallRuns, Enter, WakeUp, TryClaim, StartReuse,
       StartSpawn, BootRead, BootEof, DiscardExpected, StopExpected, Write, Leave, Release,
       StreamStep, Advance, ReadLine, ReadEof, Observe, Yield, Abandon, Close, CloseFinish,
       Terminate, KillRuns, Seize, StopVictim, TimerRuns, UserStep, ChildStep, transportVars,
       Rest, DetachExpected, DetachProcess, Finish

\* A call moves by its own steps, but for being woken.
LEMMA PcMoves ==
    ASSUME HandleInv, [Next]_vars, NEW k \in Calls, pc'[k] # pc[k]
    PROVE  (pc[k] = "waiting" /\ pc'[k] = "woken") \/ Call(k) \/ CallRuns(k)
<1>0. pc \in [Calls -> PcStates]
  BY Typed
<1>1. ASSUME NEW c \in Calls, Call(c) \/ CallRuns(c)
      PROVE  c = k \/ pc'[k] \in {pc[k], WokenCalls[k]}
  BY <1>0, <1>1 DEF Call, CallRuns, Enter, WakeUp, TryClaim, StartReuse, StartSpawn, BootRead,
     BootEof, DiscardExpected, StopExpected, Write, Leave, Release, WokenCalls
<1>2. ASSUME NEW j \in Jobs, StreamStep(j) PROVE pc' \in {pc, WokenCalls}
  BY <1>2 DEF StreamStep, Advance, ReadLine, ReadEof, Observe, Yield, Abandon, Finish
<1>3. ASSUME NEW j \in Submits, Close(j) \/ CloseFinish(j) PROVE pc' \in {pc, WokenCalls}
  BY <1>3 DEF Close, CloseFinish, Finish, callVars
<1>4. ASSUME NEW x \in Killers, Terminate(x) \/ KillRuns(x) PROVE pc' \in {pc, WokenCalls}
  BY <1>4 DEF Terminate, KillRuns, Seize, StopVictim, callVars
<1>5. ASSUME NEW t \in Timers, TimerRuns(t) PROVE pc' = pc
  BY <1>5 DEF TimerRuns, callVars
<1>6. ASSUME NEW p \in Procs, ChildStep(p) PROVE pc' = pc
  BY <1>6 DEF ChildStep, transportVars, callVars
<1>7. UserStep \/ Rest \/ UNCHANGED vars => pc' = pc
  BY DEF UserStep, Rest, vars, callVars
<1>8. WokenCalls[k] = IF pc[k] = "waiting" THEN "woken" ELSE pc[k]
  BY DEF WokenCalls
<1> QED  BY <1>1, <1>2, <1>3, <1>4, <1>5, <1>6, <1>7, <1>8 DEF Next

LEMMA AliveMoves ==
    ASSUME HandleInv, [Next]_vars, NEW p \in Procs
    PROVE  /\ alive'[p] => alive[p] \/ (StartSpawn(p) /\ process' = p)
           /\ alive'[p] /\ booted[p] => booted'[p]
           /\ booted'[p] => booted[p] \/ ChildBoots(p)
           /\ alive[p] /\ ~alive'[p] => inbox'[p] = {}
<1> DEFINE Kept == alive'[p] = alive[p] /\ booted'[p] = booted[p]
           Gone == alive'[p] = FALSE /\ booted'[p] = FALSE /\ inbox'[p] = {}
<1>0. alive \in [Procs -> BOOLEAN] /\ booted \in [Procs -> BOOLEAN] /\ Procs = Calls
  BY Typed, Names
<1>1. ASSUME NEW q, Dead(q) PROVE Kept \/ Gone
  BY <1>0, <1>1 DEF Dead
<1>2. ASSUME NEW j, NEW b, Finish(j, b) PROVE Kept \/ Gone
  BY <1>1, <1>2 DEF Finish, childVars
<1>3. ASSUME NEW c \in Calls, Call(c) \/ CallRuns(c), ~StartSpawn(c) PROVE Kept \/ Gone
  BY <1>1, <1>3 DEF Call, CallRuns, Enter, WakeUp, TryClaim, StartReuse, BootRead,
     BootEof, DiscardExpected, StopExpected, Write, Leave, Release, childVars
<1>4. ASSUME NEW c \in Calls, StartSpawn(c)
      PROVE  booted'[p] = booted[p] /\ (Kept \/ (c = p /\ process' = p /\ alive'[p]))
  BY <1>0, <1>4 DEF StartSpawn
<1>5. ASSUME NEW j \in Jobs, StreamStep(j) PROVE Kept \/ Gone
  BY <1>2, <1>5 DEF StreamStep, Advance, ReadLine, ReadEof, Observe, Yield, Abandon, childVars
<1>6. ASSUME NEW j \in Submits, Close(j) \/ CloseFinish(j) PROVE Kept \/ Gone
  BY <1>2, <1>6 DEF Close, CloseFinish, childVars
<1>7. ASSUME NEW x \in Killers, Terminate(x) \/ KillRuns(x) PROVE Kept \/ Gone
  BY <1>1, <1>7 DEF Terminate, KillRuns, Seize, StopVictim, childVars
<1>8. ASSUME NEW t \in Timers, TimerRuns(t) PROVE Kept
  BY <1>8 DEF TimerRuns
<1>9. ASSUME NEW q \in Procs, ChildStep(q) PROVE Kept \/ Gone \/ (alive'[p] = alive[p] /\ booted'[p] /\ ChildBoots(p))
  BY <1>0, <1>1, <1>9 DEF ChildStep, ChildBoots, ChildProgress, ChildAnswers, ChildDies
<1>10. UserStep \/ Rest \/ UNCHANGED vars => Kept
  BY DEF UserStep, Rest, vars, childVars
<1>11. \/ Kept \/ Gone \/ (StartSpawn(p) /\ process' = p /\ alive'[p] /\ booted'[p] = booted[p])
       \/ (alive'[p] = alive[p] /\ booted'[p] /\ ChildBoots(p))
  BY <1>3, <1>4, <1>5, <1>6, <1>7, <1>8, <1>9, <1>10 DEF Next
<1> QED  BY <1>11

\* A line leaves a pipe by being read and enters it by being printed.
LEMMA OutboxMoves ==
    ASSUME HandleInv, [Next]_vars, NEW p \in Procs, outbox'[p] # outbox[p]
    PROVE  \/ BootRead(p)
           \/ \E j \in Jobs : StreamStep(j) /\ ReadLine(j) /\ jproc[j] = p
           \/ ChildStep(p) /\ (ChildBoots(p) \/ ChildProgress(p) \/ ChildAnswers(p))
<1>0. outbox \in [Procs -> Seq(Event)] /\ Procs = Calls
  BY Typed, Names
<1>1. ASSUME NEW j, NEW b, Finish(j, b) PROVE UNCHANGED outbox
  BY <1>1 DEF Finish, Dead, childVars
<1>2. ASSUME NEW c \in Calls, Call(c) \/ CallRuns(c) PROVE c = p /\ BootRead(c)
  BY <1>0, <1>2 DEF Call, CallRuns, Enter, WakeUp, TryClaim, StartReuse, StartSpawn, BootRead,
     BootEof, DiscardExpected, StopExpected, Write, Leave, Release, Dead, childVars
<1>3. ASSUME NEW j \in Jobs, StreamStep(j) PROVE ReadLine(j) /\ jproc[j] = p
  BY <1>0, <1>1, <1>3 DEF StreamStep, Advance, ReadLine, ReadEof, Observe, Yield, Abandon, childVars
<1>4. ASSUME NEW j \in Submits, Close(j) \/ CloseFinish(j) PROVE FALSE
  BY <1>1, <1>4 DEF Close, CloseFinish, childVars
<1>5. ASSUME NEW x \in Killers, Terminate(x) \/ KillRuns(x) PROVE FALSE
  BY <1>5 DEF Terminate, KillRuns, Seize, StopVictim, Dead, childVars
<1>6. ASSUME NEW t \in Timers, TimerRuns(t) PROVE FALSE
  BY <1>6 DEF TimerRuns
<1>7. ASSUME NEW q \in Procs, ChildStep(q)
      PROVE  q = p /\ (ChildBoots(p) \/ ChildProgress(p) \/ ChildAnswers(p))
  BY <1>0, <1>7 DEF ChildStep, ChildBoots, ChildProgress, ChildAnswers, ChildDies, Dead, Emit
<1>8. ~(UserStep \/ Rest \/ UNCHANGED vars)
  BY DEF UserStep, Rest, vars, childVars
<1> QED  BY <1>2, <1>3, <1>4, <1>5, <1>6, <1>7, <1>8 DEF Next

\* The worker is taken for a submission, and let go of, in these sections.
Takes(j) ==
    /\ active # j /\ active' = j
    /\ \/ j \in Submits /\ CallRuns(j) /\ Write(j)
       \/ j \in Timers /\ TimerRuns(j) /\ RunIdle(j)

Ends(j) ==
    /\ active = j /\ active' = None
    /\ \/ StreamStep(j) /\ Abandon(j)
       \/ j \in Submits /\ CloseFinish(j)
       \/ \E x \in Killers : KillRuns(x) /\ Seize(x)

LEMMA ActiveMoves ==
    ASSUME HandleInv, [Next]_vars, active' # active
    PROVE  \E j \in Jobs : Takes(j) \/ Ends(j)
<1>0. active \in Jobs \cup {None} /\ Submits \subseteq Jobs /\ Timers \subseteq Jobs
  BY Typed, Names
<1>1. ASSUME NEW j \in Jobs, NEW b, Finish(j, b) PROVE active = j /\ active' = None
  BY <1>1 DEF Finish
<1>2. ASSUME NEW c \in Calls, Call(c) \/ CallRuns(c) PROVE c \in Submits /\ Takes(c)
  BY <1>2 DEF Call, CallRuns, Enter, WakeUp, TryClaim, StartReuse, StartSpawn, BootRead,
     BootEof, DiscardExpected, StopExpected, Write, Leave, Release, lockVars, Takes
<1>3. ASSUME NEW j \in Jobs, StreamStep(j) PROVE Ends(j)
  BY <1>1, <1>3 DEF StreamStep, Advance, ReadLine, ReadEof, Observe, Yield, Abandon, Ends
<1>4. ASSUME NEW j \in Submits, Close(j) \/ CloseFinish(j) PROVE Ends(j)
  BY <1>0, <1>1, <1>4 DEF Close, CloseFinish, lockVars, Ends
<1>5. ASSUME NEW x \in Killers, Terminate(x) \/ KillRuns(x)
      PROVE  active' = None /\ KillRuns(x) /\ Seize(x)
  BY <1>5 DEF Terminate, KillRuns, Seize, StopVictim, lockVars
<1>6. ASSUME NEW t \in Timers, TimerRuns(t) PROVE Takes(t)
  BY <1>6 DEF TimerRuns, Fire, RunIdle, IdleWrite, Takes
<1>7. ASSUME NEW q \in Procs, ChildStep(q) PROVE FALSE
  BY <1>7 DEF ChildStep, transportVars, lockVars
<1>8. ~(UserStep \/ Rest \/ UNCHANGED vars)
  BY DEF UserStep, Rest, vars, lockVars
<1>9. ASSUME NEW x \in Killers, active' = None, KillRuns(x), Seize(x)
      PROVE  active \in Jobs /\ Ends(active)
  BY <1>0, <1>9 DEF Ends
<1> QED  BY <1>0, <1>2, <1>3, <1>4, <1>5, <1>6, <1>7, <1>8, <1>9 DEF Next

\* A command enters a child by the write of a submission that takes the
\* worker, or of a reclamation that has taken it before.
LEMMA InboxMoves ==
    ASSUME HandleInv, [Next]_vars, NEW p \in Procs, ~(inbox'[p] \subseteq inbox[p])
    PROVE  \/ \E k \in Submits : Takes(k) /\ process = p
           \/ \E t \in Timers : /\ TimerRuns(t) /\ IdleWrite(t) /\ jproc[t] = p /\ p \in Running
                                /\ inbox'[p] = inbox[p] \cup {t}
<1>0. inbox \in [Procs -> SUBSET Jobs] /\ Procs = Calls
  BY Typed, Names
<1>1. ASSUME NEW q, Dead(q) PROVE FALSE
  BY <1>0, <1>1 DEF Dead
<1>2. ASSUME NEW j, NEW b, Finish(j, b) PROVE FALSE
  BY <1>1, <1>2 DEF Finish, childVars
<1>3. ASSUME NEW c \in Calls, Call(c) \/ CallRuns(c)
      PROVE  c \in Submits /\ Takes(c) /\ process = p
  <2>1. /\ CallRuns(c) /\ Write(c) /\ ~dropped[c] /\ active' = c /\ c \in Submits
        /\ inbox' = [inbox EXCEPT ![process] = @ \cup {c}]
    BY <1>0, <1>1, <1>3 DEF Call, CallRuns, Enter, WakeUp, TryClaim, StartReuse, StartSpawn,
       BootRead, BootEof, DiscardExpected, StopExpected, Write, Leave, Release, childVars
  <2>2. active # c
    BY <2>1, Typed, Names DEF Write, HandleInv, OneOwner, InStartup
  <2> QED  BY <1>0, <2>1, <2>2 DEF Takes
<1>4. ASSUME NEW j \in Jobs, StreamStep(j) PROVE FALSE
  BY <1>2, <1>4 DEF StreamStep, Advance, ReadLine, ReadEof, Observe, Yield, Abandon, childVars
<1>5. ASSUME NEW j \in Submits, Close(j) \/ CloseFinish(j) PROVE FALSE
  BY <1>2, <1>5 DEF Close, CloseFinish, childVars
<1>6. ASSUME NEW x \in Killers, Terminate(x) \/ KillRuns(x) PROVE FALSE
  BY <1>1, <1>6 DEF Terminate, KillRuns, Seize, StopVictim, childVars
<1>7. ASSUME NEW t \in Timers, TimerRuns(t)
      PROVE  IdleWrite(t) /\ jproc[t] = p /\ p \in Running /\ inbox'[p] = inbox[p] \cup {t}
  BY <1>0, <1>7 DEF TimerRuns, Fire, RunIdle, IdleWrite
<1>8. ASSUME NEW q \in Procs, ChildStep(q) PROVE FALSE
  BY <1>0, <1>1, <1>8 DEF ChildStep, ChildBoots, ChildProgress, ChildAnswers, ChildDies
<1>9. ~(UserStep \/ Rest \/ UNCHANGED vars)
  BY DEF UserStep, Rest, vars, childVars
<1> QED  BY <1>3, <1>4, <1>5, <1>6, <1>7, <1>8, <1>9 DEF Next

\* What a stream knows changes by its own steps, by being taken for it, by
\* being closed, and by a termination.
LEMMA StreamMoves ==
    ASSUME HandleInv, [Next]_vars, NEW j \in Jobs
    PROVE  /\ rpc'[j] # rpc[j] \/ event'[j] # event[j] =>
                StreamStep(j) \/ Takes(j) \/ (j \in Timers /\ TimerRuns(j) /\ IdleWrite(j))
           /\ jproc'[j] # jproc[j] => Takes(j)
           /\ invalidated[j] => invalidated'[j] \/ Takes(j)
           /\ j \in Submits /\ closer'[j] # closer[j] => Close(j) \/ CloseFinish(j)
<1> DEFINE Kept == rpc'[j] = rpc[j] /\ event'[j] = event[j]
           Read == jproc'[j] = jproc[j] /\ (invalidated[j] => invalidated'[j])
           Open == j \in Submits => closer'[j] = closer[j]
<1>0. /\ Submits \subseteq Jobs /\ Timers \subseteq Jobs
      /\ rpc \in [Jobs -> RpcStates] /\ jproc \in [Jobs -> Procs \cup {None}]
      /\ invalidated \in [Jobs -> BOOLEAN] /\ event \in [Jobs -> Event]
      /\ closer \in [Submits -> {"none", "discarding", "ending", "closed"}]
  BY Typed, Names
<1>2. ASSUME NEW c \in Calls, Call(c) \/ CallRuns(c)
      PROVE  Open /\ ((Kept /\ Read) \/ Takes(j))
  <2>1. CASE Write(c)
    <3>1. UNCHANGED <<event, closer, invalidated>> /\ CallRuns(c)
      BY <1>2, <2>1 DEF Write, Call
    <3>2. CASE UNCHANGED <<rpc, jproc>>
      BY <3>1, <3>2
    <3>3. CASE /\ ~dropped[c] /\ active' = c /\ c \in Submits
               /\ rpc' = [rpc EXCEPT ![c] = "open"] /\ jproc' = [jproc EXCEPT ![c] = process]
      <4>1. active = None /\ c # None
        BY <2>1, <3>3, Typed, Names DEF Write, HandleInv, OneOwner, InStartup
      <4> QED  BY <1>0, <2>1, <3>1, <3>3, <4>1 DEF Takes
    <3> QED  BY <2>1, <3>2, <3>3 DEF Write
  <2>2. CASE ~Write(c)
    BY <1>2, <2>2 DEF Call, CallRuns, Enter, WakeUp, TryClaim, StartReuse, StartSpawn, BootRead,
     BootEof, DiscardExpected, StopExpected, Leave, Release, streamVars
  <2> QED  BY <2>1, <2>2
<1>3. ASSUME NEW i \in Jobs, StreamStep(i) PROVE Open /\ Read /\ (Kept \/ i = j)
  BY <1>0, <1>3 DEF StreamStep, Advance, ReadLine, ReadEof, Observe, Yield, Abandon
<1>4. ASSUME NEW i \in Submits, Close(i) \/ CloseFinish(i) PROVE Kept /\ Read /\ (Open \/ i = j)
  BY <1>0, <1>4 DEF Close, CloseFinish
<1>5. ASSUME NEW x \in Killers, Terminate(x) \/ KillRuns(x) PROVE Kept /\ Read /\ Open
  BY <1>0, <1>5 DEF Terminate, KillRuns, Seize, StopVictim, Invalidate, streamVars
<1>6. ASSUME NEW t \in Timers, TimerRuns(t)
      PROVE  Open /\ ((Kept /\ Read) \/ Takes(j) \/ (Read /\ j \in Timers /\ TimerRuns(j) /\ IdleWrite(j)))
  <2>1. CASE Fire(t)
    BY <1>6, <2>1 DEF TimerRuns, Fire
  <2>2. CASE RunIdle(t)
    <3>1. t # None /\ UNCHANGED closer
      BY <1>6, ConstantsAssumption DEF TimerRuns
    <3>2. CASE UNCHANGED <<rpc, jproc, invalidated, event>>
      BY <3>1, <3>2
    <3>3. CASE /\ ~Busy /\ active' = t
               /\ rpc' = [rpc EXCEPT ![t] = "claimed"] /\ jproc' = [jproc EXCEPT ![t] = process]
               /\ invalidated' = [invalidated EXCEPT ![t] = FALSE]
               /\ event' = [event EXCEPT ![t] = NoEvent]
      <4>1. Takes(t)
        BY <1>6, <2>2, <3>1, <3>3 DEF Takes, Busy
      <4> QED  BY <1>0, <3>1, <3>3, <4>1
    <3> QED  BY <2>2, <3>2, <3>3 DEF RunIdle
  <2>3. CASE IdleWrite(t)
    BY <1>0, <1>6, <2>3 DEF TimerRuns, IdleWrite
  <2> QED  BY <1>6, <2>1, <2>2, <2>3 DEF TimerRuns
<1>7. ASSUME NEW q \in Procs, ChildStep(q) PROVE Kept /\ Read /\ Open
  BY <1>7 DEF ChildStep, transportVars, streamVars
<1>8. UserStep \/ Rest \/ UNCHANGED vars => Kept /\ Read /\ Open
  BY DEF UserStep, Rest, vars, streamVars
<1>9. (\E i \in Jobs : StreamStep(i)) => Open /\ Read /\ (Kept \/ StreamStep(j))
  BY <1>3
<1>10. (\E i \in Submits : Close(i) \/ CloseFinish(i)) =>
          Kept /\ Read /\ (Open \/ Close(j) \/ CloseFinish(j))
  BY <1>4
<1> HIDE DEF Kept, Read, Open
<1>11. \/ Kept /\ Read /\ Open
       \/ Open /\ Takes(j)
       \/ Open /\ Read /\ StreamStep(j)
       \/ Kept /\ Read /\ (Close(j) \/ CloseFinish(j))
       \/ Open /\ Read /\ j \in Timers /\ TimerRuns(j) /\ IdleWrite(j)
  BY <1>2, <1>5, <1>6, <1>7, <1>8, <1>9, <1>10 DEF Next
<1> QED  BY <1>11 DEF Kept, Read, Open

\* Whoever takes the worker gets the attached child, with empty pipes.
LEMMA Taking ==
    ASSUME PipeInv, NEW j \in Jobs, Takes(j)
    PROVE  /\ active = None /\ ~BootingNow /\ j # None
           /\ process \in Procs /\ process' = process /\ Empty(process)
           /\ process \in Running => booted[process]
           /\ jproc' = [jproc EXCEPT ![j] = process]
           /\ \A i \in Jobs : i # j => rpc'[i] = rpc[i] /\ event'[i] = event[i]
                                       /\ invalidated'[i] = invalidated[i]
           /\ UNCHANGED <<starting, closer, outbox, alive, booted>>
           /\ \/ /\ j \in Submits /\ rpc'[j] = "open" /\ event'[j] = event[j] /\ closer[j] = "none"
                 /\ inbox' = [inbox EXCEPT ![process] = {j}] /\ process \in Running
              \/ /\ j \in Timers /\ rpc'[j] = "claimed" /\ event'[j] = NoEvent
                 /\ UNCHANGED inbox
<1> USE DEF PipeInv
<1>0. /\ active \in Jobs \cup {None} /\ starting \in Calls \cup {None}
      /\ process \in Procs \cup {None} /\ rpc \in [Jobs -> RpcStates]
      /\ jproc \in [Jobs -> Procs \cup {None}] /\ event \in [Jobs -> Event]
      /\ invalidated \in [Jobs -> BOOLEAN]
      /\ inbox \in [Procs -> SUBSET Jobs] /\ j # None
      /\ Submits \subseteq Calls
      /\ closer \in [Submits -> {"none", "discarding", "ending", "closed"}]
  BY Typed, Names
<1>1. CASE j \in Submits /\ CallRuns(j) /\ Write(j)
  <2>1. /\ pc[j] = "writing" /\ ~dropped[j] /\ process \in Running
        /\ inbox' = [inbox EXCEPT ![process] = @ \cup {j}]
        /\ rpc' = [rpc EXCEPT ![j] = "open"] /\ jproc' = [jproc EXCEPT ![j] = process]
        /\ UNCHANGED <<process, event, invalidated, starting, closer, outbox, alive, booted>>
    BY <1>1 DEF Takes, Write, procVars
  <2>2. starting = j /\ active = None
    BY <1>0, <1>1, <2>1 DEF HandleInv, OneOwner, InStartup
  <2>3. ~BootingNow
    BY <2>1, <2>2 DEF BootingNow, Boots
  <2>4. process \in Procs /\ process # None
    BY <2>1, Names DEF Running
  <2>5. Empty(process) /\ booted[process]
    BY <2>1, <2>2, <2>3, <2>4 DEF Quiet, Accepted
  <2>6. closer[j] = "none"
    BY <1>1, <2>1 DEF HandleInv, StreamsHanded
  <2>7. inbox' = [inbox EXCEPT ![process] = {j}]
    BY <1>0, <2>1, <2>4, <2>5 DEF Empty
  <2> QED  BY <1>0, <1>1, <2>1, <2>2, <2>3, <2>4, <2>5, <2>6, <2>7
<1>2. CASE j \in Timers /\ TimerRuns(j) /\ RunIdle(j)
  <2>1. /\ ~Busy /\ process # None
        /\ UNCHANGED <<process, starting, closer, outbox, alive, booted, inbox>>
        /\ rpc' = [rpc EXCEPT ![j] = "claimed"] /\ jproc' = [jproc EXCEPT ![j] = process]
        /\ invalidated' = [invalidated EXCEPT ![j] = FALSE]
        /\ event' = [event EXCEPT ![j] = NoEvent]
    BY <1>2 DEF Takes, TimerRuns, RunIdle, procVars
  <2>2. active = None /\ ~BootingNow
    BY <2>1 DEF Busy, BootingNow
  <2>5. Empty(process) /\ (process \in Running => booted[process])
    BY <2>1, <2>2 DEF Quiet, Accepted
  <2> QED  BY <1>0, <1>2, <2>1, <2>2, <2>5
<1> QED  BY <1>1, <1>2 DEF Takes

LEMMA StartingMoves ==
    ASSUME HandleInv, [Next]_vars, starting' # starting
    PROVE  \/ \E k \in Calls : /\ CallRuns(k) /\ (Enter(k) \/ WakeUp(k)) /\ active = None
                               /\ starting = None /\ starting' = k /\ pc'[k] = "starting"
           \/ \E k \in Calls : Leave(k) /\ starting = k /\ starting' = None
           \/ \E x \in Killers : Seize(x) /\ starting' = None /\ active' = None /\ process' = None
<1>0. pc \in [Calls -> PcStates]
  BY Typed
<1>1. ASSUME NEW c \in Calls, Call(c) \/ CallRuns(c)
      PROVE  \/ /\ CallRuns(c) /\ (Enter(c) \/ WakeUp(c)) /\ active = None
                /\ starting = None /\ starting' = c /\ pc'[c] = "starting"
             \/ Leave(c) /\ starting = c /\ starting' = None
  BY <1>0, <1>1 DEF Call, CallRuns, Enter, WakeUp, TryClaim, Busy, StartReuse, StartSpawn, BootRead,
     BootEof, DiscardExpected, StopExpected, Write, Leave, Release, lockVars
<1>2. ASSUME NEW j \in Jobs, StreamStep(j) PROVE FALSE
  BY <1>2 DEF StreamStep
<1>3. ASSUME NEW j \in Submits, Close(j) \/ CloseFinish(j) PROVE FALSE
  BY <1>3 DEF Close, CloseFinish, lockVars
<1>4. ASSUME NEW x \in Killers, Terminate(x) \/ KillRuns(x)
      PROVE  Seize(x) /\ starting' = None /\ active' = None /\ process' = None
  BY <1>4 DEF Terminate, KillRuns, Seize, StopVictim, lockVars, DetachProcess
<1>5. ASSUME NEW t \in Timers, TimerRuns(t) PROVE FALSE
  BY <1>5 DEF TimerRuns
<1>6. ASSUME NEW q \in Procs, ChildStep(q) PROVE FALSE
  BY <1>6 DEF ChildStep, transportVars, lockVars
<1>7. ~(UserStep \/ Rest \/ UNCHANGED vars)
  BY DEF UserStep, Rest, vars, lockVars
<1> QED  BY <1>1, <1>2, <1>3, <1>4, <1>5, <1>6, <1>7 DEF Next

LEMMA DroppedMoves ==
    ASSUME HandleInv, [Next]_vars, NEW k \in Calls, dropped'[k] # dropped[k]
    PROVE  \/ dropped[k] /\ CallRuns(k) /\ Release(k) /\ pc'[k] = "done"
           \/ ~dropped[k] /\ starting = k /\ starting' = None
<1>0. pc \in [Calls -> PcStates] /\ dropped \in [Calls -> BOOLEAN]
  BY Typed
<1>1. ASSUME NEW c \in Calls, Call(c) \/ CallRuns(c)
      PROVE  dropped[k] /\ c = k /\ CallRuns(k) /\ Release(k) /\ pc'[k] = "done"
  BY <1>0, <1>1 DEF Call, CallRuns, Enter, WakeUp, TryClaim, StartReuse, StartSpawn, BootRead,
     BootEof, DiscardExpected, StopExpected, Write, Leave, Release
<1>2. ASSUME NEW j \in Jobs, StreamStep(j) PROVE FALSE
  BY <1>2 DEF StreamStep
<1>3. ASSUME NEW j \in Submits, Close(j) \/ CloseFinish(j) PROVE FALSE
  BY <1>3 DEF Close, CloseFinish, callVars
<1>4. ASSUME NEW x \in Killers, Terminate(x) \/ KillRuns(x)
      PROVE  ~dropped[k] /\ starting = k /\ starting' = None
  BY <1>0, <1>4 DEF Terminate, KillRuns, Seize, StopVictim, callVars, Invalidate
<1>5. ASSUME NEW t \in Timers, TimerRuns(t) PROVE FALSE
  BY <1>5 DEF TimerRuns, callVars
<1>6. ASSUME NEW q \in Procs, ChildStep(q) PROVE FALSE
  BY <1>6 DEF ChildStep, transportVars, callVars
<1>7. ~(UserStep \/ Rest \/ UNCHANGED vars)
  BY DEF UserStep, Rest, vars, callVars
<1> QED  BY <1>1, <1>2, <1>3, <1>4, <1>5, <1>6, <1>7 DEF Next

\* The sections that detach the child, and what else may take away its offer.
LEMMA Detaching ==
    ASSUME HandleInv, [Next]_vars, process' = None, process # None
    PROVE  \/ \E k \in Calls : CallRuns(k) /\ BootEof(k) /\ process = k
           \/ \E k \in Calls : CallRuns(k) /\ DiscardExpected(k) /\ process = k
           \/ \E j \in Jobs : StreamStep(j) /\ ReadEof(j) /\ process = jproc[j]
           \/ active # None /\ active' = None
           \/ \E x \in Killers : KillRuns(x) /\ Seize(x) /\ starting' = None /\ Invalidate
<1>1. ASSUME NEW c \in Calls, Call(c) \/ CallRuns(c)
      PROVE  CallRuns(c) /\ (BootEof(c) \/ DiscardExpected(c)) /\ process = c
  BY <1>1, Names DEF Call, CallRuns, Enter, WakeUp, TryClaim, StartReuse, StartSpawn, BootRead,
     BootEof, DiscardExpected, StopExpected, Write, Leave, Release, procVars, DetachExpected
<1>2. ASSUME NEW j \in Jobs, StreamStep(j)
      PROVE  \/ ReadEof(j) /\ process = jproc[j]
             \/ active # None /\ active' = None
  BY <1>2, Names DEF StreamStep, Advance, ReadLine, ReadEof, Observe, Yield, Abandon, Finish,
     procVars, DetachExpected
<1>3. ASSUME NEW j \in Submits, Close(j) \/ CloseFinish(j)
      PROVE  active # None /\ active' = None
  BY <1>3, Names DEF Close, CloseFinish, procVars, Finish
<1>4. ASSUME NEW x \in Killers, Terminate(x) \/ KillRuns(x)
      PROVE  KillRuns(x) /\ Seize(x) /\ starting' = None /\ Invalidate
  BY <1>4 DEF Terminate, KillRuns, Seize, StopVictim, procVars
<1>5. ASSUME NEW t \in Timers, TimerRuns(t) PROVE FALSE
  BY <1>5 DEF TimerRuns, procVars
<1>6. ASSUME NEW q \in Procs, ChildStep(q) PROVE FALSE
  BY <1>6 DEF ChildStep, transportVars, procVars
<1>7. ~(UserStep \/ Rest \/ UNCHANGED vars)
  BY DEF UserStep, Rest, vars, procVars
<1> QED  BY <1>1, <1>2, <1>3, <1>4, <1>5, <1>6, <1>7 DEF Next

LEMMA InfoMoves ==
    ASSUME HandleInv, [Next]_vars, info' # info
    PROVE  \/ process' = None
           \/ \E k \in Calls : CallRuns(k) /\ (StartSpawn(k) \/ BootRead(k))
<1>1. ASSUME NEW c \in Calls, Call(c) \/ CallRuns(c)
      PROVE  process' = None \/ (CallRuns(c) /\ (StartSpawn(c) \/ BootRead(c)))
  BY <1>1 DEF Call, CallRuns, Enter, WakeUp, TryClaim, StartReuse, BootEof, DiscardExpected,
     StopExpected, Write, Leave, Release, procVars, DetachExpected, DetachProcess
<1>2. ASSUME NEW j \in Jobs, StreamStep(j) PROVE process' = None
  BY <1>2 DEF StreamStep, Advance, ReadLine, ReadEof, Observe, Yield, Abandon, Finish,
     procVars, DetachExpected, DetachProcess
<1>3. ASSUME NEW j \in Submits, Close(j) \/ CloseFinish(j) PROVE process' = None
  BY <1>3 DEF Close, CloseFinish, procVars, Finish, DetachProcess
<1>4. ASSUME NEW x \in Killers, Terminate(x) \/ KillRuns(x) PROVE process' = None
  BY <1>4 DEF Terminate, KillRuns, Seize, StopVictim, procVars, DetachProcess
<1>5. ASSUME NEW t \in Timers, TimerRuns(t) PROVE FALSE
  BY <1>5 DEF TimerRuns, procVars
<1>6. ASSUME NEW q \in Procs, ChildStep(q) PROVE FALSE
  BY <1>6 DEF ChildStep, transportVars, procVars
<1>7. ~(UserStep \/ Rest \/ UNCHANGED vars)
  BY DEF UserStep, Rest, vars, procVars
<1> QED  BY <1>1, <1>2, <1>3, <1>4, <1>5, <1>6, <1>7 DEF Next

\* A startup timer is nothing before its startup arms it.
LEMMA KillerMoves ==
    ASSUME HandleInv, [Next]_vars, NEW k \in Calls, killer[k] = "off", killer'[k] # "off"
    PROVE  StartSpawn(k)
<1>0. killer \in [Killers -> {"off", "armed", "called", "waiting", "stopping", "done"}]
      /\ k \in Killers /\ k \notin Terminations /\ Calls \subseteq Killers
  BY ConstantsAssumption DEF HandleInv, TypeInv, TypeOK, KillTypes, Killers
<1>1. WokenKillers[k] = "off" /\ WokenKillers \in [Killers -> {"off", "armed", "called", "waiting", "stopping", "done"}]
  BY <1>0 DEF WokenKillers
<1>2. ASSUME NEW c \in Calls, Call(c) \/ CallRuns(c)
      PROVE  StartSpawn(k)
  BY <1>0, <1>1, <1>2 DEF Call, CallRuns, Enter, WakeUp, TryClaim, StartReuse, StartSpawn, BootRead,
     BootEof, DiscardExpected, StopExpected, Write, Leave, Release, killVars, CancelStartupTimer
<1>3. ASSUME NEW j \in Jobs, StreamStep(j) PROVE FALSE
  BY <1>1, <1>3 DEF StreamStep, Advance, ReadLine, ReadEof, Observe, Yield, Abandon, Finish
<1>4. ASSUME NEW j \in Submits, Close(j) \/ CloseFinish(j) PROVE FALSE
  BY <1>1, <1>4 DEF Close, CloseFinish, killVars, Finish
<1>5. ASSUME NEW x \in Killers, Terminate(x) \/ KillRuns(x) PROVE FALSE
  BY <1>0, <1>1, <1>5 DEF Terminate, KillRuns, Seize, StopVictim
<1>6. ASSUME NEW t \in Timers, TimerRuns(t) PROVE FALSE
  BY <1>6 DEF TimerRuns, killVars
<1>7. ASSUME NEW q \in Procs, ChildStep(q) PROVE FALSE
  BY <1>7 DEF ChildStep, transportVars, killVars
<1>8. ~(UserStep \/ Rest \/ UNCHANGED vars)
  BY DEF UserStep, Rest, vars, killVars
<1> QED  BY <1>2, <1>3, <1>4, <1>5, <1>6, <1>7, <1>8 DEF Next

\* How far a call is. Its child is spawned by StartSpawn, and its startup
\* begins there.
LEMMA Stages ==
    ASSUME HandleInv, [Next]_vars, NEW k \in Calls
    PROVE  /\ Fresh(k)' => Fresh(k) /\ ~StartSpawn(k)
           /\ Before(k)' => Before(k)
           /\ InStartup(k) /\ ~InStartup(k)' => Leave(k)
           /\ Boots(k)' => Boots(k) \/ StartSpawn(k)
           /\ StartSpawn(k) => pc[k] = "starting"
           /\ BootRead(k) \/ BootEof(k) => pc[k] = "booting"
           /\ pc'[k] = "booting" => pc[k] = "booting" \/ StartSpawn(k)
           /\ Boots(k) /\ ~Boots(k)' =>
                CallRuns(k) /\ (BootRead(k) \/ DiscardExpected(k))
           /\ pc[k] = "booting" /\ pc'[k] = "discarding" =>
                CallRuns(k) /\ (BootRead(k) \/ BootEof(k))
           /\ pc'[k] = "writing" =>
                \/ pc[k] = "writing"
                \/ CallRuns(k) /\ StartReuse(k) /\ ~dropped[k] /\ process \in Running
                \/ /\ CallRuns(k) /\ BootRead(k) /\ ~dropped[k]
           /\ pc[k] \in {"starting", "booting", "discarding", "stopping", "writing"} => pc'[k] # "done"
<1>0. pc \in [Calls -> PcStates]
  BY Typed
<1>1. CASE pc'[k] = pc[k]
  BY <1>0, <1>1 DEF Fresh, Before, InStartup, Boots, StartSpawn, BootRead, BootEof, AfterReady
<1>2. CASE pc[k] = "waiting" /\ pc'[k] = "woken"
  BY <1>2 DEF Fresh, Before, InStartup, Boots, StartSpawn, BootRead, BootEof
<1>3. CASE Call(k) \/ CallRuns(k)
  BY <1>0, <1>3, WokenTypes, ZenonT(60)
  DEF Fresh, Before, InStartup, Boots, Call, CallRuns, Enter, WakeUp, TryClaim, StartReuse, StartSpawn, BootRead,
     BootEof, DiscardExpected, StopExpected, Write, Leave, Release, AfterReady, WokenCalls
<1> QED  BY <1>1, <1>2, <1>3, PcMoves

-----------------------------------------------------------------------------
(* Every part of the invariant is kept by every step.                        *)

LEMMA ToldStep ==
    ASSUME PipeInv, [Next]_vars
    PROVE  Told'
<1>0. HandleInv /\ Told /\ None \notin Calls
  BY Names DEF PipeInv
<1>1. ASSUME NEW k \in Calls, starting' = k PROVE InStartup(k)' /\ ~dropped'[k]
  <2>1. CASE starting = k
    BY <1>0, <1>1, <2>1, Stages, DroppedMoves DEF Told, Leave
  <2>2. CASE starting # k
    <3>1. (Enter(k) \/ WakeUp(k)) /\ pc'[k] = "starting"
      BY <1>0, <1>1, <2>2, StartingMoves
    <3>2. Before(k)
      BY <3>1 DEF Enter, WakeUp, Before
    <3>3. InStartup(k)'
      BY <3>1 DEF InStartup
    <3>4. starting = None
      BY <1>0, <1>1, <2>2, StartingMoves
    <3> QED  BY <1>0, <3>2, <3>3, <3>4, DroppedMoves DEF Told
  <2> QED  BY <2>1, <2>2
<1>2. ASSUME NEW k \in Calls, Before(k)' PROVE ~dropped'[k]
  <2>1. Before(k) /\ ~dropped[k]
    BY <1>0, <1>2, Stages DEF Told
  <2>2. starting # k
    BY <1>0, <2>1 DEF Told, InStartup, Before
  <2> QED  BY <1>0, <2>1, <2>2, DroppedMoves
<1> QED  BY <1>1, <1>2 DEF Told

LEMMA UnspawnedStep ==
    ASSUME PipeInv, [Next]_vars
    PROVE  Unspawned'
<1> SUFFICES ASSUME NEW k \in Calls, Fresh(k)'
             PROVE  ~alive'[k] /\ outbox'[k] = << >> /\ process' # k /\ killer'[k] = "off"
  BY DEF Unspawned
<1>0. HandleInv /\ k # None /\ k \in Procs
  BY Names DEF PipeInv
<1>1. Fresh(k) /\ ~StartSpawn(k)
  BY <1>0, Stages
<1>2. ~alive[k] /\ outbox[k] = << >> /\ process # k /\ killer[k] = "off"
      /\ \A j \in Jobs : jproc[j] # k
  BY <1>1 DEF PipeInv, Unspawned, Unread
<1>3. ~alive'[k] /\ process' # k /\ killer'[k] = "off"
  BY <1>0, <1>1, <1>2, AliveMoves, ProcessMoves, KillerMoves
<1>4. outbox'[k] = << >>
  BY <1>0, <1>1, <1>2, OutboxMoves, Stages
     DEF Fresh, ChildBoots, ChildProgress, ChildAnswers
<1> QED  BY <1>3, <1>4

\* A startup that has the worker has it alone.
LEMMA Starting ==
    ASSUME PipeInv, NEW k \in Calls, StartSpawn(k)
    PROVE  /\ starting = k /\ active = None /\ Fresh(k) /\ starting' = k /\ active' = None
           /\ pc'[k] \in {"booting", "leaving"}
           /\ process' = k => BootingNow' /\ pc'[k] = "booting"
<1>1. pc[k] = "starting" /\ ~dropped[k] /\ UNCHANGED <<starting, active>>
  BY DEF StartSpawn, lockVars
<1>2. starting = k /\ active = None
  BY <1>1, Names, Typed DEF PipeInv, HandleInv, OneOwner, InStartup
<1>3. Fresh(k) /\ process # k
  BY <1>1 DEF Fresh, PipeInv, Unspawned
<1>4. pc'[k] \in {"booting", "leaving"} /\ (process' = k => pc'[k] = "booting")
  BY <1>3, Typed DEF StartSpawn, PipeInv
<1>5. process' = k => BootingNow'
  BY <1>1, <1>2, <1>4, Names DEF BootingNow, Boots
<1> QED  BY <1>1, <1>2, <1>3, <1>4, <1>5

LEMMA UnreadStep ==
    ASSUME PipeInv, [Next]_vars
    PROVE  Unread'
<1>0. HandleInv /\ Unspawned /\ Unread /\ Startup /\ Attached
  BY DEF PipeInv
<1>00. /\ Procs = Calls /\ None \notin Calls
       /\ inbox \in [Procs -> SUBSET Jobs] /\ inbox' \in [Procs -> SUBSET Jobs]
       /\ jproc \in [Jobs -> Procs \cup {None}]
       /\ Submits \subseteq Jobs
  <2>1. TypeInv'
    BY <1>0, TypeStep DEF HandleInv
  <2> QED  BY <1>0, <2>1, Names, Typed DEF TypeInv, TypeOK, ChildTypes
<1>1. ASSUME NEW j \in Jobs, Takes(j)
      PROVE  ~Fresh(process) /\ ~Boots(process)
  <2>1. process \in Calls /\ process # None /\ ~BootingNow
    BY <1>0, <1>1, <1>00, Taking
  <2> QED  BY <1>0, <2>1 DEF Unspawned, Startup, BootingNow
<1>2. ASSUME NEW k \in Calls, (Fresh(k) \/ Boots(k))'
      PROVE  inbox'[k] = {} /\ \A j \in Jobs : jproc'[j] # k
  <2>1. Fresh(k) \/ Boots(k)
    BY <1>0, <1>2, Stages DEF Fresh
  <2>2. inbox[k] = {} /\ \A j \in Jobs : jproc[j] # k
    BY <1>0, <2>1 DEF Unread
  <2>3. inbox'[k] \subseteq inbox[k]
    BY <1>0, <1>00, <1>1, <2>1, <2>2, InboxMoves, Names
  <2>4. ASSUME NEW j \in Jobs PROVE jproc'[j] # k
    <3>1. CASE Takes(j)
      BY <1>1, <1>00, <2>1, <3>1, Taking
    <3> QED  BY <1>0, <2>2, <3>1, StreamMoves
  <2> QED  BY <2>2, <2>3, <2>4
<1>3. ASSUME NEW j \in Jobs, (jproc[j] \in Running)' PROVE booted'[jproc'[j]]
  <2>1. CASE Takes(j)
    <3>1. jproc'[j] = process /\ process \in Procs /\ UNCHANGED <<alive, booted>>
      BY <1>00, <2>1, Taking
    <3> QED  BY <1>3, <2>1, <3>1, Taking DEF Running
  <2>2. CASE ~Takes(j)
    <3>1. jproc'[j] = jproc[j] /\ jproc[j] \in Procs /\ alive'[jproc[j]]
      BY <1>0, <1>3, <2>2, StreamMoves DEF Running
    <3>2. ~Fresh(jproc[j])
      BY <1>0, <1>00, <3>1 DEF Unread
    <3>3. alive[jproc[j]]
      BY <1>0, <1>00, <3>1, <3>2, AliveMoves, Stages DEF Fresh
    <3>4. booted[jproc[j]]
      BY <1>0, <3>1, <3>3 DEF Unread, Running
    <3> QED  BY <1>0, <3>1, <3>4, AliveMoves
  <2> QED  BY <2>1, <2>2
<1>4. ASSUME NEW p \in Procs, inbox'[p] # {} PROVE alive'[p] /\ booted'[p]
  <2>1. CASE inbox'[p] \subseteq inbox[p]
    BY <1>0, <1>4, <2>1, AliveMoves DEF Unread
  <2>2. ASSUME NEW j \in Submits, Takes(j), process = p PROVE alive'[p] /\ booted'[p]
    <3>1. j \in Jobs /\ j \notin Timers
      BY Names
    <3> QED  BY <2>2, <3>1, Taking DEF Running
  <2>3. ASSUME NEW t \in Timers, TimerRuns(t), IdleWrite(t), jproc[t] = p, p \in Running
        PROVE  alive'[p] /\ booted'[p]
    BY <1>0, <2>3, Names DEF TimerRuns, Unread, Running
  <2> QED  BY <1>0, <2>1, <2>2, <2>3, InboxMoves
<1> QED  BY <1>2, <1>3, <1>4 DEF Unread

\* While a startup has the worker, only that startup or a termination
\* detaches the child.
LEMMA Losing ==
    ASSUME PipeInv, [Next]_vars, process' = None, process # None,
           NEW k \in Calls, starting = k, active = None
    PROVE  \/ starting' = None /\ dropped'[k]
           \/ CallRuns(k) /\ (BootEof(k) \/ DiscardExpected(k)) /\ process = k
<1>0. HandleInv /\ Startup /\ Stale /\ dropped \in [Calls -> BOOLEAN] /\ None \notin Jobs
  BY Names, Typed DEF PipeInv
<1>1. ASSUME NEW c \in Calls, CallRuns(c), BootEof(c) \/ DiscardExpected(c), process = c
      PROVE  c = k
  <2>1. Boots(c)
    BY <1>1 DEF BootEof, DiscardExpected, Boots
  <2> QED  BY <1>0, <1>1, <2>1 DEF Startup
<1>2. ASSUME NEW j \in Jobs, ReadEof(j), process = jproc[j] PROVE FALSE
  BY <1>0, <1>2 DEF ReadEof, Stale
<1>3. ASSUME starting' = None, Invalidate PROVE dropped'[k]
  BY <1>3 DEF Invalidate
<1> QED  BY <1>0, <1>1, <1>2, <1>3, Detaching

LEMMA StartupStep ==
    ASSUME PipeInv, [Next]_vars
    PROVE  Startup'
<1> SUFFICES ASSUME NEW k \in Calls, Boots(k)'
             PROVE  /\ process' = k => starting' = k
                    /\ starting' = k => process' = k \/ (process' = None /\ pc'[k] = "discarding")
                    /\ pc'[k] = "booting" => /\ Len(outbox'[k]) <= 1
                                             /\ alive'[k] /\ ~booted'[k] => outbox'[k] = << >>
  BY DEF Startup
<1>0. HandleInv /\ Told /\ Unspawned /\ Unread /\ Startup /\ k # None /\ k \in Procs
      /\ pc \in [Calls -> PcStates] /\ outbox \in [Procs -> Seq(Event)]
  BY Names, Typed DEF PipeInv
<1>1. CASE StartSpawn(k)
  <2>1. starting' = k /\ pc'[k] = "booting" /\ Fresh(k)
    BY <1>1, Starting DEF Boots
  <2>2. process' = k /\ outbox'[k] = outbox[k]
    BY <1>0, <1>1, <2>1 DEF StartSpawn
  <2> QED  BY <1>0, <2>1, <2>2 DEF Unspawned
<1>2. CASE ~StartSpawn(k)
  <2>1. Boots(k) /\ (pc'[k] = "booting" => pc[k] = "booting")
    BY <1>0, <1>2, Stages
  <2>2. process' = k => process = k /\ starting = k
    BY <1>0, <1>2, <2>1, ProcessMoves DEF Startup
  <2>3. process' = k => starting' = k
    <3>1. ASSUME Leave(k) PROVE FALSE
      BY <2>1, <3>1 DEF Leave, Boots
    <3> QED  BY <1>0, <2>2, <3>1, StartingMoves
  <2>4. ASSUME starting' = k PROVE process' = k \/ (process' = None /\ pc'[k] = "discarding")
    <3>1. starting = k
      <4>1. pc'[k] # "starting"
        BY DEF Boots
      <4> QED  BY <1>0, <2>4, <4>1, StartingMoves
    <3>2. active = None
      BY <1>0, <2>1, <3>1 DEF HandleInv, OneOwner, Boots
    <3>3. process' \in {process, None}
      BY <1>0, <1>2, <3>1, ProcessMoves, Starting
    <3>4. CASE process = None
      <4>1. pc[k] = "discarding"
        BY <1>0, <2>1, <3>1, <3>4 DEF Startup
      <4>2. pc'[k] = "discarding"
        BY <2>1, <4>1 DEF Boots
      <4> QED  BY <3>3, <3>4, <4>2
    <3>5. CASE process = k /\ process' = None
      <4>1. CallRuns(k) /\ (BootEof(k) \/ DiscardExpected(k))
        BY <1>0, <2>4, <3>1, <3>2, <3>5, Losing
      <4>2. ~DiscardExpected(k)
        BY <1>0, <3>5 DEF DiscardExpected, Boots
      <4>3. pc'[k] = "discarding"
        BY <1>0, <4>1, <4>2 DEF BootEof
      <4> QED  BY <3>5, <4>3
    <3>6. process \in {k, None}
      BY <1>0, <2>1, <3>1 DEF Startup
    <3> QED  BY <3>3, <3>4, <3>5, <3>6
  <2>5. ASSUME pc'[k] = "booting"
        PROVE  Len(outbox'[k]) <= 1 /\ (alive'[k] /\ ~booted'[k] => outbox'[k] = << >>)
    <3>1. /\ pc[k] = "booting" /\ Len(outbox[k]) <= 1 /\ inbox[k] = {}
          /\ alive[k] /\ ~booted[k] => outbox[k] = << >>
          /\ \A j \in Jobs : jproc[j] # k
      BY <1>0, <2>1, <2>5 DEF Startup, Unread
    <3>2. CASE outbox'[k] = outbox[k]
      BY <1>0, <1>2, <3>1, <3>2, AliveMoves
    <3>3. CASE outbox'[k] # outbox[k]
      <4>1. ~BootRead(k)
        BY <1>0, <2>5 DEF BootRead, AfterReady
      <4>2. ~ChildProgress(k) /\ ~ChildAnswers(k)
        BY <3>1 DEF ChildProgress, ChildAnswers
      <4>3. ChildBoots(k)
        BY <1>0, <3>1, <3>3, <4>1, <4>2, OutboxMoves
      <4>4. outbox[k] = << >> /\ booted'[k] /\ \E e \in Event : outbox'[k] = Append(outbox[k], e)
        <5>1. PICK e \in Event : Emit(k, e)
          BY <4>3, ConstantsAssumption DEF ChildBoots, Event, ReadyEvent, OtherEvent
        <5> QED  BY <1>0, <3>1, <4>3, <5>1, Typed DEF ChildBoots, Emit
      <4> QED  BY <4>4
    <3> QED  BY <3>2, <3>3
  <2> QED  BY <2>3, <2>4, <2>5
<1> QED  BY <1>1, <1>2

LEMMA MineStep ==
    ASSUME PipeInv, [Next]_vars
    PROVE  Mine'
<1> SUFFICES ASSUME NEW j \in Jobs
             PROVE  /\ rpc'[j] \notin {"none", "closed"} /\ ~invalidated'[j] /\ ~ClosedByOther(j)'
                          => active' = j
                    /\ rpc'[j] = "reading" /\ ClosedByOther(j)' => invalidated'[j]
                    /\ rpc'[j] \in {"none", "claimed", "open", "reading"} => ~Terminal(event'[j])
                    /\ j \in Submits /\ closer'[j] = "ending" => rpc'[j] \in {"yielded", "closed"}
  BY DEF Mine, Terminal
<1>0. /\ HandleInv /\ Mine /\ j # None /\ Submits \cap Timers = {}
      /\ rpc \in [Jobs -> RpcStates] /\ invalidated \in [Jobs -> BOOLEAN]
      /\ closer \in [Submits -> {"none", "discarding", "ending", "closed"}]
      /\ event \in [Jobs -> Event]
  BY Names, Typed DEF PipeInv
<1>1. CASE Takes(j)
  <2>1. active' = j /\ rpc'[j] \in {"open", "claimed"} /\ (j \in Submits => closer'[j] = "none")
    BY <1>0, <1>1, Taking DEF Takes
  <2>2. CASE j \in Submits
    <3>1. rpc[j] \in {"none", "open"} /\ event'[j] = event[j]
      BY <1>0, <1>1, <2>2 DEF Takes, Write, HandleInv, StreamsHanded
    <3> QED  BY <1>0, <2>1, <3>1 DEF Mine, ClosedByOther
  <2>3. CASE j \notin Submits
    BY <1>0, <1>1, <2>1, <2>3, Taking DEF NoEvent, Terminal, ClosedByOther
  <2> QED  BY <2>2, <2>3
<1>2. CASE ~Takes(j)
  <2>0. invalidated[j] => invalidated'[j]
    BY <1>0, <1>2, StreamMoves
  <2>1. CASE StreamStep(j)
    <3>1. UNCHANGED <<invalidated, closer>>
      BY <2>1 DEF StreamStep
    <3>2. ClosedByOther(j)' <=> ClosedByOther(j)
      BY <3>1 DEF ClosedByOther
    <3>3. rpc[j] \notin {"none", "closed"}
      BY <2>1 DEF StreamStep, Advance, ReadLine, ReadEof, Observe, Yield, Abandon
    <3>4. rpc'[j] # "closed" => active' = active
      BY <1>0, <2>1 DEF StreamStep, Advance, ReadLine, ReadEof, Observe, Yield, Abandon
    <3>5. rpc'[j] = "reading" => ~ClosedByOther(j)
      BY <1>0, <2>1 DEF StreamStep, Advance, ReadLine, ReadEof, Observe, Yield, Abandon
    <3>6. rpc'[j] \in {"none", "claimed", "open", "reading"} => ~Terminal(event'[j])
      BY <1>0, <2>1 DEF StreamStep, Advance, ReadLine, ReadEof, Observe, Yield, Abandon, Mine
    <3>7. j \in Submits /\ closer[j] = "ending" => rpc'[j] \in {"yielded", "closed"}
      BY <1>0, <2>1 DEF StreamStep, Advance, ReadLine, ReadEof, Observe, Yield, Abandon, Mine,
         ClosedByOther
    <3> QED  BY <1>0, <3>1, <3>2, <3>3, <3>4, <3>5, <3>6, <3>7 DEF Mine
  <2>2. CASE j \in Timers /\ TimerRuns(j) /\ IdleWrite(j)
    <3>1. rpc[j] = "claimed" /\ UNCHANGED <<active, invalidated, event, closer>>
      BY <2>2 DEF TimerRuns, IdleWrite
    <3>2. rpc'[j] \in {"open", "abandoning"} /\ j \notin Submits
      BY <1>0, <2>2 DEF IdleWrite
    <3> QED  BY <1>0, <3>1, <3>2 DEF Mine, ClosedByOther
  <2>3. CASE rpc'[j] = rpc[j] /\ event'[j] = event[j]
    <3>1. ClosedByOther(j) => ClosedByOther(j)'
      BY <1>0, StreamMoves DEF ClosedByOther, Close, CloseFinish
    <3>2. rpc[j] \notin {"none", "closed"} /\ ~invalidated'[j] /\ ~ClosedByOther(j)' => active' = j
      <4>1. SUFFICES ASSUME rpc[j] \notin {"none", "closed"}, ~invalidated'[j],
                            ~ClosedByOther(j)', active' # j
                     PROVE  FALSE
        OBVIOUS
      <4>2. active = j
        BY <1>0, <2>0, <3>1, <4>1 DEF Mine
      <4>3. Ends(j)
        <5>1. PICK i \in Jobs : Takes(i) \/ Ends(i)
          BY <1>0, <4>1, <4>2, ActiveMoves
        <5>2. ~Takes(i)
          BY <1>0, <4>2, <5>1, Taking
        <5> QED  BY <4>2, <5>1, <5>2 DEF Ends
      <4>4. ~(StreamStep(j) /\ Abandon(j))
        BY <1>0, <2>3, <4>1 DEF Abandon
      <4>5. ~(j \in Submits /\ CloseFinish(j))
        BY <1>0, <4>1 DEF CloseFinish, ClosedByOther
      <4>6. ASSUME NEW x \in Killers, KillRuns(x), Seize(x) PROVE invalidated'[j]
        BY <1>0, <4>1, <4>2, <4>6 DEF Seize, Invalidate, lockVars
      <4> QED  BY <4>1, <4>3, <4>4, <4>5, <4>6 DEF Ends
    <3>3. rpc[j] = "reading" /\ ClosedByOther(j)' => invalidated'[j]
      <4>1. CASE ClosedByOther(j)
        BY <1>0, <2>0, <4>1 DEF Mine
      <4>2. CASE ~ClosedByOther(j)
        BY <1>0, <4>2, StreamMoves DEF ClosedByOther, Close, CloseFinish, InGenerator
      <4> QED  BY <4>1, <4>2
    <3>4. j \in Submits /\ closer'[j] = "ending" => rpc[j] \in {"yielded", "closed"}
      BY <1>0, StreamMoves DEF Mine, Close, CloseFinish
    <3> QED  BY <1>0, <2>3, <3>2, <3>3, <3>4 DEF Mine
  <2> QED  BY <1>0, <1>2, <2>1, <2>2, <2>3, StreamMoves
<1> QED  BY <1>1, <1>2

LEMMA AttachedStep ==
    ASSUME PipeInv, [Next]_vars
    PROVE  Attached'
<1> SUFFICES ASSUME active' # None
             PROVE  jproc'[active'] \in Procs /\ process' \in {jproc'[active'], None}
  BY DEF Attached
<1>0. HandleInv /\ Attached /\ active \in Jobs \cup {None} /\ jproc \in [Jobs -> Procs \cup {None}]
  BY Typed DEF PipeInv
<1>1. ASSUME NEW j \in Jobs, Takes(j) PROVE active' = j /\ jproc'[j] \in Procs /\ process' = jproc'[j]
  BY <1>0, <1>1, Taking DEF Takes
<1>2. CASE active' = active
  <2>1. jproc'[active] = jproc[active]
    BY <1>0, <1>2, StreamMoves DEF Takes
  <2>2. process' \in {process, None}
    BY <1>0, <1>2, ProcessMoves, Starting
  <2> QED  BY <1>0, <1>2, <2>1, <2>2 DEF Attached
<1>3. CASE active' # active
  BY <1>0, <1>1, <1>3, ActiveMoves DEF Ends
<1> QED  BY <1>2, <1>3

LEMMA StaleStep ==
    ASSUME PipeInv, [Next]_vars
    PROVE  Stale'
<1> SUFFICES ASSUME NEW j \in Jobs, rpc'[j] \in {"claimed", "reading"}, active' # j
             PROVE  jproc'[j] # process' /\ (active' # None => jproc'[j] # jproc'[active'])
  BY DEF Stale
<1>0. /\ HandleInv /\ Mine /\ Stale /\ Unread /\ j # None
      /\ rpc \in [Jobs -> RpcStates] /\ jproc \in [Jobs -> Procs \cup {None}]
      /\ \A i \in Jobs : rpc[i] \notin {"none", "closed"} => jproc[i] \in Procs
      /\ None \notin Procs
      /\ closer \in [Submits -> {"none", "discarding", "ending", "closed"}]
  BY Names, Typed DEF PipeInv
<1>1. ~Takes(j) /\ jproc'[j] = jproc[j]
  BY <1>0, StreamMoves DEF Takes
<1>2. rpc[j] = rpc'[j] \/ (rpc[j] = "open" /\ active = j /\ active' = active)
  <2>1. CASE StreamStep(j)
    BY <1>0, <2>1 DEF StreamStep, Advance, ReadLine, ReadEof, Observe, Yield, Abandon, Mine
  <2>2. CASE TimerRuns(j) /\ IdleWrite(j)
    BY <1>0, <2>2 DEF IdleWrite
  <2> QED  BY <1>0, <1>1, <2>1, <2>2, StreamMoves
<1>3. rpc[j] \in {"claimed", "reading"}
  BY <1>2
<1>4. jproc[j] \in Procs
  BY <1>0, <1>3
<1>5. CASE active = j
  <2>1. Ends(j)
    <3>1. PICK i \in Jobs : Takes(i) \/ Ends(i)
      BY <1>0, <1>5, ActiveMoves
    <3>2. ~Takes(i)
      BY <1>0, <1>5, <3>1, Taking
    <3> QED  BY <1>5, <3>1, <3>2 DEF Ends
  <2>2. ~(StreamStep(j) /\ Abandon(j))
    BY <1>3 DEF Abandon
  <2>3. ASSUME j \in Submits, CloseFinish(j) PROVE process' = None
    <3>1. closer[j] = "discarding"
      BY <1>0, <1>3, <2>3 DEF CloseFinish, Mine
    <3> QED  BY <1>5, <2>3, <3>1 DEF CloseFinish, Finish, Discards, DetachProcess
  <2>4. ASSUME NEW x \in Killers, KillRuns(x), Seize(x) PROVE process' = None
    BY <1>5, <2>4 DEF Seize, DetachProcess, lockVars
  <2>5. active' = None /\ process' = None
    BY <2>1, <2>2, <2>3, <2>4 DEF Ends
  <2> QED  BY <1>0, <1>1, <1>4, <2>5
<1>6. CASE active # j
  <2>1. jproc[j] # process /\ (active # None => jproc[j] # jproc[active])
    BY <1>0, <1>3, <1>6 DEF Stale
  <2>2. jproc[j] # process'
    <3>1. ASSUME NEW k \in Calls, StartSpawn(k), process' = k PROVE jproc[j] # k
      BY <1>0, <3>1, Starting DEF Unread
    <3> QED  BY <1>0, <1>4, <2>1, <3>1, ProcessMoves
  <2>3. ASSUME active' # None PROVE jproc[j] # jproc'[active']
    <3>1. CASE active' = active
      <4>1. active \in Jobs /\ ~Takes(active)
        BY <2>3, <3>1, <1>0, Typed DEF Takes
      <4> QED  BY <1>0, <2>1, <2>3, <3>1, <4>1, StreamMoves
    <3>2. CASE active' # active
      <4>1. PICK i \in Jobs : Takes(i)
        BY <1>0, <2>3, <3>2, ActiveMoves DEF Ends
      <4>2. active' = i /\ jproc'[i] = process
        BY <1>0, <4>1, Taking DEF Takes
      <4> QED  BY <2>1, <4>2
    <3> QED  BY <3>1, <3>2
  <2> QED  BY <1>1, <2>2, <2>3
<1> QED  BY <1>5, <1>6

LEMMA ClaimedStep ==
    ASSUME PipeInv, [Next]_vars
    PROVE  Claimed'
<1> SUFFICES ASSUME NEW t \in Timers, rpc'[t] = "claimed"
             PROVE  /\ inbox'[jproc'[t]] = {}
                    /\ active' = t => outbox'[jproc'[t]] = << >>
                    /\ \A u \in Timers : rpc'[u] = "claimed" /\ jproc'[u] = jproc'[t] => u = t
  BY DEF Claimed
<1>0. /\ HandleInv /\ Stale /\ Claimed /\ Unread /\ None \notin Jobs /\ Timers \subseteq Jobs
      /\ rpc \in [Jobs -> RpcStates] /\ inbox \in [Procs -> SUBSET Jobs] /\ Procs = Calls
      /\ \A i \in Jobs : rpc[i] \notin {"none", "closed"} => jproc[i] \in Procs
  BY Names, Typed DEF PipeInv
<1>1. ASSUME NEW u \in Timers, rpc'[u] = "claimed", ~Takes(u)
      PROVE  /\ rpc[u] = "claimed" /\ jproc'[u] = jproc[u] /\ jproc[u] \in Procs
             /\ ~(TimerRuns(u) /\ IdleWrite(u))
  <2>1. ~StreamStep(u) /\ ~(TimerRuns(u) /\ IdleWrite(u))
    BY <1>0, <1>1 DEF StreamStep, Advance, ReadLine, ReadEof, Observe, Yield, Abandon, IdleWrite
  <2> QED  BY <1>0, <1>1, <2>1, StreamMoves
<1>2. ASSUME NEW u \in Timers, NEW v \in Timers, Takes(u), rpc'[v] = "claimed",
             jproc'[v] = jproc'[u]
      PROVE  u = v
  <2>1. active = None /\ jproc'[u] = process /\ active' = u
    BY <1>0, <1>2, Taking, Typed DEF Takes
  <2>2. CASE Takes(v)
    BY <1>2, <2>2 DEF Takes
  <2>3. CASE ~Takes(v)
    <3>1. rpc[v] = "claimed" /\ jproc[v] = process
      BY <1>1, <1>2, <2>1, <2>3
    <3> QED  BY <1>0, <2>1, <3>1 DEF Stale
  <2> QED  BY <2>2, <2>3
<1>3. CASE Takes(t)
  <2>1. /\ process \in Procs /\ Empty(process) /\ jproc' = [jproc EXCEPT ![t] = process]
        /\ UNCHANGED <<inbox, outbox>>
    BY <1>0, <1>3, Taking, Names
  <2>2. jproc'[t] = process
    BY <1>0, <2>1, Typed
  <2> QED  BY <1>2, <1>3, <2>1, <2>2 DEF Empty
<1>4. CASE ~Takes(t)
  <2>1. rpc[t] = "claimed" /\ jproc'[t] = jproc[t] /\ jproc[t] \in Procs /\ ~(TimerRuns(t) /\ IdleWrite(t))
    BY <1>1, <1>4
  <2>2. inbox[jproc[t]] = {}
    BY <2>1 DEF PipeInv, Claimed
  <2>3. inbox'[jproc[t]] \subseteq inbox[jproc[t]]
    <3>1. ASSUME NEW k \in Submits, Takes(k), process = jproc[t] PROVE FALSE
      <4>1. active = None /\ k \in Jobs
        BY <1>0, <3>1, Taking, Names
      <4> QED  BY <1>0, <2>1, <3>1, <4>1 DEF Stale
    <3>2. ASSUME NEW u \in Timers, TimerRuns(u), IdleWrite(u), jproc[u] = jproc[t] PROVE FALSE
      <4>1. u = t
        BY <1>0, <2>1, <3>2 DEF Claimed, IdleWrite
      <4> QED  BY <2>1, <3>2, <4>1
    <3> QED  BY <1>0, <2>1, <3>1, <3>2, InboxMoves
  <2>4. ASSUME active' = t PROVE outbox'[jproc[t]] = << >>
    <3>1. active = t
      <4>1. ASSUME NEW i \in Jobs, Takes(i) \/ Ends(i) PROVE i = t /\ Takes(i)
        BY <1>0, <2>4, <4>1 DEF Takes, Ends
      <4> QED  BY <1>0, <1>4, <2>4, <4>1, ActiveMoves
    <3>2. outbox[jproc[t]] = << >>
      BY <1>0, <2>1, <3>1 DEF Claimed
    <3>3. ASSUME NEW j \in Jobs, ReadLine(j), jproc[j] = jproc[t] PROVE FALSE
      BY <1>0, <2>1, <3>1, <3>3 DEF Stale, ReadLine
    <3>4. ~Boots(jproc[t]) /\ (alive[jproc[t]] => booted[jproc[t]])
      BY <1>0, <2>1 DEF Unread, Running
    <3> QED
      BY <1>0, <2>1, <2>2, <3>2, <3>3, <3>4, OutboxMoves
         DEF BootRead, Boots, ChildBoots, ChildProgress, ChildAnswers
  <2>5. ASSUME NEW u \in Timers, rpc'[u] = "claimed", jproc'[u] = jproc'[t] PROVE u = t
    <3>1. CASE Takes(u)
      BY <1>2, <2>5, <3>1
    <3>2. CASE ~Takes(u)
      <4>1. rpc[u] = "claimed" /\ jproc[u] = jproc[t]
        BY <1>1, <2>1, <2>5, <3>2
      <4> QED  BY <1>0, <2>1, <4>1 DEF Claimed
    <3> QED  BY <3>1, <3>2
  <2>6. inbox'[jproc[t]] = {}
    BY <2>2, <2>3
  <2> QED  BY <2>1, <2>4, <2>5, <2>6
<1> QED  BY <1>3, <1>4

LEMMA SingleStep ==
    ASSUME PipeInv, [Next]_vars
    PROVE  Single'
<1> SUFFICES ASSUME NEW p \in Procs
             PROVE  \A a, b \in inbox'[p] : a = b
  BY DEF Single
<1>0. HandleInv /\ Single /\ Claimed /\ inbox \in [Procs -> SUBSET Jobs] /\ Submits \subseteq Jobs
  BY Names, Typed DEF PipeInv
<1>1. CASE inbox'[p] \subseteq inbox[p]
  BY <1>0, <1>1 DEF Single
<1>2. ASSUME NEW k \in Submits, Takes(k), process = p PROVE inbox'[p] = {k}
  BY <1>0, <1>2, Taking, Names
<1>3. ASSUME NEW t \in Timers, IdleWrite(t), jproc[t] = p PROVE inbox[p] = {}
  BY <1>0, <1>3 DEF Claimed, IdleWrite
<1> QED  BY <1>0, <1>1, <1>2, <1>3, InboxMoves

\* The lines of pipe out belong to job a, and none follows the last one, after
\* which the child has no command (pending) left.
Lines(out, pending, a) ==
    \A i \in 1..Len(out) :
        /\ out[i].job = a
        /\ Terminal(out[i]) => i = Len(out) /\ pending = {}

LEMMA LinesRead ==
    ASSUME NEW a, NEW pending, NEW out \in Seq(Event), Lines(out, pending, a), out # << >>
    PROVE  /\ Lines(Tail(out), pending, a)
           /\ Head(out).job = a
           /\ Terminal(Head(out)) => Tail(out) = << >> /\ pending = {}
<1>1. Len(out) \in Nat /\ Len(out) >= 1 /\ Head(out) = out[1]
  OBVIOUS
<1>2. Tail(out) \in Seq(Event) /\ Len(Tail(out)) = Len(out) - 1
      /\ \A i \in 1..Len(Tail(out)) : Tail(out)[i] = out[i + 1]
  OBVIOUS
<1>3. Lines(Tail(out), pending, a)
  <2> SUFFICES ASSUME NEW i \in 1..Len(Tail(out))
               PROVE  /\ Tail(out)[i].job = a
                      /\ Terminal(Tail(out)[i]) => i = Len(Tail(out)) /\ pending = {}
    BY DEF Lines
  <2>1. i + 1 \in 1..Len(out) /\ Tail(out)[i] = out[i + 1]
    BY <1>1, <1>2
  <2>2. out[i + 1].job = a /\ (Terminal(out[i + 1]) => i + 1 = Len(out) /\ pending = {})
    BY <2>1 DEF Lines
  <2>3. i \in Int /\ (i + 1 = Len(out) => i = Len(out) - 1)
    BY <1>1
  <2>4. i + 1 = Len(out) => i = Len(Tail(out))
    BY <1>2, <2>3
  <2> QED  BY <2>1, <2>2, <2>4
<1>4. ASSUME Terminal(Head(out)) PROVE Tail(out) = << >> /\ pending = {}
  <2>1. 1 \in 1..Len(out) /\ Terminal(out[1])
    BY <1>1, <1>4 DEF Terminal
  <2>2. Len(out) = 1 /\ pending = {}
    BY <2>1 DEF Lines
  <2>3. Len(Tail(out)) = 0
    BY <1>2, <2>2
  <2> QED  BY <1>2, <2>2, <2>3, EmptySeq
<1> QED  BY <1>1, <1>3, <1>4 DEF Lines

LEMMA LinesPrinted ==
    ASSUME NEW a, NEW pending, NEW out \in Seq(Event), Lines(out, pending, a),
           NEW rest, NEW e, e.job = a, pending # {}, Terminal(e) => rest = {}
    PROVE  Lines(Append(out, e), rest, a)
<1>1. \A i \in 1..Len(out) : ~Terminal(out[i]) /\ out[i].job = a
  BY DEF Lines
<1>2. /\ Len(out) \in Nat /\ Len(Append(out, e)) = Len(out) + 1
      /\ Append(out, e)[Len(out) + 1] = e
      /\ \A i \in 1..Len(out) : Append(out, e)[i] = out[i]
  OBVIOUS
<1> QED  BY <1>1, <1>2 DEF Lines

\* What the child prints while it has a command to answer.
LEMMA Printing ==
    ASSUME PipeInv, NEW p \in Procs, ChildProgress(p) \/ ChildAnswers(p)
    PROVE  /\ inbox[p] # {}
           /\ \E e \in [type : {"progress", "completed", "cancelled", "failed"},
                        job : inbox[p], cleanup : {"none", "reuse", "full"}] :
                /\ outbox'[p] = Append(outbox[p], e)
                /\ inbox'[p] \subseteq inbox[p]
                /\ Terminal(e) => inbox'[p] = {}
<1>0. /\ Single /\ inbox \in [Procs -> SUBSET Jobs] /\ outbox \in [Procs -> Seq(Event)]
      /\ retained[p] \in BOOLEAN
  BY Typed DEF PipeInv, HandleInv, TypeInv, TypeOK, ChildTypes
<1>1. CASE ChildProgress(p)
  <2>1. PICK j \in inbox[p] : Emit(p, [type |-> "progress", job |-> j, cleanup |-> "none"])
    BY <1>1 DEF ChildProgress
  <2> DEFINE e == [type |-> "progress", job |-> j, cleanup |-> "none"]
  <2>2. outbox'[p] = Append(outbox[p], e) /\ inbox' = inbox
    BY <1>0, <1>1, <2>1 DEF ChildProgress, Emit
  <2>3. ~Terminal(e)
    BY DEF Terminal
  <2>4. e \in [type : {"progress", "completed", "cancelled", "failed"},
               job : inbox[p], cleanup : {"none", "reuse", "full"}]
    OBVIOUS
  <2> HIDE DEF e
  <2> QED  BY <2>2, <2>3, <2>4
<1>2. CASE ChildAnswers(p)
  <2>0. PICK j \in inbox[p] : \E o \in Outcomes(Operation(j), retained[p]) :
          /\ inbox' = [inbox EXCEPT ![p] = @ \ {j}]
          /\ Emit(p, [type |-> o.type, job |-> j, cleanup |-> o.cleanup])
    BY <1>2 DEF ChildAnswers
  <2>1. PICK o \in Outcomes(Operation(j), retained[p]) :
          /\ inbox' = [inbox EXCEPT ![p] = @ \ {j}]
          /\ Emit(p, [type |-> o.type, job |-> j, cleanup |-> o.cleanup])
    BY <2>0
  <2>2. /\ o.type \in {"completed", "cancelled", "failed"}
        /\ o.cleanup \in {"none", "reuse", "full"}
    BY <1>0, <2>1 DEF Outcomes, Answer
  <2> DEFINE e == [type |-> o.type, job |-> j, cleanup |-> o.cleanup]
  <2>3. outbox'[p] = Append(outbox[p], e)
    BY <1>0, <2>1 DEF Emit
  <2>4. inbox'[p] = {}
    BY <1>0, <2>1 DEF Single
  <2>5. e \in [type : {"progress", "completed", "cancelled", "failed"},
               job : inbox[p], cleanup : {"none", "reuse", "full"}]
    BY <2>2
  <2> HIDE DEF e
  <2> QED  BY <2>3, <2>4, <2>5
<1> QED  BY <1>1, <1>2

LEMMA PipeStep ==
    ASSUME PipeInv, [Next]_vars
    PROVE  Pipe'
<1>0. /\ HandleInv /\ Mine /\ Attached /\ Stale /\ Unread /\ Claimed /\ Pipe
      /\ active \in Jobs \cup {None} /\ Submits \subseteq Jobs /\ Timers \subseteq Jobs
      /\ Submits \cap Timers = {} /\ Procs = Calls /\ None \notin Jobs
      /\ inbox \in [Procs -> SUBSET Jobs] /\ outbox \in [Procs -> Seq(Event)]
      /\ rpc \in [Jobs -> RpcStates] /\ event \in [Jobs -> Event]
      /\ jproc \in [Jobs -> Procs \cup {None}]
      /\ closer \in [Submits -> {"none", "discarding", "ending", "closed"}]
  BY Names, Typed DEF PipeInv
<1>1. ASSUME NEW j \in Jobs, Takes(j) PROVE Pipe'
  <2>1. /\ process \in Procs /\ Empty(process) /\ jproc'[j] = process /\ active' = j
        /\ outbox' = outbox
    BY <1>0, <1>1, Taking DEF Takes
  <2>2. inbox'[process] \subseteq {j}
    <3>1. inbox' = [inbox EXCEPT ![process] = {j}] \/ inbox' = inbox
      BY <1>1, Taking
    <3> QED  BY <1>0, <2>1, <3>1 DEF Empty
  <2>3. ~Finished(j)'
    BY <1>0, <1>1, Taking DEF Finished
  <2> QED  BY <2>1, <2>2, <2>3 DEF Pipe, Empty
<1>2. CASE active' = None
  BY <1>2 DEF Pipe
<1>3. ASSUME NEW a \in Jobs, active = a, active' = a, NEW p \in Procs, jproc[a] = p
      PROVE  Pipe'
  <2>1. jproc'[a] = p /\ \A j \in Jobs : ~Takes(j)
    <3>1. \A j \in Jobs : ~Takes(j)
      BY <1>3 DEF Takes
    <3> QED  BY <1>0, <1>3, <3>1, StreamMoves
  <2>2. /\ inbox[p] \subseteq {a} /\ Lines(outbox[p], inbox[p], a)
        /\ Finished(a) => Empty(p)
    BY <1>0, <1>3 DEF Pipe, Lines
  <2>3. ~Boots(p) /\ (alive[p] => booted[p])
    BY <1>3, <1>0, <2>1 DEF Unread, Running
  <2>4. ASSUME NEW j \in Jobs, rpc[j] \in {"claimed", "reading"}, jproc[j] = p PROVE j = a
    BY <1>0, <1>3, <2>4 DEF Stale
  <2>5. inbox'[p] \subseteq inbox[p] \/ (a \in Timers /\ TimerRuns(a) /\ IdleWrite(a))
    BY <1>3, <1>0, <2>1, <2>4, InboxMoves DEF IdleWrite
  <2>6. outbox'[p] # outbox[p] =>
            \/ StreamStep(a) /\ ReadLine(a)
            \/ ChildStep(p) /\ (ChildProgress(p) \/ ChildAnswers(p))
    BY <1>3, <1>0, <2>1, <2>3, <2>4, OutboxMoves, ZenonT(60) DEF BootRead, Boots, ReadLine, ChildBoots
  <2>7. CASE StreamStep(a)
    <3>1. inbox'[p] \subseteq inbox[p]
      BY <1>3, <1>0, <2>5, <2>7 DEF StreamStep, Advance, ReadLine, ReadEof, Observe, Yield, Abandon, IdleWrite
    <3>2. CASE ReadLine(a)
      <4>1. outbox[p] # << >> /\ outbox'[p] = Tail(outbox[p]) /\ closer' = closer
            /\ rpc[a] = "reading"
        BY <1>3, <1>0, <2>1, <2>7, <3>2 DEF StreamStep, ReadLine
      <4>2. /\ Lines(Tail(outbox[p]), inbox[p], a)
            /\ Terminal(Head(outbox[p])) => Tail(outbox[p]) = << >> /\ inbox[p] = {}
        <5>1. outbox[p] \in Seq(Event)
          BY <1>3, <1>0
        <5> QED  BY <2>2, <4>1, <5>1, LinesRead
      <4>3. Finished(a)' => Terminal(Head(outbox[p]))
        BY <1>3, <1>0, <2>1, <2>7, <3>2, <4>1, ZenonT(60) DEF StreamStep, ReadLine, Finished, Mine
      <4>4. Lines(outbox'[p], inbox'[p], a)
        BY <1>3, <3>1, <4>1, <4>2 DEF Lines
      <4> QED  BY <2>2, <3>1, <4>1, <4>2, <4>3, <4>4, <2>1, <1>3 DEF Pipe, Lines, Empty
    <3>3. CASE ~ReadLine(a)
      <4>1. outbox'[p] = outbox[p]
        BY <1>3, <2>6, <2>7, <3>3, <2>1, Names DEF StreamStep, Advance, ReadEof, Observe, Yield, Abandon,
           childVars, ChildStep, transportVars, streamVars, Finish, Dead
      <4>2. Finished(a)' => Finished(a)
        BY <1>3, <1>0, <2>1, <2>7, <3>3 DEF StreamStep, Advance, ReadEof, Observe, Yield, Abandon,
           Finished, Mine, Terminal
      <4> QED  BY <1>3, <2>1, <2>2, <3>1, <4>1, <4>2 DEF Pipe, Lines, Empty
    <3> QED  BY <1>3, <3>2, <3>3
  <2>8. CASE a \in Timers /\ TimerRuns(a) /\ IdleWrite(a)
    <3>1. rpc[a] = "claimed" /\ UNCHANGED <<outbox, event, closer>> /\ rpc'[a] \in {"open", "abandoning"}
      BY <1>3, <1>0, <2>1, <2>8 DEF TimerRuns, IdleWrite
    <3>2. inbox[p] = {} /\ outbox[p] = << >> /\ inbox'[p] \subseteq {a}
      BY <1>3, <1>0, <2>1, <2>8, <3>1 DEF Claimed, IdleWrite
    <3>3. ~Finished(a)'
      BY <1>3, <1>0, <2>1, <2>8, <3>1 DEF Finished, Mine
    <3> QED  BY <1>3, <2>1, <3>1, <3>2, <3>3 DEF Pipe
  <2>9. CASE ~StreamStep(a) /\ ~(a \in Timers /\ TimerRuns(a) /\ IdleWrite(a))
    <3>1. rpc'[a] = rpc[a] /\ event'[a] = event[a]
      BY <1>3, <1>0, <2>1, <2>9, StreamMoves
    <3>2. Finished(a)' => Finished(a)
      BY <1>3, <1>0, <2>1, <2>9, <3>1, StreamMoves DEF Finished, Close, CloseFinish
    <3>3. inbox'[p] \subseteq inbox[p]
      BY <1>3, <2>5, <2>9
    <3>4. CASE outbox'[p] = outbox[p]
      BY <1>3, <2>1, <2>2, <3>2, <3>3, <3>4 DEF Pipe, Lines, Empty
    <3>5. CASE outbox'[p] # outbox[p]
      <4>1. ChildProgress(p) \/ ChildAnswers(p)
        BY <1>3, <2>6, <2>9, <3>5
      <4>2. PICK e \in [type : {"progress", "completed", "cancelled", "failed"},
                        job : inbox[p], cleanup : {"none", "reuse", "full"}] :
              /\ outbox'[p] = Append(outbox[p], e)
              /\ Terminal(e) => inbox'[p] = {}
        BY <1>3, <2>1, <4>1, Printing
      <4>3. inbox[p] # {} /\ e.job = a
        BY <1>3, <2>2
      <4>4. Lines(outbox'[p], inbox'[p], a)
        BY <1>3, <1>0, <2>1, <2>2, <4>2, <4>3, LinesPrinted
      <4>5. ~Finished(a)'
        BY <1>3, <2>2, <3>2, <4>3 DEF Empty
      <4> QED  BY <1>3, <2>1, <2>2, <3>3, <4>4, <4>5 DEF Pipe, Lines
    <3> QED  BY <1>3, <3>4, <3>5
  <2> QED  BY <1>3, <2>7, <2>8, <2>9
<1>4. CASE active' = active /\ active' # None
  <2>1. active \in Jobs /\ jproc[active] \in Procs
    BY <1>0, <1>4 DEF Attached
  <2> QED  BY <1>3, <1>4, <2>1
<1>5. CASE active' # active /\ active' # None
  BY <1>3, <1>0, <1>1, <1>5, ActiveMoves DEF Ends
<1> QED  BY <1>2, <1>4, <1>5

\* A startup that ends with its child attached leaves it ready, and its pipes
\* empty.
LEMMA Ready ==
    ASSUME PipeInv, [Next]_vars, BootingNow, ~BootingNow', process # None, process' = process
    PROVE  /\ process \in Procs /\ BootRead(process) /\ ~dropped[process]
           /\ inbox'[process] = {} /\ outbox'[process] = << >>
           /\ alive[process] => booted[process]
           /\ info' \in {"reclaim", "basic"}
<1>0. /\ HandleInv /\ Told /\ Startup /\ Unread /\ starting \in Calls /\ Procs = Calls
      /\ inbox \in [Procs -> SUBSET Jobs] /\ outbox \in [Procs -> Seq(Event)]
      /\ pc \in [Calls -> PcStates] /\ None \notin Calls
  BY Names, Typed DEF PipeInv, BootingNow
<1>1. PICK k \in Calls : starting = k /\ process = k /\ Boots(k)
  BY <1>0 DEF BootingNow, Startup
<1>2. starting' = k
  <2>1. ~Leave(k)
    BY <1>1 DEF Leave, Boots
  <2> QED  BY <1>0, <1>1, <2>1, StartingMoves
<1>3. ~Boots(k)'
  BY <1>0, <1>2 DEF BootingNow, Boots
<1>4. CallRuns(k) /\ BootRead(k)
  <2>1. ~DiscardExpected(k)
    BY <1>0, <1>1 DEF DiscardExpected, DetachExpected, DetachProcess
  <2> QED  BY <1>0, <1>1, <1>3, <2>1, Stages
<1>5. /\ Head(outbox[k]).type = "ready" /\ info' = Head(outbox[k]).cleanup
      /\ ~dropped[k] /\ outbox[k] # << >> /\ inbox' = inbox
      /\ outbox'[k] = Tail(outbox[k]) /\ pc[k] = "booting"
  BY <1>0, <1>3, <1>4 DEF BootRead, Boots
<1>6. /\ Len(outbox[k]) <= 1 /\ (alive[k] /\ ~booted[k] => outbox[k] = << >>)
      /\ inbox[k] = {}
  BY <1>0, <1>1, <1>5 DEF Startup, Unread
<1>7. outbox'[k] = << >>
  BY <1>0, <1>5, <1>6, EmptySeq
<1>8. Head(outbox[k]) \in Event
  BY <1>0, <1>5
<1>9. info' \in {"reclaim", "basic"}
  BY <1>5, <1>8 DEF Event, ReadyEvent, OtherEvent
<1> QED  BY <1>0, <1>1, <1>4, <1>5, <1>6, <1>7, <1>9

\* The submission that ends without its child being discarded has read its
\* last event.
LEMMA Ending ==
    ASSUME PipeInv, [Next]_vars, active # None, active' = None, process' = process, process # None
    PROVE  /\ Empty(process)
           /\ UNCHANGED <<inbox, outbox>>
<1>0. HandleInv /\ Attached /\ Pipe /\ active \in Jobs
  BY Typed DEF PipeInv
<1>1. process = jproc[active]
  BY <1>0 DEF Attached
<1>2. PICK j \in Jobs : Ends(j)
  BY <1>0, ActiveMoves, Names DEF Takes
<1>3. active = j
  BY <1>2 DEF Ends
<1>4. ASSUME StreamStep(j), Abandon(j) PROVE Finished(j) /\ UNCHANGED <<inbox, outbox>>
  BY <1>3, <1>4 DEF Abandon, Finish, Discards, DetachProcess, Finished, childVars
<1>5. ASSUME j \in Submits, CloseFinish(j) PROVE Finished(j) /\ UNCHANGED <<inbox, outbox>>
  BY <1>3, <1>5 DEF CloseFinish, Finish, Discards, DetachProcess, Finished, childVars
<1>6. ASSUME NEW x \in Killers, KillRuns(x), Seize(x) PROVE FALSE
  BY <1>6 DEF Seize, DetachProcess, lockVars
<1>7. Finished(j) /\ UNCHANGED <<inbox, outbox>>
  BY <1>2, <1>4, <1>5, <1>6 DEF Ends
<1> QED  BY <1>0, <1>1, <1>3, <1>7 DEF Pipe

LEMMA QuietStep ==
    ASSUME PipeInv, [Next]_vars
    PROVE  Quiet'
<1> SUFFICES ASSUME active' = None, process' # None, ~BootingNow'
             PROVE  inbox'[process'] = {} /\ outbox'[process'] = << >>
  BY DEF Quiet, Empty
<1>0. /\ HandleInv /\ Stale /\ Startup /\ Unread /\ Accepted /\ Quiet
      /\ process \in Procs \cup {None} /\ starting \in Calls \cup {None}
      /\ Procs = Calls /\ None \notin Calls /\ None \notin Jobs
      /\ Submits \subseteq Jobs /\ Timers \subseteq Jobs
  BY Names, Typed DEF PipeInv
<1>1. process' = process
  BY <1>0, ProcessMoves, Starting
<1>2. CASE active # None
  BY <1>1, <1>2, Ending DEF Empty
<1>3. CASE active = None /\ BootingNow
  BY <1>1, <1>3, Ready
<1>4. CASE active = None /\ ~BootingNow
  <2> DEFINE p == process
  <2>1. p \in Procs /\ inbox[p] = {} /\ outbox[p] = << >> /\ (alive[p] => booted[p])
    BY <1>0, <1>1, <1>4 DEF Quiet, Empty, Accepted, Running
  <2>2. ASSUME NEW j \in Jobs, rpc[j] \in {"claimed", "reading"} PROVE jproc[j] # p
    BY <1>0, <1>4, <2>2 DEF Stale
  <2>3. ~Boots(p)
    BY <1>0, <1>4, <2>1 DEF Startup, BootingNow
  <2>4. inbox'[p] \subseteq inbox[p]
    BY <1>0, <2>1, <2>2, InboxMoves DEF IdleWrite, Takes
  <2>5. outbox'[p] = outbox[p]
    BY <1>0, <2>1, <2>2, <2>3, OutboxMoves
       DEF BootRead, Boots, ReadLine, ChildBoots, ChildProgress, ChildAnswers
  <2> QED  BY <1>1, <2>1, <2>4, <2>5
<1> QED  BY <1>2, <1>3, <1>4

LEMMA AcceptedStep ==
    ASSUME PipeInv, [Next]_vars
    PROVE  Accepted'
<1>0. /\ HandleInv /\ Told /\ Startup /\ Stale /\ Unspawned /\ Accepted
      /\ process \in Procs \cup {None} /\ starting \in Calls \cup {None}
      /\ Procs = Calls /\ None \notin Calls
      /\ dropped \in [Calls -> BOOLEAN]
  BY Names, Typed DEF PipeInv
<1>1. ASSUME process' \in Procs, alive'[process'], ~BootingNow'
      PROVE  info' # "none" /\ booted'[process']
  <2>1. process' = process
    BY <1>0, <1>1, ProcessMoves, Starting
  <2>2. ~StartSpawn(process)
    BY <1>0, <1>1, <2>1, Starting DEF Unspawned
  <2>3. alive[process]
    BY <1>0, <1>1, <2>1, <2>2, AliveMoves
  <2>4. process \in Running
    BY <1>1, <2>1, <2>3 DEF Running
  <2>5. CASE BootingNow
    BY <1>0, <1>1, <2>1, <2>3, <2>5, Ready, AliveMoves
  <2>6. CASE ~BootingNow
    <3>1. info # "none" /\ booted[process]
      BY <1>0, <2>4, <2>6 DEF Accepted
    <3>2. ASSUME NEW k \in Calls, CallRuns(k), StartSpawn(k) PROVE FALSE
      BY <2>4, <3>2 DEF StartSpawn
    <3>3. ASSUME NEW k \in Calls, BootRead(k), info' # info PROVE info' # "none"
      <4>1. Head(outbox[k]).type = "ready" /\ info' = Head(outbox[k]).cleanup /\ outbox[k] # << >>
        BY <3>3 DEF BootRead
      <4>2. Head(outbox[k]) \in Event
        BY <1>0, <4>1, Typed
      <4> QED  BY <4>1, <4>2 DEF Event, ReadyEvent, OtherEvent
    <3> QED  BY <1>0, <1>1, <2>1, <3>1, <3>2, <3>3, InfoMoves, AliveMoves
  <2> QED  BY <2>5, <2>6
<1>2. ASSUME NEW k \in Calls, pc'[k] = "writing", ~dropped'[k] PROVE process' # None
  <2>1. ~dropped[k] /\ ~(CallRuns(k) /\ Release(k) /\ pc'[k] = "done")
    BY <1>0, <1>2, DroppedMoves
  <2>2. pc[k] \in {"writing", "starting", "booting"}
    BY <1>0, <1>2, Stages DEF StartReuse, BootRead
  <2>3. starting = k
    BY <1>0, <2>1, <2>2 DEF HandleInv, OneOwner, InStartup
  <2>4. active = None
    BY <1>0, <2>2, <2>3 DEF HandleInv, OneOwner
  <2>5. process # None
    <3>1. CASE pc[k] = "writing"
      BY <1>0, <2>1, <3>1 DEF Accepted
    <3>2. CASE process \in Running
      BY <1>0, <3>2 DEF Running
    <3>3. CASE BootRead(k)
      <4>1. pc[k] = "booting"
        BY <3>3 DEF BootRead
      <4> QED  BY <1>0, <2>3, <4>1 DEF Startup, Boots
    <3> QED  BY <1>0, <1>2, <3>1, <3>2, <3>3, Stages
  <2>6. ASSUME process' = None PROVE FALSE
    <3>1. ~(starting' = None /\ dropped'[k])
      BY <1>2
    <3>2. BootEof(k) \/ DiscardExpected(k)
      BY <1>0, <2>3, <2>4, <2>5, <2>6, <3>1, Losing
    <3> QED  BY <1>0, <1>2, <3>2, Typed DEF BootEof, DiscardExpected
  <2> QED  BY <2>6
<1> QED  BY <1>1, <1>2 DEF Accepted, Running

-----------------------------------------------------------------------------
(* The theorems.                                                             *)

LEMMA PipeInit == Init => PipeInv
<1> SUFFICES ASSUME Init PROVE PipeInv
  OBVIOUS
<1>1. HandleInv
  BY InitTypes DEF HandleInv, StreamsHanded, Init, OneOwner, InStartup, TypeInv, Jobs
<1>2. Told /\ Unspawned
  BY Names DEF Init, Told, Before, Unspawned, Fresh, Killers
<1>3. Unread /\ Startup
  BY Names DEF Init, Unread, Startup, Boots, Running
<1>4. Mine
  BY DEF Init, Mine, Terminal, NoEvent, ClosedByOther
<1>5. Attached /\ Stale /\ Pipe /\ Quiet
  BY DEF Init, Attached, Stale, Pipe, Quiet
<1>6. Claimed /\ Accepted /\ Single
  BY Names DEF Init, Claimed, Accepted, Single, Running
<1> QED  BY <1>1, <1>2, <1>3, <1>4, <1>5, <1>6 DEF PipeInv

LEMMA PipeInvStep == PipeInv /\ [Next]_vars => PipeInv'
<1> SUFFICES ASSUME PipeInv, [Next]_vars PROVE PipeInv'
  OBVIOUS
<1>1. HandleInv'
  BY TypeStep, OwnerStep, HandedStep DEF PipeInv, HandleInv
<1> QED
  BY <1>1, ToldStep, UnspawnedStep, UnreadStep, StartupStep, MineStep, AttachedStep,
     StaleStep, ClaimedStep, PipeStep, QuietStep, AcceptedStep, SingleStep DEF PipeInv

LEMMA PipeAlways == Spec => []PipeInv
BY PipeInit, PipeInvStep, PTL DEF Spec

\* A child never has a second command to answer, and the attached one has none
\* but that of the submission that owns the worker.
THEOREM Commands == Spec => []OneCommand
<1>1. ASSUME PipeInv PROVE OneCommand
  <2>0. /\ inbox \in [Procs -> SUBSET Jobs] /\ process \in Procs \cup {None}
        /\ starting \in Calls \cup {None} /\ Procs = Calls /\ None \notin Calls
    BY <1>1, Names, Typed DEF PipeInv
  <2>1. ASSUME NEW p \in Procs PROVE Cardinality(inbox[p]) <= 1
    <3>1. CASE inbox[p] = {}
      BY <3>1, FS_EmptySet
    <3>2. CASE inbox[p] # {}
      <4>1. PICK a \in inbox[p] : TRUE
        BY <3>2
      <4>2. inbox[p] = {a}
        BY <1>1, <4>1 DEF PipeInv, Single
      <4>3. Cardinality({a}) = 1
        BY FS_Singleton
      <4> QED  BY <4>2, <4>3
    <3> QED  BY <3>1, <3>2
  <2>2. ASSUME process # None PROVE inbox[process] \subseteq {active}
    <3>1. CASE active # None
      BY <1>1, <2>2, <3>1 DEF PipeInv, Attached, Pipe
    <3>2. CASE active = None /\ BootingNow
      <4>1. process = starting /\ Boots(process)
        BY <1>1, <2>0, <2>2, <3>2 DEF PipeInv, Startup, BootingNow
      <4> QED  BY <1>1, <2>0, <2>2, <4>1 DEF PipeInv, Unread
    <3>3. CASE active = None /\ ~BootingNow
      BY <1>1, <2>2, <3>3 DEF PipeInv, Quiet, Empty
    <3> QED  BY <3>1, <3>2, <3>3
  <2> QED  BY <2>1, <2>2 DEF OneCommand
<1> QED  BY <1>1, PipeAlways, PTL

\* Whoever takes the worker gets a child with nothing left to answer or to be
\* read, that has announced itself.
THEOREM Handover == Spec => []CleanHandover
<1>1. ASSUME PipeInv PROVE CleanHandover
  <2>0. Submits \subseteq Calls
    BY Names
  <2>1. process # None /\ ~Busy => inbox[process] = {} /\ outbox[process] = << >>
    BY <1>1 DEF PipeInv, Quiet, Empty, Busy, BootingNow
  <2>2. ASSUME NEW k \in Submits, pc[k] = "writing", ~dropped[k]
        PROVE  process # None /\ (process \in Running => info # "none")
    <3>1. starting = k
      BY <1>1, <2>0, <2>2 DEF PipeInv, HandleInv, OneOwner, InStartup
    <3>2. ~BootingNow
      BY <2>2, <3>1 DEF BootingNow, Boots
    <3> QED  BY <1>1, <2>0, <2>2, <3>2 DEF PipeInv, Accepted
  <2>3. \A p \in Procs : inbox[p] # {} => booted[p]
    BY <1>1 DEF PipeInv, Unread
  <2> QED  BY <2>1, <2>2, <2>3 DEF CleanHandover
<1> QED  BY <1>1, PipeAlways, PTL

\* "Unread events belong to this job and cannot become the next submission's
\* results": every event a stream obtained is of its own submission.
THEOREM OwnEvents == Spec => []EventsStayWithTheirJob
<1>1. Init => PipeInv /\ EventsStayWithTheirJob
  BY PipeInit DEF Init, EventsStayWithTheirJob
<1>2. ASSUME PipeInv, EventsStayWithTheirJob, [Next]_vars
      PROVE  EventsStayWithTheirJob'
  <2> SUFFICES ASSUME NEW j \in Jobs, rpc'[j] \in {"observing", "yielded"}
               PROVE  event'[j].job = j
    BY DEF EventsStayWithTheirJob
  <2>0. /\ HandleInv /\ Mine /\ Attached /\ Pipe /\ j # None
        /\ rpc \in [Jobs -> RpcStates] /\ event \in [Jobs -> Event]
        /\ invalidated \in [Jobs -> BOOLEAN] /\ outbox \in [Procs -> Seq(Event)]
    BY <1>2, Names, Typed DEF PipeInv
  <2>1. CASE rpc'[j] = rpc[j] /\ event'[j] = event[j]
    BY <1>2, <2>1 DEF EventsStayWithTheirJob
  <2>2. CASE Takes(j)
    BY <1>2, <2>2, Taking
  <2>3. CASE j \in Timers /\ TimerRuns(j) /\ IdleWrite(j)
    BY <2>0, <2>3 DEF IdleWrite
  <2>4. CASE StreamStep(j)
    <3>1. CASE ReadLine(j)
      <4>1. /\ ~invalidated[j] /\ rpc[j] = "reading" /\ outbox[jproc[j]] # << >>
            /\ event'[j] = Head(outbox[jproc[j]])
        BY <2>0, <3>1 DEF ReadLine
      <4>2. active = j /\ jproc[j] \in Procs
        BY <2>0, <4>1 DEF Mine, Attached
      <4>3. Lines(outbox[jproc[j]], inbox[jproc[j]], j)
        BY <2>0, <4>2 DEF Pipe, Lines
      <4>4. outbox[jproc[j]] \in Seq(Event)
        BY <2>0, <4>2
      <4>5. Head(outbox[jproc[j]]).job = j
        BY <4>1, <4>3, <4>4, LinesRead
      <4> QED  BY <4>1, <4>5
    <3>2. CASE ~ReadLine(j)
      <4>1. rpc[j] \in {"observing", "yielded"} /\ event'[j] = event[j]
        BY <2>0, <2>4, <3>2 DEF StreamStep, Advance, ReadEof, Observe, Yield, Abandon
      <4> QED  BY <1>2, <4>1 DEF EventsStayWithTheirJob
    <3> QED  BY <3>1, <3>2
  <2>5. CASE rpc'[j] # rpc[j] \/ event'[j] # event[j]
    BY <1>2, <2>0, <2>2, <2>3, <2>4, <2>5, StreamMoves
  <2> QED  BY <2>1, <2>5
<1> QED  BY <1>1, <1>2, PipeInvStep, PTL DEF Spec

-----------------------------------------------------------------------------
(* No child is forgotten: a child leaves _process only dead, or in the hands *)
(* of the thread that stops it.                                              *)

\* Who stops child p.
Stopped(p) ==
    \/ pc[p] = "stopping"
    \/ \E x \in Killers : killer[x] = "stopping" /\ victim[x] = p

LEMMA StoppedStep ==
    ASSUME PipeInv, [Next]_vars, NEW p \in Procs, Stopped(p), alive'[p]
    PROVE  Stopped(p)'
<1>0. /\ HandleInv /\ Unspawned /\ Procs = Calls /\ pc \in [Calls -> PcStates]
      /\ killer \in [Killers -> {"off", "armed", "called", "waiting", "stopping", "done"}]
      /\ victim \in [Killers -> Procs \cup {None}] /\ alive \in [Procs -> BOOLEAN]
      /\ Calls \subseteq Killers
  BY Names, Typed DEF PipeInv, HandleInv, TypeInv, TypeOK, KillTypes, Killers
<1>1. \A x \in Killers : killer[x] = "stopping" => WokenKillers[x] = "stopping"
  BY DEF WokenKillers
<1>2. WokenKillers \in [Killers -> {"off", "armed", "called", "waiting", "stopping", "done"}]
  BY <1>0, WokenTypes DEF HandleInv, TypeInv, TypeOK
<1>3. ASSUME pc[p] = "stopping" PROVE pc'[p] = "stopping"
  <2>1. CallRuns(p) => StopExpected(p)
    BY <1>3 DEF CallRuns, Enter, WakeUp, StartReuse, StartSpawn, BootRead, BootEof,
       DiscardExpected, StopExpected, Write, Leave, Release
  <2>2. ~StopExpected(p)
    BY DEF StopExpected, Dead
  <2> QED  BY <1>0, <1>3, <2>1, <2>2, PcMoves DEF Call
<1>4. ASSUME NEW x \in Killers, killer[x] = "stopping", victim[x] = p
      PROVE  killer'[x] = "stopping" /\ victim'[x] = p
  <2>1. ASSUME NEW c \in Calls, Call(c) \/ CallRuns(c) PROVE killer'[x] = "stopping" /\ victim' = victim
    <3>1. CASE StartSpawn(c)
      <4>1. killer[c] = "off"
        BY <1>0, <3>1 DEF StartSpawn, Unspawned, Fresh
      <4> QED  BY <1>0, <1>4, <3>1, <4>1 DEF StartSpawn
    <3>2. CASE ~StartSpawn(c)
      BY <1>0, <1>1, <1>4, <2>1, <3>2 DEF Call, CallRuns, Enter, WakeUp, TryClaim, StartReuse, BootRead,
         BootEof, DiscardExpected, StopExpected, Write, Leave, Release, killVars, CancelStartupTimer
    <3> QED  BY <3>1, <3>2
  <2>2. ASSUME NEW j \in Jobs, StreamStep(j) PROVE killer'[x] = "stopping" /\ victim' = victim
    BY <1>1, <1>4, <2>2 DEF StreamStep, Advance, ReadLine, ReadEof, Observe, Yield, Abandon, Finish
  <2>3. ASSUME NEW j \in Submits, Close(j) \/ CloseFinish(j)
        PROVE  killer'[x] = "stopping" /\ victim' = victim
    BY <1>1, <1>4, <2>3 DEF Close, CloseFinish, killVars, Finish
  <2>4. ASSUME NEW y \in Killers, Terminate(y) \/ KillRuns(y)
        PROVE  killer'[x] = "stopping" /\ victim'[x] = p
    <3>1. CASE Terminate(y)
      BY <1>0, <1>4, <3>1 DEF Terminate
    <3>2. CASE Seize(y)
      BY <1>0, <1>1, <1>2, <1>4, <3>2 DEF Seize
    <3>3. CASE StopVictim(y)
      <4>1. y # x
        BY <1>0, <1>4, <3>3 DEF StopVictim, Dead
      <4> QED  BY <1>0, <1>1, <1>2, <1>4, <3>3, <4>1 DEF StopVictim
    <3> QED  BY <2>4, <3>1, <3>2, <3>3 DEF KillRuns
  <2>5. ASSUME NEW t \in Timers, TimerRuns(t) PROVE UNCHANGED <<killer, victim>>
    BY <2>5 DEF TimerRuns, killVars
  <2>6. ASSUME NEW q \in Procs, ChildStep(q) PROVE UNCHANGED <<killer, victim>>
    BY <2>6 DEF ChildStep, transportVars, killVars
  <2>7. UserStep \/ Rest \/ UNCHANGED vars => UNCHANGED <<killer, victim>>
    BY DEF UserStep, Rest, vars, killVars
  <2> QED  BY <1>4, <2>1, <2>2, <2>3, <2>4, <2>5, <2>6, <2>7 DEF Next
<1> QED  BY <1>3, <1>4 DEF Stopped

\* A child that is detached while it runs is at once in the hands of the
\* thread that stops it.
LEMMA Detached ==
    ASSUME PipeInv, [Next]_vars, NEW p \in Procs, process = p, process' # p, alive'[p]
    PROVE  Stopped(p)'
<1>0. /\ HandleInv /\ Procs = Calls /\ pc \in [Calls -> PcStates] /\ None \notin Calls
      /\ alive \in [Procs -> BOOLEAN]
      /\ killer \in [Killers -> {"off", "armed", "called", "waiting", "stopping", "done"}]
      /\ victim \in [Killers -> Procs \cup {None}]
      /\ WokenKillers \in [Killers -> {"off", "armed", "called", "waiting", "stopping", "done"}]
  BY Names, Typed, WokenTypes DEF PipeInv, HandleInv, TypeInv, TypeOK, KillTypes
<1>1. alive[p]
  BY <1>0, AliveMoves
<1>2. process' = None /\ p # None
  BY <1>0, <1>1, ProcessMoves DEF StartSpawn, Running
<1>3. ~BootEof(p)
  BY <1>1 DEF BootEof
<1>4. DiscardExpected(p) => pc'[p] = "stopping"
  BY <1>0 DEF DiscardExpected
<1>5. ASSUME NEW j \in Jobs, ReadEof(j), jproc[j] = p PROVE FALSE
  BY <1>1, <1>5 DEF ReadEof
<1>6. ASSUME NEW j, NEW b, Finish(j, b) PROVE FALSE
  BY <1>2, <1>6 DEF Finish, Dead, procVars
<1>7. ASSUME NEW x \in Killers, KillRuns(x), Seize(x)
      PROVE  killer'[x] = "stopping" /\ victim'[x] = p
  BY <1>0, <1>2, <1>7 DEF Seize, procVars
<1>8. ASSUME active # None, active' = None, ~(\E x \in Killers : KillRuns(x) /\ Seize(x)) PROVE FALSE
  <2>1. PICK j \in Jobs : Ends(j)
    BY <1>0, <1>8, ActiveMoves, Names DEF Takes
  <2> QED  BY <1>6, <1>8, <2>1 DEF Ends, Abandon, CloseFinish
<1> QED  BY <1>0, <1>2, <1>3, <1>4, <1>5, <1>7, <1>8, Detaching DEF Stopped

\* No child is forgotten: one that runs without being attached is about to be
\* stopped by the thread that detached it.
THEOREM NoOrphans == Spec => []NoOrphanChild
<1>1. Init => PipeInv /\ NoOrphanChild
  BY PipeInit DEF Init, NoOrphanChild
<1>2. ASSUME PipeInv, NoOrphanChild, [Next]_vars PROVE NoOrphanChild'
  <2> SUFFICES ASSUME NEW p \in Procs, alive'[p], process' # p
               PROVE  Stopped(p)'
    BY DEF NoOrphanChild, Stopped
  <2>1. alive[p]
    BY <1>2, AliveMoves DEF PipeInv
  <2>2. CASE process = p
    BY <1>2, <2>2, Detached
  <2>3. CASE process # p
    <3>1. Stopped(p)
      BY <1>2, <2>1, <2>3 DEF NoOrphanChild, Stopped
    <3> QED  BY <1>2, <3>1, StoppedStep
  <2> QED  BY <2>2, <2>3
<1> QED  BY <1>1, <1>2, PipeInvStep, PTL DEF Spec
=============================================================================
