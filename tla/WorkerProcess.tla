--------------------------- MODULE WorkerProcess ---------------------------
(***************************************************************************)
(* The Python side of the warm worker: WorkerProcess, IdleCleanupMixin,    *)
(* _SubmissionEvents and the tokens of src/src/beat_engine/worker.py.      *)
(*                                                                         *)
(* One object, guarded by one lock with one condition, is shared by        *)
(*   - calls of submit() and ensure_started(),                             *)
(*   - the consumers of the event streams submit() returned,               *)
(*   - calls of terminate() and the startup timers, which call it too,     *)
(*   - idle timers, which submit a reclaim command of their own,           *)
(*   - the child process, which answers on a pipe and may die at any time. *)
(*                                                                         *)
(* An action is one critical section, or one step between two of them.     *)
(* A call k owns everything it may create: k names its startup token, its  *)
(* submission token, the child it spawns and the timer of that startup. An *)
(* idle timer t likewise names the submission token of its reclaim.        *)
(***************************************************************************)
EXTENDS Integers, Sequences, FiniteSets, WorkerAnswers

CONSTANTS
    Submits,        \* calls of submit()
    Fields,         \* those whose operation is "bem_field"; the others solve
    Chatty,         \* those whose command prints an event before the last one
    Ensures,        \* calls of ensure_started()
    Terminations,   \* calls of terminate()
    Holds,          \* calls of hold_idle_cleanup() by the application
    Timers,         \* idle timer threads; an id is used again when it is over
    Announcements,  \* what a ready event may offer: "reclaim" or "basic"
    ThreadedClose,  \* TRUE: close() may find its stream blocked in next()
    MaxConfigure,   \* bound on the calls of configure_idle_cleanup()
    None

Calls    == Submits \cup Ensures
Jobs     == Submits \cup Timers
Procs    == Calls
Killers  == Terminations \cup Calls   \* a call stands for its startup timer

ASSUME ConstantsAssumption ==
    /\ Fields \subseteq Submits /\ Chatty \subseteq Submits
    /\ Submits \cap Ensures = {}
    /\ Calls \cap Timers = {}
    /\ Calls \cap Terminations = {}
    /\ None \notin Calls \cup Timers \cup Terminations
    /\ Announcements \subseteq {"reclaim", "basic"}
    /\ ThreadedClose \in BOOLEAN
    /\ MaxConfigure \in Nat

VARIABLES
    \* the fields of WorkerProcess
    active,       \* _active_submission
    starting,     \* _starting
    terminating,  \* _terminating
    process,      \* _process
    info,         \* _worker_info, as the operations it offers
    \* the fields of IdleCleanupMixin
    idleOn,       \* _idle_cleanup_ms is not None
    dirty,        \* _idle_dirty
    holds,        \* _idle_holds
    idleTimer,    \* _idle_timer
    idleGen,      \* _idle_generation
    timer,        \* an idle timer thread before it claims the worker
    timerGen,     \* the generation it was started with
    configs,      \* calls of configure_idle_cleanup() so far
    held,         \* what each application hold is up to
    \* the calls of submit() and ensure_started()
    pc,           \* where the call stands
    dropped,      \* its _StartupToken.invalidated
    ready,        \* its _StartupToken.ready
    \* the streams
    rpc,          \* where the consumer of the stream stands
    invalidated,  \* _SubmissionToken.invalidated
    discard,      \* _SubmissionToken.discard_on_close
    jproc,        \* the child the stream reads
    event,        \* the event its generator obtained last
    closer,       \* another thread inside close()
    \* terminate()
    killer,       \* where a call of _terminate() stands
    victim,       \* the child it detached
    \* the children
    alive,        \* the child runs
    booted,       \* it has announced ready
    inbox,        \* commands written to it and not yet answered
    outbox,       \* lines it printed and nobody has read
    chatty,       \* it may still print a progress event for its command
    retained      \* it kept solver caches after its last solve

lockVars   == <<active, starting, terminating>>
procVars   == <<process, info, dirty>>
timerVars  == <<idleTimer, idleGen, timer, timerGen>>
userVars   == <<idleOn, configs, held>>
callVars   == <<pc, dropped, ready>>
streamVars == <<rpc, invalidated, discard, jproc, event, closer>>
killVars   == <<killer, victim>>
childVars  == <<alive, booted, inbox, outbox, chatty, retained>>
vars == <<lockVars, procVars, timerVars, holds, userVars, callVars, streamVars,
          killVars, childVars>>

-----------------------------------------------------------------------------
(* What the child prints. "cleanup" is the reason of worker_cleanup, as far *)
(* as the transport tells them apart, and for a ready event the operations. *)
ReadyEvent == [type : {"ready"}, job : {None}, cleanup : {"reclaim", "basic"}]
OtherEvent == [type : {"progress", "completed", "cancelled", "failed"},
               job : Jobs \cup {None}, cleanup : {"none", "reuse", "full"}]
Event == ReadyEvent \cup OtherEvent

NoEvent == [type |-> "progress", job |-> None, cleanup |-> "none"]

\* The events that end a submission. (Mutant: progress does too.)
TerminalOrNot(e) == e.type # "ready"
Terminal(e) == e.type \in {"completed", "cancelled", "failed"}

Init ==
    /\ active = None /\ starting = None /\ terminating = FALSE
    /\ process = None /\ info = "none" /\ dirty = FALSE
    /\ idleOn = FALSE /\ holds = 0 /\ idleTimer = None /\ idleGen = 0
    /\ timer = [t \in Timers |-> "none"] /\ timerGen = [t \in Timers |-> 0]
    /\ configs = 0 /\ held = [h \in Holds |-> "new"]
    /\ pc = [k \in Calls |-> "new"]
    /\ dropped = [k \in Calls |-> FALSE] /\ ready = [k \in Calls |-> FALSE]
    /\ rpc = [j \in Jobs |-> "none"]
    /\ invalidated = [j \in Jobs |-> FALSE] /\ discard = [j \in Jobs |-> FALSE]
    /\ jproc = [j \in Jobs |-> None] /\ event = [j \in Jobs |-> NoEvent]
    /\ closer = [j \in Submits |-> "none"]
    /\ killer = [x \in Killers |-> "off"] /\ victim = [x \in Killers |-> None]
    /\ alive = [p \in Procs |-> FALSE] /\ booted = [p \in Procs |-> FALSE]
    /\ inbox = [p \in Procs |-> {}] /\ outbox = [p \in Procs |-> << >>]
    /\ chatty = [p \in Procs |-> FALSE] /\ retained = [p \in Procs |-> FALSE]

-----------------------------------------------------------------------------
(* Helpers of the critical sections. *)

\* The wait condition of submit() and ensure_started(). (Mutants: it forgets
\* a termination under way, or a submission under way.)
BusyButTerminating == active # None \/ starting # None
BusyButActive == starting # None \/ terminating
Busy == active # None \/ starting # None \/ terminating

\* self._available.notify_all(): every waiter goes on to test its condition.
\* (Mutants: nobody is notified.)
SleepingCalls == pc
WokenCalls == [k \in Calls |-> IF pc[k] = "waiting" THEN "woken" ELSE pc[k]]
SleepingKillers == killer
WokenKillers == [x \in Killers |-> IF killer[x] = "waiting" THEN "called" ELSE killer[x]]

\* _cancel_idle_locked. A generation no timer thread was started with is not
\* counted: nothing can be compared with it.
NextGen == IF \E t \in Timers : timer[t] # "none" /\ timerGen[t] = idleGen
           THEN idleGen + 1 ELSE idleGen

CancelIdle ==
    /\ idleGen' = NextGen
    /\ idleTimer' = None
    /\ timer' = [t \in Timers |-> IF t = idleTimer /\ timer[t] = "armed"
                                  THEN "none" ELSE timer[t]]
    /\ UNCHANGED timerGen

\* The conditions of _arm_idle_locked, at the end of a critical section.
\* (Mutant: reservations are not looked at.)
ArmsWhenHeld ==
    /\ idleOn' /\ dirty' /\ process' # None /\ info' = "reclaim"
    /\ active' = None /\ starting' = None /\ ~terminating'
MayArm ==
    /\ idleOn' /\ dirty' /\ holds' = 0
    /\ active' = None /\ starting' = None /\ ~terminating'
    /\ process' # None /\ info' = "reclaim"

\* _arm_idle_locked in a section that did not cancel.
ArmIdle ==
    IF MayArm /\ idleTimer = None
    THEN \E t \in Timers :
            /\ timer[t] = "none" /\ rpc[t] \in {"none", "closed"}
            /\ timer' = [timer EXCEPT ![t] = "armed"]
            /\ timerGen' = [timerGen EXCEPT ![t] = idleGen]
            /\ idleTimer' = t
            /\ UNCHANGED idleGen
    ELSE UNCHANGED timerVars

DetachProcess ==
    /\ process' = None /\ info' = "none" /\ dirty' = FALSE
    /\ CancelIdle

\* if self._process is expected: self._detach_process(). (Mutant: whatever
\* is attached is detached.)
DetachAny(p) == DetachProcess
DetachExpected(p) ==
    IF process = p THEN DetachProcess ELSE UNCHANGED <<procVars, timerVars>>

\* The children whose poll() is None.
Running == {p \in Procs : alive[p]}

\* A child that ends takes its commands and its caches with it; what it
\* printed stays in the pipe. _stop_process ends one, by kill if it must.
Dead(p) ==
    /\ alive' = [q \in Procs |-> alive[q] /\ q # p]
    /\ booted' = [q \in Procs |-> booted[q] /\ q # p]
    /\ inbox' = [q \in Procs |-> IF q = p THEN {} ELSE inbox[q]]
    /\ chatty' = [q \in Procs |-> chatty[q] /\ q # p]
    /\ retained' = [q \in Procs |-> retained[q] /\ q # p]
    /\ UNCHANGED outbox

\* The body of hold_idle_cleanup() and of its release callback. (Mutant: the
\* reservations are a flag.)
Reserve == holds' = holds + 1 /\ CancelIdle
UnreserveAll == holds' = 0 /\ ArmIdle
Unreserve == holds' = holds - 1 /\ ArmIdle

-----------------------------------------------------------------------------
(* submit() and ensure_started(). *)

\* reserve_idle_during_call: the reservation taken before the method runs.
Call(k) ==
    /\ pc[k] = "new"
    /\ pc' = [pc EXCEPT ![k] = "entering"]
    /\ Reserve
    /\ UNCHANGED <<lockVars, procVars, userVars, dropped, ready, streamVars,
                   killVars, childVars>>

\* The loop around self._available.wait(), once.
TryClaim(k) ==
    /\ IF Busy
       THEN /\ pc' = [pc EXCEPT ![k] = "waiting"]
            /\ UNCHANGED starting
       ELSE /\ pc' = [pc EXCEPT ![k] = "starting"]
            /\ starting' = k
    /\ UNCHANGED <<active, terminating, procVars, holds, dropped, ready,
                   streamVars, killVars, childVars>>

Enter(k)  == pc[k] = "entering" /\ CancelIdle /\ TryClaim(k)
WakeUp(k) == pc[k] = "woken" /\ TryClaim(k) /\ UNCHANGED timerVars

\* Where a call goes once it has a ready child.
AfterReady(k) == IF k \in Submits THEN "writing" ELSE "leaving"

\* _ensure_started up to Popen: the startup was invalidated, or the attached
\* child still runs.
StartReuse(k) ==
    /\ pc[k] = "starting"
    /\ \/ dropped[k] /\ pc' = [pc EXCEPT ![k] = "leaving"]
       \/ /\ ~dropped[k] /\ process \in Running
          /\ pc' = [pc EXCEPT ![k] = AfterReady(k)]
    /\ UNCHANGED <<lockVars, procVars, timerVars, holds, dropped, ready,
                   streamVars, killVars, childVars>>

\* A new child is spawned and its startup timer started, or Popen fails.
StartSpawn(k) ==
    /\ pc[k] = "starting" /\ ~dropped[k] /\ process \notin Running
    /\ info' = "none" /\ dirty' = FALSE
    /\ \/ /\ pc' = [pc EXCEPT ![k] = "leaving"]
          /\ UNCHANGED <<process, killer, alive>>
       \/ /\ pc' = [pc EXCEPT ![k] = "booting"]
          /\ process' = k
          /\ killer' = [killer EXCEPT ![k] = "armed"]
          /\ alive' = [alive EXCEPT ![k] = TRUE]
    /\ UNCHANGED <<lockVars, timerVars, holds, dropped, ready, streamVars,
                   victim, booted, inbox, outbox, chatty, retained>>

\* timer.cancel(): no effect on a timer that has fired. (Mutant: to a
\* state of its own.)
CancelTwice(k) == killer' = [killer EXCEPT ![k] = "cancelled"]
CancelStartupTimer(k) ==
    killer' = [killer EXCEPT ![k] = IF @ = "armed" THEN "done" ELSE @]

\* One event of a booting child. A failed event, a refused announcement and
\* an invalidated startup all leave through _discard_expected_process.
BootRead(k) ==
    /\ pc[k] = "booting" /\ outbox[k] # << >>
    /\ outbox' = [outbox EXCEPT ![k] = Tail(@)]
    /\ \/ /\ Head(outbox[k]).type = "ready" /\ ~dropped[k]
          /\ info' = Head(outbox[k]).cleanup
          /\ ready' = [ready EXCEPT ![k] = TRUE]
          /\ pc' = [pc EXCEPT ![k] = AfterReady(k)]
          /\ CancelStartupTimer(k)
       \/ /\ pc' = [pc EXCEPT ![k] = "discarding"]
          /\ UNCHANGED <<info, ready, killer>>
    /\ UNCHANGED <<lockVars, process, dirty, timerVars, holds, dropped,
                   streamVars, victim, alive, booted, inbox, chatty, retained>>

\* The child ended before it was ready: _read_events detaches it.
BootEof(k) ==
    /\ pc[k] = "booting" /\ outbox[k] = << >> /\ ~alive[k]
    /\ DetachExpected(k)
    /\ pc' = [pc EXCEPT ![k] = "discarding"]
    /\ UNCHANGED <<lockVars, holds, dropped, ready, streamVars, killVars, childVars>>

\* _discard_expected_process, its critical section ...
DiscardExpected(k) ==
    /\ pc[k] = "discarding"
    /\ DetachExpected(k)
    /\ IF process = k
       THEN /\ pc' = [pc EXCEPT ![k] = "stopping"]
            /\ UNCHANGED killer
       ELSE /\ pc' = [pc EXCEPT ![k] = "leaving"]
            /\ CancelStartupTimer(k)
    /\ UNCHANGED <<lockVars, holds, dropped, ready, streamVars, victim, childVars>>

\* ... and _stop_process after it, without the lock. The timer is cancelled
\* by the finally of _ensure_started.
StopExpected(k) ==
    /\ pc[k] = "stopping"
    /\ Dead(k)
    /\ pc' = [pc EXCEPT ![k] = "leaving"]
    /\ CancelStartupTimer(k)
    /\ UNCHANGED <<lockVars, procVars, timerVars, holds, dropped, ready,
                   streamVars, victim>>

\* The second critical section of submit(). It fails when the startup was
\* invalidated, when negotiation refuses the request, or when the child no
\* longer reads its pipe.
Write(k) ==
    /\ k \in Submits /\ pc[k] = "writing"
    /\ pc' = [pc EXCEPT ![k] = "leaving"]
    /\ \/ UNCHANGED <<active, rpc, jproc, inbox, chatty>>
       \/ /\ ~dropped[k] /\ process \in Running
          /\ inbox' = [inbox EXCEPT ![process] = @ \cup {k}]
          /\ chatty' = [chatty EXCEPT ![process] = k \in Chatty]
          /\ active' = k
          /\ rpc' = [rpc EXCEPT ![k] = "open"]
          /\ jproc' = [jproc EXCEPT ![k] = process]
    /\ UNCHANGED <<starting, terminating, procVars, timerVars, holds, dropped,
                   ready, invalidated, discard, event, closer, killVars, alive,
                   booted, outbox, retained>>

\* The finally of submit() and of ensure_started().
Leave(k) ==
    /\ pc[k] = "leaving"
    /\ IF starting = k
       THEN /\ starting' = None
            /\ pc' = [WokenCalls EXCEPT ![k] = "releasing"]
            /\ killer' = WokenKillers
       ELSE /\ pc' = [pc EXCEPT ![k] = "releasing"]
            /\ UNCHANGED <<starting, killer>>
    /\ UNCHANGED <<active, terminating, procVars, timerVars, holds, dropped,
                   ready, streamVars, victim, childVars>>

\* The release callback of the reservation taken by Call. The call returns,
\* and its startup token is forgotten.
Release(k) ==
    /\ pc[k] = "releasing"
    /\ pc' = [pc EXCEPT ![k] = "done"]
    /\ dropped' = [dropped EXCEPT ![k] = FALSE]
    /\ ready' = [ready EXCEPT ![k] = FALSE]
    /\ UNCHANGED <<lockVars, procVars, streamVars, killVars, childVars>>
    /\ Unreserve

CallRuns(k) ==
    /\ UNCHANGED userVars
    /\ \/ Enter(k) \/ WakeUp(k) \/ StartReuse(k) \/ StartSpawn(k)
       \/ BootRead(k) \/ BootEof(k) \/ DiscardExpected(k) \/ StopExpected(k)
       \/ Write(k) \/ Leave(k) \/ Release(k)

-----------------------------------------------------------------------------
(* The event stream of a submission. *)

\* Whether the child goes with its submission. (Mutant: an abandoned stream
\* leaves it to the next submission.)
KeepsAbandoned(j, abandoned) == discard[j]
Discards(j, abandoned) == abandoned \/ discard[j]

\* _finish_submission. The child is stopped before the lock is released.
Finish(j, abandoned) ==
    IF active # j
    THEN UNCHANGED <<active, procVars, timerVars, pc, killer, childVars>>
    ELSE /\ active' = None
         /\ pc' = WokenCalls
         /\ killer' = WokenKillers
         /\ IF Discards(j, abandoned)
            THEN DetachProcess /\ Dead(process)
            ELSE UNCHANGED <<procVars, childVars>> /\ ArmIdle

\* The caller has the stream only when submit() has returned; the stream of a
\* reclaim is consumed by the timer thread that made it.
Handed(j) == j \in Submits => pc[j] = "done"

\* _SubmissionEvents._closed, as another thread set it.
ClosedByOther(j) == j \in Submits /\ closer[j] # "none"

\* __next__ up to the generator: a stream already closed is exhausted, and an
\* invalidated one closes itself.
Advance(j) ==
    /\ rpc[j] = "open" /\ Handed(j)
    /\ rpc' = [rpc EXCEPT ![j] = IF ClosedByOther(j) THEN "closed"
                                 ELSE IF invalidated[j] THEN "abandoning"
                                 ELSE "reading"]
    /\ UNCHANGED <<active, procVars, timerVars, pc, discard, event, killer, childVars>>

\* One line of the child, the test of the token and the validation of the
\* event, none of them under the lock.
ReadLine(j) ==
    /\ rpc[j] = "reading" /\ outbox[jproc[j]] # << >>
    /\ outbox' = [outbox EXCEPT ![jproc[j]] = Tail(@)]
    /\ \/ /\ ~invalidated[j]
          /\ event' = [event EXCEPT ![j] = Head(outbox[jproc[j]])]
          /\ rpc' = [rpc EXCEPT ![j] = "observing"]
       \/ /\ rpc' = [rpc EXCEPT ![j] = "abandoning"]
          /\ UNCHANGED event
    /\ UNCHANGED <<active, procVars, timerVars, pc, discard, killer, alive,
                   booted, inbox, chatty, retained>>

\* End of file: the child is reaped and, if it is still attached, detached.
ReadEof(j) ==
    /\ rpc[j] = "reading" /\ outbox[jproc[j]] = << >> /\ ~alive[jproc[j]]
    /\ DetachExpected(jproc[j])
    /\ rpc' = [rpc EXCEPT ![j] = "abandoning"]
    /\ UNCHANGED <<active, pc, discard, event, killer, childVars>>

\* _idle_dirty after event e of job j. (Mutants: the end of a field evaluation
\* counts as a cleanup; the reasons are confused.)
FieldCleans(j, e) ==
    IF e.cleanup # "none" THEN e.cleanup = "reuse"
    ELSE dirty /\ ~Terminal(e)
ReasonsSwapped(j, e) ==
    IF e.cleanup # "none" THEN e.cleanup = "full" ELSE dirty
DirtyAfter(j, e) ==
    IF e.cleanup # "none" THEN e.cleanup = "reuse"
    ELSE dirty /\ e.type \notin {"failed", "cancelled"}
               /\ ~(e.type = "completed" /\ j \in Submits \ Fields)

\* _observe_cleanup_locked, in a critical section of its own. It does not
\* look at the token's invalidated flag again.
Observe(j) ==
    /\ rpc[j] = "observing"
    /\ rpc' = [rpc EXCEPT ![j] = "yielded"]
    /\ discard' = [discard EXCEPT ![j] =
                     @ \/ (j \in Timers /\ event[j].type = "failed")]
    /\ dirty' = DirtyAfter(j, event[j])
    /\ UNCHANGED <<active, process, info, timerVars, pc, event, killer, childVars>>

\* __next__ after the generator yielded: hand the event out, and close the
\* stream after a terminal one or an invalidation.
Yield(j) ==
    /\ rpc[j] = "yielded"
    /\ rpc' = [rpc EXCEPT ![j] =
                 IF ClosedByOther(j) THEN "closed"
                 ELSE IF invalidated[j] \/ Terminal(event[j]) THEN "abandoning"
                 ELSE "open"]
    /\ UNCHANGED <<active, procVars, timerVars, pc, discard, event, killer, childVars>>

\* The finally of the generator, run by the consumer itself: the child is
\* discarded unless the last event was terminal.
Abandon(j) ==
    /\ rpc[j] = "abandoning"
    /\ rpc' = [rpc EXCEPT ![j] = "closed"]
    /\ event' = [event EXCEPT ![j] = NoEvent]
    /\ UNCHANGED discard
    /\ Finish(j, ~Terminal(event[j]))

StreamStep(j) ==
    /\ UNCHANGED <<starting, terminating, holds, userVars, dropped, ready,
                   invalidated, jproc, closer, victim>>
    /\ \/ Advance(j) \/ ReadLine(j) \/ ReadEof(j) \/ Observe(j) \/ Yield(j)
       \/ Abandon(j)

\* close() from the application: between two reads, or from another thread
\* while the consumer is inside the generator, which then only invalidates.
InGenerator(j) == rpc[j] \in {"reading", "observing"}

Close(j) ==
    /\ closer[j] = "none" /\ Handed(j)
    /\ rpc[j] \in {"open", "reading", "observing", "yielded"}
    /\ InGenerator(j) => ThreadedClose
    /\ closer' = [closer EXCEPT ![j] =
                    IF rpc[j] = "yielded" /\ Terminal(event[j])
                    THEN "ending" ELSE "discarding"]
    /\ invalidated' = [invalidated EXCEPT ![j] = @ \/ InGenerator(j)]
    /\ UNCHANGED <<lockVars, procVars, timerVars, holds, userVars, callVars,
                   rpc, discard, jproc, event, killVars, childVars>>

CloseFinish(j) ==
    /\ closer[j] \in {"ending", "discarding"}
    /\ closer' = [closer EXCEPT ![j] = "closed"]
    /\ UNCHANGED <<starting, terminating, holds, userVars, dropped, ready, rpc,
                   invalidated, discard, jproc, event, victim>>
    /\ Finish(j, closer[j] = "discarding")

-----------------------------------------------------------------------------
(* terminate() and the startup timer. *)

\* The application calls terminate(), or a startup timer fires.
Terminate(x) ==
    /\ killer[x] = IF x \in Terminations THEN "off" ELSE "armed"
    /\ killer' = [killer EXCEPT ![x] = "called"]
    /\ UNCHANGED <<lockVars, procVars, timerVars, holds, userVars, callVars,
                   streamVars, victim, childVars>>

\* A startup timer that came after the end of its startup, or after the ready
\* event. (Mutant: ready is tested the wrong way round.)
TooEarly(x) == x \in Calls /\ (starting # x \/ ~ready[x])
TooLate(x)  == x \in Calls /\ (starting # x \/ ready[x])

\* The tokens are told that they lost the worker.
Invalidate ==
    /\ invalidated' = [j \in Jobs |-> invalidated[j] \/ j = active]
    /\ dropped' = [k \in Calls |-> dropped[k] \/ k = starting]

\* The first critical section of _terminate: wait for a termination under
\* way, leave if too late, or take the worker.
Seize(x) ==
    /\ killer[x] = "called"
    /\ \/ /\ terminating \/ TooLate(x)
          /\ killer' = [killer EXCEPT ![x] = IF terminating THEN "waiting" ELSE "done"]
          /\ UNCHANGED <<lockVars, procVars, timerVars, pc, dropped,
                         invalidated, victim>>
       \/ /\ ~terminating /\ ~TooLate(x)
          /\ Invalidate
          /\ active' = None /\ starting' = None /\ terminating' = TRUE
          /\ victim' = [victim EXCEPT ![x] = process]
          /\ DetachProcess
          /\ killer' = [WokenKillers EXCEPT ![x] = "stopping"]
          /\ pc' = WokenCalls
    /\ UNCHANGED childVars

\* The child is stopped without the lock; then others may go on.
StopVictim(x) ==
    /\ killer[x] = "stopping"
    /\ Dead(victim[x])
    /\ victim' = [victim EXCEPT ![x] = None]
    /\ terminating' = FALSE
    /\ killer' = [WokenKillers EXCEPT ![x] = "done"]
    /\ pc' = WokenCalls
    /\ UNCHANGED <<active, starting, procVars, timerVars, dropped, invalidated>>

KillRuns(x) ==
    /\ UNCHANGED <<holds, userVars, ready, rpc, discard, jproc, event, closer>>
    /\ Seize(x) \/ StopVictim(x)

-----------------------------------------------------------------------------
(* Idle reclamation. *)

\* configure_idle_cleanup: _cancel_idle_locked, then _arm_idle_locked.
ConfigureIdle(on) ==
    /\ configs < MaxConfigure
    /\ configs' = configs + 1
    /\ idleOn' = on
    /\ UNCHANGED <<holds, held>>
    /\ IF MayArm
       THEN \E t \in Timers :
              /\ timer[t] = "none" \/ (t = idleTimer /\ timer[t] = "armed")
              /\ rpc[t] \in {"none", "closed"}
              /\ idleTimer' = t
              /\ idleGen' = NextGen
              /\ timer' = [u \in Timers |->
                             IF u = t THEN "armed"
                             ELSE IF u = idleTimer /\ timer[u] = "armed"
                             THEN "none" ELSE timer[u]]
              /\ timerGen' = [timerGen EXCEPT ![t] = NextGen]
       ELSE CancelIdle

HoldIdle(h) ==
    /\ held[h] = "new"
    /\ held' = [held EXCEPT ![h] = "held"]
    /\ Reserve
    /\ UNCHANGED <<idleOn, configs>>

ReleaseHold(h) ==
    /\ held[h] = "held"
    /\ held' = [held EXCEPT ![h] = "released"]
    /\ UNCHANGED <<idleOn, configs>>
    /\ Unreserve

UserStep ==
    /\ UNCHANGED <<lockVars, procVars, callVars, streamVars, killVars, childVars>>
    /\ \/ \E on \in BOOLEAN : ConfigureIdle(on)
       \/ \E h \in Holds : HoldIdle(h) \/ ReleaseHold(h)

\* The interval is over: from here on cancel() no longer stops the thread.
Fire(t) ==
    /\ timer[t] = "armed"
    /\ timer' = [timer EXCEPT ![t] = "fired"]
    /\ UNCHANGED <<active, idleTimer, timerGen, rpc, invalidated, discard,
                   jproc, event, inbox>>

\* The critical section of _run_idle_cleanup, for the timer that is still
\* current and for one that was cancelled after it had fired.
Current(t) == timerGen[t] = idleGen

RunIdle(t) ==
    /\ timer[t] = "fired"
    /\ timer' = [timer EXCEPT ![t] = "none"]
    /\ timerGen' = [timerGen EXCEPT ![t] = 0]
    /\ idleTimer' = IF Current(t) THEN None ELSE idleTimer
    /\ IF Current(t) /\ holds = 0 /\ dirty /\ ~Busy /\ process # None
       THEN /\ active' = t
            /\ rpc' = [rpc EXCEPT ![t] = "claimed"]
            /\ jproc' = [jproc EXCEPT ![t] = process]
            /\ invalidated' = [invalidated EXCEPT ![t] = FALSE]
            /\ discard' = [discard EXCEPT ![t] = FALSE]
            /\ event' = [event EXCEPT ![t] = NoEvent]
       ELSE UNCHANGED <<active, rpc, jproc, invalidated, discard, event>>
    /\ UNCHANGED inbox

\* The reclaim command is written without the lock; a dead child raises.
IdleWrite(t) ==
    /\ rpc[t] = "claimed"
    /\ IF jproc[t] \in Running
       THEN /\ inbox' = [inbox EXCEPT ![jproc[t]] = @ \cup {t}]
            /\ rpc' = [rpc EXCEPT ![t] = "open"]
       ELSE /\ rpc' = [rpc EXCEPT ![t] = "abandoning"]
            /\ UNCHANGED inbox
    /\ UNCHANGED <<active, idleTimer, timer, timerGen, invalidated, discard,
                   jproc, event>>

TimerRuns(t) ==
    /\ UNCHANGED <<starting, terminating, procVars, holds, idleGen, userVars,
                   callVars, closer, killVars, alive, booted, outbox, chatty,
                   retained>>
    /\ Fire(t) \/ RunIdle(t) \/ IdleWrite(t)

-----------------------------------------------------------------------------
(* The child process: the Julia worker, as the transport can see it. *)

Emit(p, e) == outbox' = [outbox EXCEPT ![p] = Append(@, e)]

ChildBoots(p) ==
    /\ alive[p] /\ ~booted[p]
    /\ booted' = [booted EXCEPT ![p] = TRUE]
    /\ \/ \E a \in Announcements :
             Emit(p, [type |-> "ready", job |-> None, cleanup |-> a])
       \/ Emit(p, [type |-> "failed", job |-> None, cleanup |-> "none"])
    /\ UNCHANGED <<alive, inbox, chatty, retained>>

ChildProgress(p) ==
    /\ alive[p] /\ chatty[p]
    /\ chatty' = [chatty EXCEPT ![p] = FALSE]
    /\ \E j \in inbox[p] :
          Emit(p, [type |-> "progress", job |-> j, cleanup |-> "none"])
    /\ UNCHANGED <<alive, booted, inbox, retained>>

Operation(j) == IF j \in Timers THEN "reclaim"
                ELSE IF j \in Fields THEN "bem_field" ELSE "solve"

ChildAnswers(p) ==
    /\ alive[p]
    /\ \E j \in inbox[p] : \E o \in Outcomes(Operation(j), retained[p]) :
          /\ inbox' = [inbox EXCEPT ![p] = @ \ {j}]
          /\ retained' = [retained EXCEPT ![p] = o.keeps]
          /\ Emit(p, [type |-> o.type, job |-> j, cleanup |-> o.cleanup])
    /\ chatty' = [chatty EXCEPT ![p] = FALSE]
    /\ UNCHANGED <<alive, booted>>

ChildDies(p) == alive[p] /\ Dead(p)

transportVars == <<lockVars, procVars, timerVars, holds, userVars, callVars,
                   streamVars, killVars>>

ChildStep(p) ==
    /\ UNCHANGED transportVars
    /\ ChildBoots(p) \/ ChildProgress(p) \/ ChildAnswers(p) \/ ChildDies(p)

-----------------------------------------------------------------------------
\* Nothing is left to do: every call has returned and no thread is running.
\* A child may stay behind, ready for a next call.
Rest ==
    /\ \A k \in Calls : pc[k] = "done"
    /\ \A j \in Jobs : rpc[j] \in {"none", "closed"}
    /\ \A j \in Submits : closer[j] \in {"none", "closed"}
    /\ \A x \in Killers : killer[x] \in {"off", "done"}
    /\ \A t \in Timers : timer[t] = "none"
    /\ UNCHANGED vars

Next ==
    \/ \E k \in Calls : Call(k) \/ CallRuns(k)
    \/ \E j \in Jobs : StreamStep(j)
    \/ \E j \in Submits : Close(j) \/ CloseFinish(j)
    \/ \E x \in Killers : Terminate(x) \/ KillRuns(x)
    \/ \E t \in Timers : TimerRuns(t)
    \/ UserStep
    \/ \E p \in Procs : ChildStep(p)
    \/ Rest

Spec == Init /\ [][Next]_vars

-----------------------------------------------------------------------------
(* Fairness. A thread that is inside the transport runs on; the timers fire; *)
(* the consumer of a stream reads on, or drops it, which closes it.          *)
ThreadsRun ==
    /\ \A k \in Calls : WF_vars(CallRuns(k)) /\ WF_vars(Terminate(k))
    /\ \A x \in Killers : WF_vars(KillRuns(x))
    /\ \A t \in Timers : WF_vars(TimerRuns(t))
    /\ \A j \in Jobs : WF_vars(StreamStep(j))
    /\ \A j \in Submits : WF_vars(CloseFinish(j))

\* The child may hang while it starts, and for ever.
LiveSpec == Spec /\ ThreadsRun

\* A child that is ready answers its command, or dies.
Answers(p) == UNCHANGED transportVars /\ ChildAnswers(p)
AnsweringSpec == LiveSpec /\ \A p \in Procs : WF_vars(Answers(p))
=============================================================================
