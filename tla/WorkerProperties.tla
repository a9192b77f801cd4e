-------------------------- MODULE WorkerProperties --------------------------
(***************************************************************************)
(* What the transport of WorkerProcess promises: its types, its safety and *)
(* its liveness properties.                                                *)
(***************************************************************************)
EXTENDS WorkerProcess

-----------------------------------------------------------------------------
(* Types. *)

PcStates == {"new", "entering", "waiting", "woken", "starting", "booting",
             "discarding", "stopping", "writing", "leaving",
             "releasing", "done"}

RpcStates == {"none", "claimed", "open", "reading", "observing", "yielded",
              "abandoning", "closed"}

LockTypes ==
    /\ active \in Jobs \cup {None}
    /\ starting \in Calls \cup {None}
    /\ terminating \in BOOLEAN

ProcTypes ==
    /\ process \in Procs \cup {None}
    /\ info \in {"none", "reclaim", "basic"}
    /\ dirty \in BOOLEAN

TimerTypes ==
    /\ idleTimer \in Timers \cup {None}
    /\ idleGen \in Nat
    /\ timer \in [Timers -> {"none", "armed", "fired"}]
    /\ timerGen \in [Timers -> Nat]

UserTypes ==
    /\ idleOn \in BOOLEAN /\ configs \in Nat /\ holds \in Int
    /\ held \in [Holds -> {"new", "held", "released"}]

CallTypes ==
    /\ pc \in [Calls -> PcStates]
    /\ dropped \in [Calls -> BOOLEAN]
    /\ ready \in [Calls -> BOOLEAN]

StreamTypes ==
    /\ rpc \in [Jobs -> RpcStates]
    /\ invalidated \in [Jobs -> BOOLEAN]
    /\ discard \in [Jobs -> BOOLEAN]
    /\ jproc \in [Jobs -> Procs \cup {None}]
    /\ event \in [Jobs -> Event]
    /\ closer \in [Submits -> {"none", "discarding", "ending", "closed"}]

KillTypes ==
    /\ killer \in [Killers -> {"off", "armed", "called", "waiting", "stopping", "done"}]
    /\ victim \in [Killers -> Procs \cup {None}]

ChildTypes ==
    /\ alive \in [Procs -> BOOLEAN]
    /\ booted \in [Procs -> BOOLEAN]
    /\ inbox \in [Procs -> SUBSET Jobs]
    /\ outbox \in [Procs -> Seq(Event)]
    /\ chatty \in [Procs -> BOOLEAN]
    /\ retained \in [Procs -> BOOLEAN]

\* Every variable of the transport and of its children has its type, through
\* every exit of submit(), of the generator and of terminate().
TypeOK ==
    /\ LockTypes /\ ProcTypes /\ TimerTypes /\ UserTypes
    /\ CallTypes /\ StreamTypes /\ KillTypes /\ ChildTypes

-----------------------------------------------------------------------------
(* Safety. *)

\* A call holds the startup: it took _starting and has not given it back.
InStartup(k) == pc[k] \in {"starting", "booting", "discarding", "stopping",
                           "writing", "leaving"}

\* Ownership of the worker is exclusive. A termination excludes any startup
\* and any submission; a call that goes on with its startup while another
\* party took the worker from it has been told so (_check_startup); and a
\* submission overlaps a startup only while the submit() that made it is on
\* its way out.
OneOwner ==
    /\ terminating => active = None /\ starting = None
    /\ \A k \in Calls : InStartup(k) /\ starting # k => dropped[k]
    /\ active # None /\ starting # None =>
          active = starting /\ pc[starting] = "leaving"

\* "Unread events belong to this job and cannot become the next submission's
\* results": an event a stream obtained is of its own submission, whatever
\* was closed, dropped, killed or restarted before.
EventsStayWithTheirJob ==
    \A j \in Jobs : rpc[j] \in {"observing", "yielded"} => event[j].job = j

\* "No GC or allocator operation overlaps a solve": a child never has more
\* than one command to answer, and the attached child has none but that of
\* the submission that owns the worker.
OneCommand ==
    /\ \A p \in Procs : Cardinality(inbox[p]) <= 1
    /\ process # None => inbox[process] \subseteq {active}

\* Whoever takes the worker gets a child he can use: when nobody owns it, the
\* attached child owes no answer and has printed nothing that was not read; and
\* a submission never reaches a child whose announcement was not accepted.
CleanHandover ==
    /\ process # None /\ ~Busy => inbox[process] = {} /\ outbox[process] = << >>
    /\ \A k \in Submits : pc[k] = "writing" /\ ~dropped[k] =>
          process # None /\ (process \in Running => info # "none")
    /\ \A p \in Procs : inbox[p] # {} => booted[p]

\* _idle_holds counts the reservations that were taken and not released,
\* through every failure of the call that took one.
HoldsCounted ==
    holds = Cardinality({k \in Calls : pc[k] \notin {"new", "done"}})
          + Cardinality({h \in Holds : held[h] = "held"})

\* The pending idle timer is never out of date: a worker that has one is
\* configured for it, idle, not reserved, and runs a child that was attached
\* with an offer to reclaim; and so does one that the timer has claimed, though
\* the offer is looked at when the timer is armed and not when it fires.
TimerMeansIdle ==
    /\ idleTimer # None =>
        /\ idleOn /\ holds = 0 /\ ~Busy
        /\ process # None /\ info = "reclaim"
        /\ timer[idleTimer] # "none" /\ timerGen[idleTimer] = idleGen
    /\ active \in Timers /\ process # None => info = "reclaim"

\* No child is forgotten: one that runs without being attached is about to
\* be stopped by the thread that detached it.
NoOrphanChild ==
    \A p \in Procs : alive[p] /\ process # p =>
        \/ pc[p] = "stopping"
        \/ \E x \in Killers : killer[x] = "stopping" /\ victim[x] = p

\* Solver caches that a finished solve left in the child are not forgotten:
\* while the worker rests with them, it is marked dirty, and a timer is
\* pending unless idle cleanup is off, reserved or not offered.
Resting == ~Busy /\ process \in Running

RetentionRemembered ==
    Resting /\ retained[process] =>
        /\ dirty
        /\ idleOn /\ holds = 0 /\ info = "reclaim" => idleTimer # None

\* Only one child runs at any time. (Not an invariant of the code.)
OneChildRuns == Cardinality(Running) <= 1

-----------------------------------------------------------------------------
(* What the pool relies on. *)

\* The worker as WorkerHandle sees it: a startup hands over to the submission
\* it was made for, and a termination takes the place of both.
Handle == INSTANCE WorkerHandle
            WITH Owners <- Calls, Reclaims <- Timers, Children <- Procs

owner == IF terminating THEN Handle!Terminating
         ELSE IF active # None THEN active ELSE starting

handle == Handle!Of(owner, process, dirty, holds)

\* Every section of every thread is one of the steps the pool is modelled
\* with: no call takes the worker while it has an owner, an idle reclamation
\* takes it only with caches, a child and no reservation, and nobody but the
\* owner or a termination lets it go.
KeepsHandle == [][Handle!Step(handle, handle')]_handle

-----------------------------------------------------------------------------
(* Liveness. *)

\* terminate() returns, even if the child hangs.
TerminateReturns ==
    \A x \in Terminations : killer[x] = "called" ~> killer[x] = "done"

\* A startup ends, even if the child never announces itself: the startup
\* timer takes the worker away and stopping the child wakes the reader.
StartupEnds == \A k \in Calls : pc[k] = "booting" ~> pc[k] = "releasing"

\* Every submit() returns: a waiter is woken by whoever frees the worker.
SubmitReturns == \A k \in Calls : pc[k] = "entering" ~> pc[k] = "done"

\* The caches a solve left behind are freed in the end if the worker stays
\* idle and idle cleanup stays on.
IdleReclaims ==
    \A p \in Procs :
        <>[](process = p /\ idleOn /\ holds = 0 /\ info = "reclaim")
        => []<>(~retained[p])
=============================================================================
