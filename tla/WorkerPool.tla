----------------------------- MODULE WorkerPool -----------------------------
(***************************************************************************)
(* WorkerPool of src/src/beat_engine/worker.py, over workers as            *)
(* WorkerHandle describes them.                                            *)
(*                                                                         *)
(* A client asks the pool for a worker, submits a solve to it and reads    *)
(* the events. Other threads reserve the pool against idle cleanup, give   *)
(* the reservation back, or shut the pool down; idle timers reclaim, and   *)
(* children die. The pool has a lock of its own, taken before any lock of  *)
(* a worker; hold_idle_cleanup() and its release callback keep it while    *)
(* they go through the workers one by one, shutdown() does not.            *)
(***************************************************************************)
EXTENDS Integers, FiniteSets

CONSTANTS
    Clients,     \* threads that get a worker and submit one solve
    Reservers,   \* calls of WorkerPool.hold_idle_cleanup()
    Stoppers,    \* calls of shutdown()
    Workers,     \* what the factory may return
    Asks,        \* what each client asks get_worker() for
    Environs,    \* what os.environ may be
    Cpus,        \* os.cpu_count()
    MaxStuck,    \* bound on the stops that time out twice
    None

Reclaim == "reclaim"

Handle == INSTANCE WorkerHandle
            WITH Owners <- Clients, Reclaims <- {Reclaim}, Children <- Clients

ASSUME PoolAssumption ==
    /\ None \notin Clients \cup Workers \cup Reservers \cup {Reclaim, Handle!Terminating}
    /\ Clients \cap {Reclaim, Handle!Terminating} = {}
    /\ Clients \cap Reservers = {} /\ Clients \cap Stoppers = {}
    /\ Reservers \cap Stoppers = {}
    /\ Cpus \in Nat \ {0} /\ MaxStuck \in Nat
    /\ IsFiniteSet(Reservers) /\ IsFiniteSet(Clients)

VARIABLES
    \* the fields of WorkerPool
    poolLock,      \* the thread inside a long section of _lock
    pool,          \* the values of _workers; made[w] is the key of w
    reservations,  \* _idle_reservations
    callbacks,     \* the workers each reservation has a callback of
    made,          \* the settings a worker was constructed with
    worker,        \* the workers
    \* the surroundings
    running,       \* the children whose poll() is None
    stuck,         \* the children a stop gave up on
    \* the threads
    pc,            \* where a thread stands
    todo,          \* the workers it has still to go through
    seen,          \* os.environ when a client called get_worker()
    got,           \* the worker it was given
    victim,        \* the child a thread has detached and not yet stopped
    condemned      \* the children of the workers a shutdown() took away

poolVars   == <<poolLock, pool, reservations, callbacks, made>>
threadVars == <<pc, todo, seen, got, victim, condemned>>
worldVars  == <<running, stuck>>
vars == <<poolVars, worker, worldVars, threadVars>>

Threads == Clients \cup Reservers \cup Stoppers

-----------------------------------------------------------------------------
(* Settings. An environment is the value of JULIA_NUM_THREADS and the rest. *)

AtLeastOne(n) == IF n < 1 THEN 1 ELSE n

\* resolve_julia_threads: an int, a text that is one, or "auto" and whatever
\* else cannot be read.
ResolveThreads(t) ==
    IF t.form \in {"int", "digits"} THEN AtLeastOne(t.value) ELSE Cpus

\* str() of the result, which the constructor resolves once more.
AsText(n) == [form |-> "digits", value |-> n]

\* The dict get_worker() makes of the environment it is given, or of
\* os.environ.
EnvironOf(ask, environ) == IF ask.env = None THEN environ ELSE ask.env

Settings(threads, env) ==
    [threads |-> threads, env |-> [env EXCEPT !.julia = threads]]

\* The key a call looks up, and the workers with that key. (Mutant: the
\* environment is not part of it.)
Key(ask, environ) ==
    Settings(ResolveThreads(ask.threads), EnvironOf(ask, environ))

MatchingThreads(key) == {w \in pool : made[w].threads = key.threads}
Matching(key) == {w \in pool : made[w] = key}

\* What WorkerProcess.__init__ keeps of the arguments it is given.
Constructed(key) == Settings(ResolveThreads(AsText(key.threads)), key.env)

ASSUME SettingsAssumption ==
    \A c \in Clients, environ \in Environs :
        LET env == EnvironOf(Asks[c], environ) IN
        /\ env = [julia |-> env.julia, rest |-> env.rest]
        /\ Asks[c].threads.value \in Int
        /\ Key(Asks[c], environ) # None

Init ==
    /\ poolLock = None /\ pool = {} /\ reservations = {}
    /\ callbacks = [r \in Reservers |-> {}]
    /\ made = [w \in Workers |-> None]
    /\ worker = [w \in Workers |-> Handle!Fresh]
    /\ running = {} /\ stuck = {}
    /\ pc = [x \in Threads |-> "new"] /\ todo = [x \in Threads |-> {}]
    /\ seen = [c \in Clients |-> None]
    /\ got = [x \in Threads |-> None] /\ victim = [x \in Threads |-> None]
    /\ condemned = [s \in Stoppers |-> {}]

-----------------------------------------------------------------------------
(* get_worker(). *)

Goes(x, where) == pc' = [pc EXCEPT ![x] = where]
SetWorker(w, h) == worker' = [worker EXCEPT ![w] = h]

\* A new worker gets a hold for every reservation under way. (Mutants: it
\* gets none; it gets one for all of them.)
Unheld(w) ==
    /\ SetWorker(w, Handle!Fresh)
    /\ UNCHANGED callbacks
HeldOnce(w) ==
    /\ SetWorker(w, Handle!Of(None, None, FALSE, IF reservations = {} THEN 0 ELSE 1))
    /\ callbacks' = [r \in Reservers |-> IF r \in reservations
                                         THEN callbacks[r] \cup {w} ELSE callbacks[r]]
HeldForAll(w) ==
    /\ SetWorker(w, Handle!Of(None, None, FALSE, Cardinality(reservations)))
    /\ callbacks' = [r \in Reservers |-> IF r \in reservations
                                         THEN callbacks[r] \cup {w} ELSE callbacks[r]]

\* The section of get_worker().
GetWorker(c) ==
    /\ pc[c] = "new" /\ poolLock = None
    /\ \E environ \in Environs :
        LET key == Key(Asks[c], environ) IN
        /\ seen' = [seen EXCEPT ![c] = environ]
        /\ \/ \E w \in Matching(key) :
                /\ got' = [got EXCEPT ![c] = w]
                /\ UNCHANGED <<pool, callbacks, made, worker>>
           \/ /\ Matching(key) = {}
              /\ \E w \in {v \in Workers : made[v] = None} :
                    /\ made' = [made EXCEPT ![w] = Constructed(key)]
                    /\ pool' = pool \cup {w}
                    /\ HeldForAll(w)
                    /\ got' = [got EXCEPT ![c] = w]
    /\ Goes(c, "got")
    /\ UNCHANGED <<poolLock, reservations, worldVars, todo, victim, condemned>>

\* The factory raises: the pool is as it was.
FactoryFails(c) ==
    /\ pc[c] = "new" /\ poolLock = None
    /\ \E environ \in Environs : Matching(Key(Asks[c], environ)) = {}
    /\ Goes(c, "done")
    /\ UNCHANGED <<poolVars, worker, worldVars, todo, seen, got, victim, condemned>>

-----------------------------------------------------------------------------
(* hold_idle_cleanup() of the pool and its release callback. *)

StartHold(r) ==
    /\ pc[r] = "new" /\ poolLock = None
    /\ poolLock' = r
    /\ todo' = [todo EXCEPT ![r] = pool]
    /\ Goes(r, "holding")
    /\ UNCHANGED <<reservations, callbacks, worker>>

HoldOne(r) ==
    /\ pc[r] = "holding"
    /\ \E w \in todo[r] :
        /\ SetWorker(w, Handle!Reserve(worker[w]))
        /\ callbacks' = [callbacks EXCEPT ![r] = @ \cup {w}]
        /\ todo' = [todo EXCEPT ![r] = @ \ {w}]
    /\ UNCHANGED <<poolLock, reservations, pc>>

\* The reservation is known to later calls of get_worker().
Remember(r) == reservations' = reservations \cup {r}

EndHold(r) ==
    /\ pc[r] = "holding" /\ todo[r] = {}
    /\ Remember(r)
    /\ poolLock' = None
    /\ Goes(r, "held")
    /\ UNCHANGED <<callbacks, todo, worker>>

StartRelease(r) ==
    /\ pc[r] = "held" /\ poolLock = None
    /\ poolLock' = r
    /\ reservations' = reservations \ {r}
    /\ Goes(r, "releasing")
    /\ UNCHANGED <<callbacks, todo, worker>>

ReleaseOne(r) ==
    /\ pc[r] = "releasing"
    /\ \E w \in callbacks[r] :
        /\ SetWorker(w, Handle!Unreserve(worker[w]))
        /\ callbacks' = [callbacks EXCEPT ![r] = @ \ {w}]
    /\ UNCHANGED <<poolLock, reservations, pc, todo>>

EndRelease(r) ==
    /\ pc[r] = "releasing" /\ callbacks[r] = {}
    /\ poolLock' = None
    /\ Goes(r, "done")
    /\ UNCHANGED <<reservations, callbacks, todo, worker>>

ReserverRuns(r) ==
    /\ UNCHANGED <<pool, made, worldVars, seen, got, victim, condemned>>
    /\ \/ StartHold(r) \/ HoldOne(r) \/ EndHold(r)
       \/ StartRelease(r) \/ ReleaseOne(r) \/ EndRelease(r)

-----------------------------------------------------------------------------
(* A submit() on the worker a client was given, and its event stream. *)

Mine(c) == worker[got[c]].owner = c

\* reserve_idle_during_call, then the wait for the worker.
Call(c) ==
    /\ pc[c] = "got"
    /\ Goes(c, "waiting")
    /\ SetWorker(got[c], Handle!Reserve(worker[got[c]]))
    /\ UNCHANGED <<running, stuck, seen, got, victim>>

\* The worker is free: it is taken, and a child that still runs is used
\* again; or a new one is spawned, unless Popen fails.
Start(c) ==
    /\ pc[c] = "waiting" /\ worker[got[c]].owner = None
    /\ LET h == Handle!Take(worker[got[c]], c)
       IN  IF h.child \in running
           THEN SetWorker(got[c], h) /\ Goes(c, "starting") /\ UNCHANGED running
           ELSE \/ /\ SetWorker(got[c], Handle!Attach(h, c))
                   /\ running' = running \cup {c}
                   /\ Goes(c, "starting")
                \/ /\ SetWorker(got[c], Handle!Observe(h, FALSE))
                   /\ Goes(c, "leaving")
                   /\ UNCHANGED running
    /\ UNCHANGED <<stuck, seen, got, victim>>

\* The command is written, or the startup or the submission fails, as it does
\* when the worker was taken away; a new child that fails is detached first
\* and stopped later.
Boot(c) ==
    /\ pc[c] = "starting"
    /\ \/ Mine(c) /\ Goes(c, "submitted") /\ UNCHANGED <<worker, victim>>
       \/ Goes(c, "leaving") /\ UNCHANGED <<worker, victim>>
       \/ /\ worker[got[c]].child = c
          /\ SetWorker(got[c], Handle!Detach(worker[got[c]]))
          /\ victim' = [victim EXCEPT ![c] = c]
          /\ Goes(c, "stopping")
    /\ UNCHANGED <<running, stuck, seen, got>>

\* _stop_process: the child is gone, or runs on when its second wait has
\* timed out as well.
StopProcess(p) ==
    /\ running' = running \ {p}
    /\ UNCHANGED stuck
StopTimesOut(p) ==
    /\ p \in running /\ Cardinality(stuck) < MaxStuck
    /\ stuck' = stuck \cup {p}
    /\ UNCHANGED running

Stop(c) ==
    /\ pc[c] = "stopping"
    /\ StopProcess(c) \/ StopTimesOut(c)
    /\ victim' = [victim EXCEPT ![c] = None]
    /\ Goes(c, "leaving")
    /\ UNCHANGED <<worker, seen, got>>

\* A thread that is done forgets its worker.
Forget(c) ==
    /\ Goes(c, "done")
    /\ got' = [got EXCEPT ![c] = None] /\ seen' = [seen EXCEPT ![c] = None]

\* submit() raises: the worker is free, if it still was the call's, and the
\* reservation ends.
Leave(c) ==
    /\ pc[c] = "leaving"
    /\ Forget(c)
    /\ LET h == Handle!Unreserve(worker[got[c]])
       IN  SetWorker(got[c], IF Mine(c) THEN Handle!Free(h) ELSE h)
    /\ UNCHANGED <<running, stuck, victim>>

\* submit() returns its stream, and the reservation ends.
Return(c) ==
    /\ pc[c] = "submitted"
    /\ Goes(c, "streaming")
    /\ SetWorker(got[c], Handle!Unreserve(worker[got[c]]))
    /\ UNCHANGED <<running, stuck, seen, got, victim>>

\* The last event, of a solve that kept its caches or freed them, or the end
\* of a stream that is dropped or was invalidated; and _finish_submission.
Finish(c) ==
    /\ pc[c] = "streaming"
    /\ Forget(c)
    /\ LET h == worker[got[c]] IN
       \/ ~Mine(c) /\ UNCHANGED <<worker, running>>
       \/ /\ Mine(c)
          /\ \E kept \in BOOLEAN : SetWorker(got[c], Handle!Free(Handle!Observe(h, kept)))
          /\ UNCHANGED running
       \/ /\ Mine(c)
          /\ SetWorker(got[c], Handle!Free(Handle!Detach(h)))
          /\ running' = running \ {h.child}
    /\ UNCHANGED <<stuck, victim>>

ClientRuns(c) ==
    /\ UNCHANGED <<poolVars, todo, condemned>>
    /\ \/ Call(c) \/ Start(c) \/ Boot(c) \/ Stop(c) \/ Leave(c) \/ Return(c)
       \/ Finish(c)

-----------------------------------------------------------------------------
(* Idle reclamation, and the children. *)

StartReclaim(w) ==
    /\ Handle!Reclaimable(worker[w])
    /\ SetWorker(w, Handle!Take(worker[w], Reclaim))
    /\ UNCHANGED running

\* It ends with a full cleanup, or the child is discarded.
EndReclaim(w) ==
    /\ worker[w].owner = Reclaim
    /\ \/ /\ SetWorker(w, Handle!Free(Handle!Observe(worker[w], FALSE)))
          /\ UNCHANGED running
       \/ /\ SetWorker(w, Handle!Free(Handle!Detach(worker[w])))
          /\ running' = running \ {worker[w].child}

IdleRuns(w) ==
    /\ UNCHANGED <<poolVars, threadVars, stuck>>
    /\ StartReclaim(w) \/ EndReclaim(w)

ChildDies(p) ==
    /\ p \in running
    /\ running' = running \ {p}
    /\ UNCHANGED <<poolVars, threadVars, worker, stuck>>

-----------------------------------------------------------------------------
(* shutdown(). *)

\* The list is copied and the dict cleared in one section. (Mutants:
\* the dict is cleared first; the list is of its keys.)
TakeKeys(s) == todo' = [todo EXCEPT ![s] = {made[w] : w \in pool}] /\ pool' = {}
TakeNone(s) == todo' = [todo EXCEPT ![s] = {}] /\ pool' = {}
TakeAll(s) == todo' = [todo EXCEPT ![s] = pool] /\ pool' = {}

BeginShutdown(s) ==
    /\ pc[s] = "new" /\ poolLock = None
    /\ TakeAll(s)
    /\ condemned' = [condemned EXCEPT ![s] =
                       {worker[w].child : w \in pool} \cap running]
    /\ Goes(s, "terminating")
    /\ UNCHANGED <<worker, running, stuck, got, victim>>

\* terminate() of the next worker: nobody holds the pool's lock for it.
SeizeWorker(s) ==
    /\ pc[s] = "terminating"
    /\ \E w \in todo[s] :
        /\ worker[w].owner # Handle!Terminating
        /\ victim' = [victim EXCEPT ![s] = worker[w].child]
        /\ SetWorker(w, Handle!Take(Handle!Detach(worker[w]), Handle!Terminating))
        /\ todo' = [todo EXCEPT ![s] = @ \ {w}]
        /\ got' = [got EXCEPT ![s] = w]
    /\ Goes(s, "killing")
    /\ UNCHANGED <<pool, running, stuck, condemned>>

\* A stop that times out raises out of shutdown().
StopWorker(s) ==
    /\ pc[s] = "killing"
    /\ \/ StopProcess(victim[s]) /\ Goes(s, "terminating")
       \/ StopTimesOut(victim[s]) /\ Goes(s, "raised")
    /\ SetWorker(got[s], Handle!Free(worker[got[s]]))
    /\ victim' = [victim EXCEPT ![s] = None]
    /\ UNCHANGED <<pool, todo, got, condemned>>

EndShutdown(s) ==
    /\ pc[s] = "terminating" /\ todo[s] = {}
    /\ Goes(s, "done")
    /\ UNCHANGED <<pool, worker, running, stuck, todo, got, victim, condemned>>

StopperRuns(s) ==
    /\ UNCHANGED <<poolLock, reservations, callbacks, made, seen>>
    /\ BeginShutdown(s) \/ SeizeWorker(s) \/ StopWorker(s) \/ EndShutdown(s)

-----------------------------------------------------------------------------
\* Nobody has anything left to do.
Rest ==
    /\ \A x \in Threads : pc[x] \in {"done", "held", "raised"}
    /\ \A w \in Workers : worker[w].owner = None
    /\ UNCHANGED vars

Next ==
    \/ \E c \in Clients : GetWorker(c) \/ FactoryFails(c) \/ ClientRuns(c)
    \/ \E r \in Reservers : ReserverRuns(r)
    \/ \E w \in Workers : IdleRuns(w)
    \/ \E p \in Clients : ChildDies(p)
    \/ \E s \in Stoppers : StopperRuns(s)
    \/ Rest

Spec == Init /\ [][Next]_vars

=============================================================================
