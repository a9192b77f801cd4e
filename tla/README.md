# BEAT Engine: models, checks and proofs

TLA+ models of the parts of BEAT Engine that keep state and meet concurrency,
failure or memory limits, and of the contract that decides what reaches them: the
Python transport that owns a warm Julia worker, the pool of such workers, the
client that negotiates with one, the command loop of the worker, and the
frequency sweep with its assembly pipeline. Paths below are relative to the
repository; "the transport" is `src/beat_engine/worker.py`, "the client" is
`src/beat_engine/client.py`, "the contract" is `src/beat_engine/beat_contract/`, "the
driver" is `src/beat_engine/julia_local/BeatEngineCompiledDriver.jl`.

## The system

BEAT Engine solves acoustic boundary-element and coupled FEM/BEM problems. A
Python client holds one Julia process per execution environment. It writes
commands as lines of JSON to the process, and reads events as lines of JSON.

| Component | State | Operations | Hard behaviour | Modelled |
|---|---|---|---|---|
| worker transport (`worker.py`: `WorkerProcess`, `IdleCleanupMixin`, `_SubmissionEvents`) | `_active_submission`, `_starting`, `_terminating`, `_process`, `_worker_info`, the idle timer, its generation, holds, the dirty flag; tokens of startups and submissions | `submit`, `ensure_started`, `terminate`, the startup timer, iteration and `close` of a stream, `configure_idle_cleanup`, `hold_idle_cleanup`, the idle reclamation | many threads and one condition; a child that dies, hangs, or answers a client that has gone; stale tokens and stale timers | `WorkerProcess` |
| worker pool (`worker.py`: `WorkerPool`) | workers by settings, reservations and their callbacks | `get_worker`, `hold_idle_cleanup` and its release, `shutdown` | a lock of its own beside the workers' locks; workers created while reservations are under way; a shutdown beside calls that hold a worker; an environment read at the call | `WorkerPool`, `WorkerHandle` |
| negotiating client (`client.py`, `beat_contract/worker.py`) | the announcement of the worker, the expected phasor convention | `_accept_ready`, `_prepare_submission`, `_accept_event` | old workers that read past an option; a request file written again; an event of one worker judged by the announcement of the next | `EngineWorker`, `Negotiation` |
| system contract (`beat_contract/__init__.py`, `mesh.py`, `BeatEngineContract.jl`) | none | validate a request, its system, its meshes | checks that index what earlier checks must have established; sizes, counts and tags one off | `SystemContract` (partly) |
| worker command loop (driver: `run_worker`; `BeatEngineWorkerCleanup.jl`) | `requests_since_cleanup`, the cache of field evaluations and its order, the caches a solve leaves | `solve`, `bem_field`, `reclaim` | exceptions at any call, one terminal event, reclamation after the answer, eviction | `WorkerLoop` |
| frequency sweep (driver: `solve_exterior_request`, `solve_request_impl`; `BeatEngineCore.jl`; `BeatEngineSweepOverlap.jl`) | the bounded channel, the stop flag, the current system, the device caches | assemble, put, take, solve, report, cancel, shutdown | a parked producer, cancellation and failure at every point, memory | `SweepPipeline` |
| source driver (`BeatEngineDriver.jl`) | as the exterior sweep | one script, one sweep | the same | planned, as an instance |
| deploy solver and factor cache (`deploy_*.jl`) | cached factorizations, bytes | look up, reuse, evict | stale reuse, budget | planned |
| overlap and thread plans (`BeatEngineSweepOverlap.jl`, `BeatEngineDenseSolve.jl`, `BeatEngineCoupledCondensed.jl`) | none but the FEM task of a frequency | plan, spawn, join | a stage that fails beside another | planned |
| sparse solver sessions (`BeatEngineMumps.jl`) | instances of a foreign library | factorize, solve, finish | finalizers | last |
| kernels (`BeatEngineCpu*`, `Cuda*`, `Metal*`, `Rocm*`, `BeatEngineCoupled.jl`) | arrays | quadrature, assembly, dense and sparse algebra | floating point | not modelled: nothing a model checker could decide |
| backends, paths, bundles, scripts, benchmarks | none | look-ups, precompilation | none | not modelled |

How they interact: a client calls `submit` of the transport, which starts the
child if it must, waits for its `ready` event, writes one command and returns an
iterator over the command's events. The child's loop reads the command, runs a
sweep or a field evaluation, prints results and one terminal event. The pool hands
out one transport for each thread count and environment, and reserves all of them
against idle cleanup while an application prepares a solve. The client overrides
three hooks of the transport: what `ready` may say, what a command must contain,
and which events are passed on. An
application cancels a sweep by creating a marker file, and a worker by
`terminate()`. After a solve that kept its caches (`reason = "reuse"`) the
transport arms a timer that will submit a `reclaim` of its own.

## Modules

| Module | Contents |
|---|---|
| `WorkerProcess` | the transport and a child as the transport sees it |
| `WorkerProperties` | its invariants and liveness properties |
| `MCWorkerProcess` | model values and symmetry for its runs |
| `WorkerProofs` | types and ownership, proved |
| `HandleProofs` | every step of `WorkerProcess` is one `WorkerHandle` allows, proved |
| `PipeProofs` | commands, events and children stay with their submission, proved |
| `IdleProofs` | holds, idle timers and the memory of retained caches, proved |
| `WorkerHandle` | a transport as those who share it see it: owner, child, dirty flag, holds |
| `WorkerPool` | the pool, its clients, reservations and shutdowns, over handles |
| `PoolProperties`, `MCWorkerPool` | its properties and its run |
| `PoolProofs` | types, balance of the holds, reservations, settings and shutdown, proved |
| `SystemContract` | what a request must be, as an order of looks |
| `Negotiation` | what a client asks of a worker's announcement and events, and the worker of a command |
| `EngineWorker` | the client over a coarse transport, its children, and a request file |
| `ClientProperties`, `MCEngineWorker` | its properties; the requests and announcements of its run |
| `ClientProofs` | all its properties, for requests of any size, proved |
| `WorkerAnswers` | how a command may end; shared by both sides of the pipe |
| `WorkerChild` | the abstract worker: what the transport relies on |
| `WorkerLoop` | `run_worker`, the cleanup policy, the field caches |
| `WorkerLoopProperties`, `MCWorkerLoop` | its properties, the refinement of `WorkerChild`, its runs |
| `LoopProofs` | the counter, the reuse limit, the field cache and the refinement, proved |
| `SweepPipeline` | a sweep of the exterior or the coupled driver and its producer |
| `SweepProperties` | its properties |
| `SweepProofs` | all its safety properties and its bound on the systems alive, proved |

### WorkerProcess

The code has one lock with one condition. An action is one critical section, or
one step between two of them (a read, a write, stopping a child). A call `k` of
`submit` or `ensure_started` stands for everything it may create: its startup
token (`dropped`, `ready`), its submission token (`invalidated`, `discard`), the
child it spawns, and its startup timer. `pc[k]` is where the call stands:

    entering -> waiting/woken -> starting -> booting -> writing -> leaving -> releasing -> done
                                      \-> discarding -> stopping -> leaving

`entering` to `done` is the reservation `reserve_idle_during_call` puts around
the call. `rpc[j]` is where the consumer of a stream stands (`open`, `reading`,
`observing` with an event that was read but not yet applied to the idle state,
`yielded`, `abandoning` in the generator's `finally`, `closed`), `closer[j]`
another thread inside `close()`, `killer[x]` a call of `_terminate()`, made by
an application or a startup timer. `timer[t]` is an idle timer thread before it
claims the worker; afterwards it consumes a stream of its own, `rpc[t]`.

`Condition.wait` is `waiting`; `notify_all` makes every waiter `woken`, and a
woken caller tests its condition again. `Timer.cancel` stops a timer that has
not fired, and does nothing to one that has. `_stop_process` ends the child.
A child dies at any time; its lines already printed can still be read. It may
hang in its startup. Commands and events carry the job they belong to only in
the model, so that mixing them up can be seen. Status callbacks, stderr and the
contents of requests are left out.

### WorkerHandle and WorkerPool

A handle is a record of the four things a worker shows: `owner` (`_starting` or
`_active_submission`, an idle reclamation, or `_terminating`), `child`, `dirty` and
`holds`. Its operators are the effects of the critical sections of `WorkerProcess`,
and `Step` is when each may happen. `WorkerPool` changes its workers through
those operators only, with the guards `Step` has, and `KeepsHandle` shows, in
the run `transport` and as a theorem, that the detailed `WorkerProcess` makes
no other step. So the pool is checked over what the transport has been shown to do.

`poolLock` is the pool's lock where a section has steps inside:
`hold_idle_cleanup` and its release go through the workers one by one
(`StartHold`, `HoldOne`, `EndHold`; `StartRelease`, `ReleaseOne`, `EndRelease`), each
with that worker's lock. `GetWorker` is one section; a worker that is created gets a
hold and a callback for each reservation that is remembered. `BeginShutdown` is the
section of `shutdown`, and `SeizeWorker`, `StopWorker` are the two halves of each
`terminate()` that follows outside the lock. A client goes

    new -> got -> waiting -> starting -> submitted -> streaming -> done
                                 \-> stopping -> leaving -> done

through a `submit()` and its stream. `Settings` are the number of threads and
an environment that has been given that number; `Key` is what a call looks up,
from an environment that is the caller's or whatever `os.environ` was (`seen`).
`Constructed` is what the constructor makes of the same values a second time.

### SystemContract, Negotiation and EngineWorker

A validator of the contract is a sequence of *looks*. A look says what it has
to find (an id another check has indexed) and what it demands; `Verdict` is
`KeyError` if the first bad look finds nothing, `refused` if it is not content, and
`ok` otherwise. So the order of the checks, and which of them protects which, is
kept, and the texts of the errors are not. Lists of objects are sequences whose
ids may repeat or lead nowhere; JSON numbers have the types Python distinguishes
(a `bool` is no integer); an array has the shape it claims and the number of
bytes it has. `Negotiation` has the looks of `validate_worker_ready` and
`negotiate_submission`, and the worker's own checks of a command.

`EngineWorker` runs jobs against children that announce what the case gives
them. What the transport does in several sections is one step; what stays apart is
what reads `_worker_info` and `_expected_phasor`: `Submit` under the lock, and
`Accept` without it, between `ReadLine` and `Hand`. A child that has no protocol
reads past what it does not know, and computes what it did before there was
a choice (`Computes`); one that has a protocol refuses (`Reads`). `Edit` writes
the request file again between the client's reading and the worker's.

### WorkerLoop and WorkerChild

`pc` is the place in `run_worker`. `input` and `output` are the two pipes;
`output` is bounded, and printing waits while it is full, as a pipe does. A solve
is the pair `StartSolve`, `EndSolve` with any number of results between; it
completes, is cancelled or throws. `kept` says whether caches of a solve are in
the process. The field cache is the dictionary's key set `cached` and the
list `order`; a release takes the entry out, frees its buffers, and then takes
the key out of the list, and the freeing may throw between the two
(`ReleaseThrows`). `reclaim_accelerator_memory!` swallows that, and the catch of
the loop calls it again. The client writes and reads at any time, and the
process ends at any time.

`WorkerChild` is the promise: a queue of commands, each answered by one of the
`Outcomes` of `WorkerAnswers`, which the child inside `WorkerProcess` uses too. So
the assumption of the transport model is what the loop model is shown to
implement.

### SweepPipeline

The producer task has the states of its loop (`check`, `make`, `made`, `put`, and
`ended` or `failed`), the driver those of its own (`head`, `take` or `assemble`,
`decide`, `solve`, `report`, `shutdown`, `drain`, `release`, `done`). `live` is
the set of assembled systems that hold memory. `coupled` says which driver it is:
the exterior one starts the pipeline before its first frequency; the coupled one
decides after the second sample, the third frequency, at the earliest, and numbers
steps from its start (`docs/Metal Backend.md:844` says that `on` forces it
"from the second frequency"; the plan that reads `on` is made with the second
sample, so the first frequency assembled ahead is the fourth). `depth` is the
capacity of the channel. For the exterior driver it is one of `Lookaheads`: what
`sweep_pipeline_depth` makes of the memory that is free (`AvailableBytes`), or what
`BLAB_METAL_PIPELINE_DEPTH` asks for (`Overrides`), kept between 1 and the length of
the sweep without regard to memory or to the limit of four. A value that is no
number throws; the error speaks of a positive integer, but zero and less are
taken for 1. The coupled driver asks for a depth of 1, and throws on a setting it
does not know. Its systems are host arrays that the collector frees, so there `live` is
what can be reached, and `NoLeak` says that the clean-up keeps nothing reachable; for the
exterior driver it is about memory of the device. The
measured times behind the coupled decision are a free choice; so is `marker` at
every moment. Assembly, solve and report may throw. Releases are taken not to.

## Runs

| Run | Instance | Properties |
|---|---|---|
| `transport` | two `submit` (a solve and a field evaluation), one `terminate`, a startup timer each, the solve with an event before its last, `close` from another thread | types; `OneOwner`, `EventsStayWithTheirJob`, `CleanHandover`, `NoOrphanChild`; `KeepsHandle` (each step is one of `WorkerHandle`; the run has no idle timers, so for their steps it rests on the theorem `Implements`) |
| `idle` | a solve, a field evaluation, one hold, two configurations, two timers, old and new workers | `TimerMeansIdle`, `HoldsCounted`, `RetentionRemembered`, `OneCommand` |
| `startup_live` | a `submit`, an `ensure_started`, a `terminate`, a child that may hang | `TerminateReturns`, `StartupEnds` |
| `idle_live` | a solve and a field evaluation, one timer, a child that answers | `SubmitReturns`, `IdleReclaims` |
| `pool` | two clients whose spellings and environments may come to the same settings, two reservations, a shutdown, two workers, one stop that times out | types; `HoldsBalanced`, `NoReclaimReserved`, `SettingsMatch`, `ShutdownStops` |
| `client` | requests one or two changes away from an accepted one, announcements one omission away from the worker's own, and two jobs on two differing workers with a `terminate` and an edited request file | `HandedAsAsked`, `BlameIsRight`, `RefusedBeforehand`, `RefusedInWords`, `CommandsAreGrounded`, `MeshesAreReadable` |
| `loop` | three keys, limits 2 and 3, releases that throw | `ReuseBounded`, `KeptIsCounted`, `CachesAccounted`, `EvictsAnother`, `KeepsPromise` (refinement), `Answered` |
| `sweep` | seven frequencies, both drivers; exterior: a depth of 1, 2 or 4 by memory, of 1, 3 or 7 by the environment, or no pipeline; coupled: a pipeline from frequency 4, 5 or 6, or none | types; `PairedInOrder`, `TakeSucceeds`, `NoLeak`, `CachesOutliveProducer`, `CompletedIsComplete`, `SweepReturns` |

What they show, in short. One call at a time owns the child, its events reach no
other job, and the next submission meets a child that has nothing of the last one
in it. Caches that are retained are reclaimed or used again. A worker has as
many holds as there are reservations and calls that asked for them, so no
reclamation runs while an application has reserved the pool, also on workers
created meanwhile. A caller of the client is handed a result only if the worker
computed what the request said, and is told of a mismatch only if it was its own
worker's. A request that comes through the Python validators never trips over
a reference, and is refused by the worker only if the file has changed. A sweep
pairs systems and frequencies, frees what it made, and comes to an end with a
producer parked on a full channel.

Four runs end in a violation, each a disagreement of the code with a text of
the repository:

- `stale_observe` violates `RetentionRemembered`. A stream tests its token without the
  lock (`worker.py:392`) and applies the event in a later section (`:396`).
  `terminate()` and a new startup fit between, and the old event then clears or
  sets `_idle_dirty` for the new child: its caches stay unreclaimed, against
  `docs/WorkerCleanup.md:78-79`.
- `two_children` violates `OneChildRuns`. `_discard_expected_process` detaches in a
  section and stops the child after it. A `terminate()` between the two finds
  no child to stop and lets the next submission spawn one. The comment at
  `worker.py:414-415` wants the old child stopped first. It stands in `_finish_submission`
  and is about an abandoned submission, whose child is stopped inside the lock; it is
  read here as the intent of every path that stops a child.
- `loop_evict` violates `EvaluatesCached`. The premise is that freeing a device
  cache throws once. Its key then stays in the order without an entry; when the
  same key misses again and the order is full, the eviction takes the stale
  position and frees the entry just built. `EvictsAnother` says how far this goes:
  never while the cache really is over its size.
- `sweep_ahead` violates `AtMostDepthAhead`. The producer assembles a system and then
  parks in `put!`, so the systems of later frequencies are those on the channel and one
  more: `depth` + 1. `BeatEngineCore.jl` says "at most `depth` ahead of the consumer" (`:1528-1529`),
  "parks on a full channel instead of allocating another operator" (`:1516-1517`), and
  that `depth` systems, the one being solved and the copy its factorization makes "must all fit"
  in the headroom (`:1483-1485`), for which `sweep_pipeline_depth` reserves two;
  `docs/Metal Backend.md:455-457` repeats it ("up to four systems"). The theorem
  `Lookahead` says that it is one system more and never two.

### Bounds

Two submissions are enough for every race of one owner with one waiter, which
is the shape of all guards in the transport: a condition with three flags and one
token. The third party is `terminate()`, a startup timer, an idle timer or a
closing thread, each in some run. A call is made once: a client that calls again
is the second call. `MaxConfigure` bounds the calls of `configure_idle_cleanup`,
which only the generation counts. In `WorkerLoop`, three keys overfill a cache of two
entries, and an order with a stale key is full with two; limits 2 and 3 let a
counter reach one and not the other. In `WorkerPool`, a reservation and a client are
alike for each other's guards, so two of each meet every order: a worker created
in, before and after the walk of a reservation, two reservations that overlap or nest,
two clients that get one worker or two. `MaxStuck` is the number of stops whose second
wait times out; `ShutdownStops` excepts the child of
such a stop, not the others beside it. In `EngineWorker`, the cases are not a product of
everything a request can hold, but each single change of an accepted request or announcement, and pairs
of changes the code relates (a component and its wall, a mesh and its group); the
interleavings of two jobs are explored for the few announcements in which the
workers differ. Three systems are the base: exterior, interior and coupled. `MaxQueued` and `MaxUnread` bound the pipes,
where waiting for space is what the code does too. In `SweepPipeline`, seven
frequencies fill and drain channels of one to four, fit in one of seven, and give the
coupled driver three places to start. The proofs remove these bounds where they exist.

Deadlock is checked in every run. `Rest` and `Over` are the states in which the
program has nothing left to do.

### Fairness

- `ThreadsRun`: a thread inside the transport runs on, timers fire, and
  the consumer of a stream reads on, or drops the stream, which closes it. Threads of CPython are
  scheduled fairly, and `with`, `finally` and `__del__` make sure that a stream that is
  dropped is closed. The child need not answer: `TerminateReturns` and
  `StartupEnds` rest on timers and on the end of the pipe alone.
- `AnsweringSpec` adds that a child with a command answers it, or dies.
  `SubmitReturns` and `IdleReclaims` need it, since the transport has no timeout for
  a job.
- `LiveSpec` of `WorkerLoop`: the sequential loop goes on, and its client reads
  what is printed. A solve may print results for ever only if its end is
  never taken, which fairness of the other steps excludes: sweeps are finite.
- `LiveSpec` of `SweepPipeline`: both tasks are scheduled; assemblies and
  solves end.

## Proofs

`tlapm` checks eight modules, for every value of the constants. They assume the
named assumptions of the modules, which TLC evaluates in the runs, and nothing
else: `ConstantsAssumption`, `LoopAssumption`, `SweepAssumption`, `PoolAssumption`,
`SettingsAssumption`, `ClientAssumption` and `CasesAssumption`.

- `SettingsAssumption`: an environment is a number of threads and the rest, a thread
  count that can be read is an integer, and no settings are `None`.
- `PoolAssumption` and `ClientAssumption` keep the tokens apart: `None`, the owner of a
  termination and that of a reclamation are no call, as a new `object()` is.
- `CasesAssumption` says what parsed JSON is: lists are finite sequences (`IsList`), an
  array with as many bytes as its shape claims has as many rows (`Rows`), a field
  request has no system, and an announcement is there, and names no
  conventions for single backends unless it names a protocol. The last one is about workers older than the
  protocol, whose source is not here: the client does not ask such a worker for the
  conventions of a backend (`client.py`'s path without `negotiate_submission`), so
  one that had them could answer in the wrong convention and say the right one.
  It does not say that ids are unique, that references lead anywhere, or that a mesh
  fits its bytes: that is what the looks establish.

The invariants below were checked by TLC before they were proved, as invariants of
the instances of the runs and of one that joins `transport` and `idle`.

### The transport

- `WorkerProofs`: `Typing` (`[]TypeOK`) and `Ownership` (`[]OneOwner`), for any sets of calls,
  timers, terminations and holds. `TypeOK` is not inductive alone: reading a
  line applies `outbox` to the stream's child, so the invariant adds
  `HasChild`: a stream in use has one. `OneOwner` is inductive on top of
  the types; the proof has one lemma for each group of actions, and a frame
  lemma for the groups that leave the owner alone.
- `HandleProofs`: `Implements` (`Spec => KeepsHandle`): every step of the transport is a step of
  `WorkerHandle` or leaves the handle alone. The guards of the handle speak of
  its owner, and a stream may only be read or closed once its call has returned:
  `HandleInv` adds that (`StreamsHanded`) to the types and `OneOwner`.
- `PipeProofs`: `Commands` (`[]OneCommand`), `Handover` (`[]CleanHandover`), `OwnEvents`
  (`[]EventsStayWithTheirJob`) and `NoOrphans` (`[]NoOrphanChild`). None of the four is inductive.
  `PipeInv` ties the pipe to its owner: what is in the pipes of the child in use belongs to
  the active submission, and nothing follows its terminal event (`Pipe`); the pipes of an
  attached child that nobody uses are empty (`Quiet`); a stream that lost the worker and
  does not know yet reads another child than the attached one and the one in use
  (`Stale`); and no child is read or written before it has announced itself (`Unread`,
  `Startup`). The case that needs all of it is a stream that is dropped with events unread,
  or closed by another thread while it is blocked in a read: the child has to go with it.
- `IdleProofs`: `Counting` (`[]HoldsCounted`), `Timing` (`[]TimerMeansIdle`) and two
  theorems about the retained caches. `CountInv` adds to the count that the calls and holds
  that have begun are finitely many, since the constants may be infinite sets. `IdleInv`
  says that a timer thread with the current generation is the pending one (`Dated`), and that
  a pending one waits for an idle worker (`Pending`), which holds because whatever
  ends the idleness also cancels it. `RetentionInv` follows the caches from the event that
  reports them to the flag and the timer (`Marked`, `Armed`). `RetentionRemembered` is false, which is what `stale_observe`
  finds. `Retention` (`Spec /\ []NeverStale => []RetentionRemembered`) says that this
  is the whole of it: in a behaviour where no stream applies an event
  after it has lost the worker, retained caches are never forgotten. `RetentionAlone`
  derives that premise: with no `terminate()` and no `close()` from another thread
  there is no such stream. The run `idle` has neither.

### The pool

- `PoolProofs`: `Typing` (`[]TypeOK`), `Balancing` (`[]HoldsBalanced`), `Reserving`
  (`NoReclaimReserved`), `Settling` (`[]SettingsMatch`) and `Stopping` (`[]ShutdownStops`), for
  any number of clients, reservations, shutdowns
  and workers. `PoolInv` adds to types and balance `Known`: what a reservation
  or a call holds on to has been constructed, so that a new worker is new to all
  of them; and `Walks`: a reservation under way has the pool's lock, and, once
  held, a callback of every worker of the pool. `Reserving` then needs three facts: only
  `StartReclaim` gives a worker to the reclaimer (`OwnerStep`), it needs zero
  holds, and by the balance zero holds means no reservation has a callback. `Settling`
  rests on `Normal`: normalising settings twice is normalising them once. `Stopping`
  needs `EndInv`: a client that has not spawned has no child (`Unborn`); a shutdown goes through
  workers that exist, and the one whose child it stops is its own until it has (`Seized`);
  and a child it has condemned and that still runs is one whose stop has timed out, one its own
  startup stops, one on a worker it has yet to come to, or one that it or a shutdown it will
  wait for is stopping (`Doomed`). Two shutdowns that share a worker need the last case.

### The command loop

- `LoopProofs`: `Counting` (`[]KeptIsCounted`) and `Bounding` (`[]ReuseBounded`) speak of the
  loop at rest; `LoopInv` carries them through a solve, in which caches exist
  before the counter has moved. `Accounting` (`[]CachesAccounted`) and `Evicting`
  (`EvictsAnother`) are about the field cache, for any number of keys. `FieldInv` says that
  every entry is in the order (`Ordered`), and that the order has at most two keys between
  commands (`Short`): a release that throws may leave a key without an entry, or
  one that is there twice, but what is left over comes first, where the eviction
  meets it. `FilterIs` says what the filter over the order keeps, by induction
  over sets of positions (`SetInduction`).
- `Refining` (`Spec => KeepsPromise`): the loop implements `WorkerChild`. The mapping gives
  the abstract child whether it boots, is up or gone (`Phase`), the commands not yet answered (`Pending`)
  and whether caches are retained (`Retained`). A step of the loop between two events is a
  stutter; the step that prints a terminal event is the abstract answer, also where an
  exception came after an event of the same command.

### The sweep

- `SweepProofs`: all six safety properties and `Lookahead` (`[]LookaheadBounded`), for every length of the
  sweep, every depth that memory or the environment asks for, and both drivers. The inductive invariant `SweepInv` is: the
  channel holds consecutive steps that end just before the producer's
  (`ChannelInv`), the driver's frequency is the first of them (`DriverInv`,
  through `NextTaken`), and exactly the systems from there to the last one made, and
  the current one, are alive (`LiveInv`); `PipeInv` and `EndInv` say where
  the producer and a sweep that ends may be. `NoLeak` and `CompletedIsComplete`
  cannot be induced alone: they speak of the last state only. `Lookahead` bounds the
  systems alive by two more than the depth, the one being solved among them, and by
  one without a pipeline: the bound that does hold.

### The client and the contract

`ClientProofs` proves all six properties of the run `client`, for any requests and
announcements instead of the ones listed there, with systems, meshes and lists of any length.

- *Looks.* A sequence of looks is `Careful` when a look that finds nothing comes after
  one that has already failed. Then its verdict is never `KeyError` (`InWords`), and
  it is `ok` exactly when every look passes (`Ok`). Both carry over to sequences put one
  after another (`Concat`) and to one sequence for each object of a list (`Flatten`), so
  each validator has one lemma saying that it is careful and what it establishes:
  `Boundary`, `Region`, `Interface`, `Block`, `MeshData`, `Graph`, `System`,
  `Outputs`, and `SolveRequest` for the whole request.
- *Agreement.* `Agreement` says what the client knows when `negotiate_submission` is
  content; `Compatible`, that a worker with a protocol then reads the same request; and
  `Computation`, that a result which says the expected convention is of what was asked,
  also from a worker that reads past what it does not know.
- *The invariant* `ClientInv` follows a submission: the file is what was asked, or has
  been edited since (`Files`); a command is the one that was agreed on (`Sent`); the
  lines of a child are at most a result and a terminal event, and a refusal among them
  means an edited file (`Lines`); an attached child works for the active submission
  only (`Working`); `info` is the child's own announcement once it has started (`Known`);
  and what a reader that is not terminated has in hand is true, and judged by its own
  worker's announcement (`InHand`). The last two are what `HandedAsAsked` and `BlameIsRight`
  are missing: `Accept` reads `info` and `expected` after the event was taken from
  the pipe, and another worker may have come between.
- *Theorems:* `Handing`, `Blaming`, `Refusing`, `Wording`, `Grounding`, `Readability`.

### Lists of any length

The library's induction theorems take an operator as a parameter, which none of the
provers here can instantiate. Where a proof needs induction it takes a least element
or a set instead (`Least` of `ClientProofs`, from the well-foundedness of `<` on the naturals;
`SetInduction` of `LoopProofs`): the set of lengths at which a claim fails has no least
element, so it is empty. That is how
the recursive function inside `FlattenSeq` and the filter of `WorkerLoop` are shown to exist
and to do what their names say.

### Only model-checked

Every safety invariant and action property of a passing run has a theorem; that of
`RetentionRemembered` has the premise the code needs, and the run `idle` meets it. Liveness is out of the prover's reach: `TerminateReturns`, `StartupEnds`,
`SubmitReturns`, `IdleReclaims`, `Answered` and `SweepReturns` stay with TLC.

## Not modelled

- Transport: status callbacks, which run under the lock; a child that does not read its
  input (`submit` writes while it holds the lock); stderr and the texts of errors;
  a stop that times out, except in `WorkerPool`.
- Pool: what becomes of children nobody terminates. A submission that starts after
  `shutdown()` on a worker it got before spawns a child no pool knows, and a stop that
  times out ends `shutdown()` with the remaining workers unterminated. No text of the
  repository says what is meant, so `ShutdownStops` speaks of the children of a
  shutdown that returned.
- Client and contract: names, units, frequencies and the open dictionaries of the
  schema, beyond what another check reads; the JSON Schema interpreter itself. The
  ready validator does not look at `phasor_conventions`, `mesh_data` and
  `request_transports`; announcements in the run have them well formed. A
  `motion_axis` in a system with an interior, and more than one unbounded region,
  pass the Python validators and are refused by the Julia dispatch: the model has
  these as failures of the driver (`Dispatches`), apart from those of the contract.
- Loop: the contents of requests; a device library whose reclaim fails (the worker
  ignores it).
- Sweep: the interior driver, which has no pipeline; a release that throws; the
  thread and memory plans. The source driver, the deploy factor cache and the
  sparse sessions are listed in the plan.
- Floating-point kernels, dense and sparse algebra: nothing a model checker could
  decide. Backend look-ups, bundles, scripts and benchmarks keep no state of the
  running engine.

## Plan

1. A composed session: transport and loop joined by bounded pipes, each refining
   its half of `WorkerChild`; a child that does not read; a stop that fails.
2. The source driver's sweep as a third instance of `SweepPipeline`; the FEM
   task beside a coupled frequency and its join on failure.
3. The deploy factor cache: reuse decisions, budget, stale factors.
4. Proofs: the composed session over `PipeInv` and `LoopInv`, and the later instances of
   `SweepInv`; the pool over the transport's own invariants instead of `WorkerHandle`.
