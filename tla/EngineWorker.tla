---------------------------- MODULE EngineWorker ----------------------------
(***************************************************************************)
(* EngineWorker of src/src/beat_engine/client.py: the worker that asks     *)
(* before it submits and looks at what comes back, over the transport of   *)
(* worker.py with its children, its terminate() and its event streams.     *)
(*                                                                         *)
(* What the transport does in several sections is one step here; which     *)
(* interleavings that leaves out is WorkerProcess's matter. What stays     *)
(* apart is what reads _worker_info and _expected_phasor: a submission,    *)
(* under the lock, and _accept_event, without it.                          *)
(***************************************************************************)
EXTENDS Negotiation

CONSTANTS
    Jobs,      \* calls of submit()
    Children,  \* the processes the worker may spawn
    Cases      \* what is asked and announced: [asks, announces, systemSolver]

ASSUME ClientAssumption ==
    /\ None \notin Jobs \cup Children \cup {"negative", "positive"}
    /\ \A c \in Cases : DOMAIN c.asks \subseteq Jobs /\ DOMAIN c.announces = Children

\* A list of JSON is a list, and an array that is as long as its shape says has
\* as many rows.
IsList(list) == list \in Seq(ToSet(list))
Rows(a, rows) == a.bytes = 8 * a.rows * a.columns => DOMAIN rows = 1..a.rows

ParsedMesh(m) ==
    /\ m.points.rows \in Nat /\ IsList(m.cells)
    /\ \A block \in ToSet(m.cells) :
        Rows(block.connectivity, block.elements) /\ Rows(block.physical_tags, block.tags)

ParsedSystem(s) ==
    /\ \A list \in {s.meshes, s.regions, s.boundaries, s.interfaces, s.components,
                     s.excitation_ports} : IsList(list)
    /\ \A r \in ToSet(s.regions) : IsList(r.volume_groups)
    /\ \A m \in ToSet(s.meshes) : m.mesh_data # None => ParsedMesh(m.mesh_data)

\* A solve may be of a system; a field request is of none.
Parsed(ask) ==
    /\ {"system", "options", "outputs"} \subseteq DOMAIN ask.request
    /\ "phasor_convention" \in DOMAIN ask.request.options
    /\ ask.operation \in {"solve", "bem_field"} /\ IsList(ask.request.outputs)
    /\ ask.request.system # None =>
        ask.operation = "solve" /\ ParsedSystem(ask.request.system)

\* A worker too old for a protocol knows of no convention of a backend.
Announced(own) ==
    /\ own # None
    /\ own.protocol = None =>
        \A b \in DOMAIN own.backends : own.backends[b].phasor_conventions = None

ASSUME CasesAssumption ==
    \A c \in Cases :
        /\ \A j \in DOMAIN c.asks : Parsed(c.asks[j])
        /\ \A p \in Children : Announced(c.announces[p])

VARIABLES
    case,         \* the case
    file,         \* what a job's request file holds, or its dict
    asked,        \* what it held when the command was prepared
    process,      \* _process
    info,         \* _worker_info
    expected,     \* _expected_phasor
    starting,     \* _starting
    active,       \* _active_submission
    invalidated,  \* the jobs whose token terminate() has invalidated
    alive,        \* the children that run
    spawned,      \* those that ever did
    command,      \* the command a child has not read yet
    out,          \* the lines of a child not read yet
    pc,           \* where a job stands
    line,         \* the event its reader has in hand
    child,        \* the process its stream reads from
    handed        \* the results its caller was given

worker   == <<process, info, expected, starting, active, invalidated>>
children == <<alive, spawned, command, out>>
jobs     == <<pc, line, child, handed>>
vars == <<case, file, asked, worker, children, jobs>>

Init ==
    /\ case \in Cases
    /\ file = [j \in DOMAIN case.asks |-> case.asks[j].request]
    /\ asked = [j \in Jobs |-> None]
    /\ process = None /\ info = None /\ expected = "negative"
    /\ starting = None /\ active = None /\ invalidated = {}
    /\ alive = {} /\ spawned = {}
    /\ command = [p \in Children |-> None] /\ out = [p \in Children |-> <<>>]
    /\ pc = [j \in Jobs |-> IF j \in DOMAIN case.asks THEN "new" ELSE "done"]
    /\ line = [j \in Jobs |-> None] /\ child = [j \in Jobs |-> None]
    /\ handed = [j \in Jobs |-> {}]

Goes(j, where) == pc' = [pc EXCEPT ![j] = where]

\* _detach_process and _stop_process.
Discard ==
    /\ process' = None /\ info' = None
    /\ alive' = alive \ {process}

-----------------------------------------------------------------------------
(* Startup. *)

Start(j) ==
    /\ pc[j] = "new" /\ starting = None /\ active = None
    /\ starting' = j
    /\ IF process \in alive
       THEN Goes(j, "ready") /\ UNCHANGED <<process, info, alive, spawned>>
       ELSE \E p \in Children \ spawned :
              /\ process' = p /\ info' = None
              /\ alive' = alive \cup {p} /\ spawned' = spawned \cup {p}
              /\ Goes(j, "booting")
    /\ UNCHANGED <<case, file, asked, expected, active, invalidated, command, out,
                   line, child, handed>>

\* _accept_ready: who speaks a protocol must speak this one, and so must the
\* engine's own solver.
Announces(p) == case.announces[p]
AcceptReady(p) ==
    \/ Announces(p).protocol = None /\ ~case.systemSolver
    \/ ValidateWorkerReady(Announces(p)) = "ok"

Ready(j) ==
    /\ pc[j] = "booting" /\ starting = j
    /\ IF process \in alive /\ AcceptReady(process)
       THEN /\ info' = Announces(process)
            /\ Goes(j, "ready")
            /\ UNCHANGED <<process, alive, starting>>
       ELSE Discard /\ starting' = None /\ Goes(j, "refused")
    /\ UNCHANGED <<case, file, asked, expected, active, invalidated, spawned, command,
                   out, line, child, handed>>

-----------------------------------------------------------------------------
(* _prepare_submission, and the write. The command goes out in the section   *)
(* that prepared it.                                                         *)

Negotiated == info.protocol # None
Inline(j) == case.asks[j].inline
Operation(j) == case.asks[j].operation

\* A dict can be sent to a worker that says so, for a solve.
Transportable(j) ==
    Inline(j) => Operation(j) = "solve" /\ "inline_json" \in Says(info, "request_transports")

Negotiate(j) ==
    IF Operation(j) = "bem_field" \/ file[j].system # None \/ Negotiated
    THEN NegotiateSubmission(info, file[j], Operation(j))
    ELSE IF Convention(file[j]) \in Says(info, "phasor_conventions")
         THEN "ok" ELSE "refused"

\* The command, as _prepare_submission makes it.
Command(j, convention) ==
    [job |-> j, operation |-> Operation(j), inline |-> Inline(j),
     request |-> IF Inline(j) THEN file[j] ELSE None,
     protocol_version |-> IF Negotiated THEN WORKER_PROTOCOL_VERSION ELSE None,
     result_schema_version |-> SYSTEM_RESULT_VERSION,
     field_array_schema_version |-> FIELD_ARRAY_VERSION,
     phasor_convention |-> convention]
\* (Mutant: the convention is left out.)
CommandUnsaid(j) == Command(j, None)
CommandFor(j) ==
    Command(j, IF Negotiated THEN file[j].options.phasor_convention ELSE None)

Submit(j) ==
    /\ pc[j] = "ready" /\ starting = j
    /\ starting' = None
    /\ expected' = IF Transportable(j) THEN Convention(file[j]) ELSE expected
    /\ asked' = [asked EXCEPT ![j] = file[j]]
    /\ LET verdict == IF Transportable(j) THEN Negotiate(j) ELSE "refused"
       IN  IF verdict = "ok" /\ process \in alive
           THEN /\ command' = [command EXCEPT ![process] = CommandFor(j)]
                /\ child' = [child EXCEPT ![j] = process]
                /\ active' = j
                /\ Goes(j, "streaming")
           ELSE /\ Goes(j, IF verdict = "ok" THEN "failed" ELSE verdict)
                /\ UNCHANGED <<command, child, active>>
    /\ UNCHANGED <<case, file, process, info, invalidated, alive, spawned, out, line,
                   handed>>

\* A startup that terminate() has invalidated.
Aborted(j) ==
    /\ pc[j] \in {"booting", "ready"} /\ starting # j
    /\ Goes(j, "terminated")
    /\ UNCHANGED <<case, file, asked, worker, children, line, child, handed>>

-----------------------------------------------------------------------------
(* The event stream. *)

ReadLine(j) ==
    /\ pc[j] = "streaming" /\ j \notin invalidated /\ out[child[j]] # <<>>
    /\ line' = [line EXCEPT ![j] = Head(out[child[j]])]
    /\ out' = [out EXCEPT ![child[j]] = Tail(@)]
    /\ Goes(j, "read")
    /\ UNCHANGED <<case, file, asked, worker, alive, spawned, command, child, handed>>

\* _accept_event, of whatever worker is there by now.
IsResult(event) == event.type \in {"result", "field_result"}
AcceptEvent(event) ==
    /\ (info # None /\ Negotiated) => ValidateWorkerEvent(event)
    /\ IsResult(event) => Or(event.phasor_convention, "negative") = expected

Accept(j) ==
    /\ pc[j] = "read"
    /\ Goes(j, IF AcceptEvent(line[j]) THEN "accepted" ELSE "raising")
    /\ UNCHANGED <<case, file, asked, worker, children, line, child, handed>>

\* The end of a stream: the worker is free, and an unfinished child goes.
Finish(j, discard) ==
    /\ active' = IF active = j THEN None ELSE active
    /\ IF active = j /\ discard THEN Discard ELSE UNCHANGED <<process, info, alive>>

\* __next__ returns the event, unless the token is invalid by now. (Mutant: it
\* is not looked at again.)
HandAnyway(j) == TRUE
StillMine(j) == j \notin invalidated

Hand(j) ==
    /\ pc[j] = "accepted"
    /\ LET terminal == line[j].type \in {"completed", "failed"} IN
       IF StillMine(j)
       THEN /\ handed' = [handed EXCEPT ![j] = IF IsResult(line[j]) THEN @ \cup {line[j]} ELSE @]
            /\ Goes(j, IF terminal THEN "done" ELSE "streaming")
            /\ IF terminal THEN Finish(j, FALSE) ELSE UNCHANGED <<active, process, info, alive>>
       ELSE /\ Goes(j, "terminated")
            /\ Finish(j, TRUE)
            /\ UNCHANGED handed
    /\ UNCHANGED <<case, file, asked, expected, starting, invalidated, spawned, command, out,
                   line, child>>

\* It raises; a stream that has been terminated says so, whatever the reason.
\* (Mutant: it gives the reason.)
BlameReader(j) == "mismatch"
Blame(j) == IF j \in invalidated THEN "terminated" ELSE "mismatch"

Raise(j) ==
    /\ pc[j] = "raising"
    /\ Goes(j, Blame(j))
    /\ Finish(j, TRUE)
    /\ UNCHANGED <<case, file, asked, expected, starting, invalidated, spawned, command,
                   out, line, child, handed>>

\* The stream is found invalid, ends with the process, or is closed early.
Leave(j) ==
    /\ pc[j] = "streaming"
    /\ \/ j \in invalidated /\ Goes(j, "terminated")
       \/ j \notin invalidated /\ out[child[j]] = <<>> /\ child[j] \notin alive
            /\ Goes(j, "failed")
       \/ Goes(j, "done")
    /\ Finish(j, TRUE)
    /\ UNCHANGED <<case, file, asked, expected, starting, invalidated, spawned, command,
                   out, line, child, handed>>

-----------------------------------------------------------------------------
(* The caller and the other threads. *)

\* The request file is written again, with the other convention, and a field.
Flip(c) == IF c = "positive" THEN "negative" ELSE "positive"
Edit(j) ==
    /\ case.asks[j].edited /\ ~Inline(j) /\ file[j] = case.asks[j].request
    /\ file' = [file EXCEPT ![j].options.phasor_convention = Flip(Convention(file[j]))]
    /\ UNCHANGED <<case, asked, worker, children, jobs>>

Terminate ==
    /\ process # None
    /\ starting' = None /\ active' = None
    /\ invalidated' = IF active = None THEN invalidated ELSE invalidated \cup {active}
    /\ Discard
    /\ UNCHANGED <<case, file, asked, expected, spawned, command, out, jobs>>

ChildDies(p) ==
    /\ p \in alive
    /\ alive' = alive \ {p}
    /\ UNCHANGED <<case, file, asked, worker, spawned, command, out, jobs>>

-----------------------------------------------------------------------------
(* The child. It does what it announces, and nothing of what it does not:    *)
(* an older worker reads past an option it does not know.                    *)

\* What is asked for that a worker could leave out without a word.
Meaning(q) ==
    LET parts == IF q.system = None THEN {} ELSE
          {<<"exterior_source_profiles", Or(c.motion_profile, "uniform_normal")>> :
             c \in {x \in ToSet(q.system.components) : x.kind = "ideal_velocity_source"}}
          \cup {<<"fem_wall_loss_models", b.losses>> :
                  b \in {x \in ToSet(q.system.boundaries) : LossyWall(x)}}
    IN  {<<"phasor_conventions", Convention(q)>>} \cup parts

\* The conventions of a worker on the backend a request runs on.
Qualified(own, name) ==
    LET all == Says(own, "phasor_conventions")
    IN  all \cap IF name \in DOMAIN own.backends
                 THEN Or(own.backends[name].phasor_conventions, all) ELSE all

\* What it knows is as asked; else it is what it was before there was a choice.
Computes(own, q, op) ==
    LET backend == IF q.system = None THEN Or(q.options.bem_backend, "cpu")
                   ELSE Backend(q, op)
        known == {m \in Meaning(q) :
                    /\ m[2] \in Says(own, m[1])
                    /\ m[1] = "phasor_conventions" => m[2] \in Qualified(own, backend)
                    /\ m[1] = "fem_wall_loss_models" =>
                            "boundary" \in Says(own, "fem_wall_loss_scopes")}
        Before(m) == CASE m[1] = "phasor_conventions" -> "negative"
                       [] m[1] = "exterior_source_profiles" -> "uniform_normal"
                       [] OTHER -> "off"
    IN  {IF m \in known THEN m ELSE <<m[1], Before(m)>> : m \in Meaning(q)}

\* It says which convention it used, if it knows there are two.
Echo(own, q) ==
    IF "phasor_conventions" \in DOMAIN own.lists THEN Convention(q) ELSE None

Event(type) == [type |-> type, schema_version |-> None, binary |-> FALSE,
                phasor_convention |-> None, computed |-> {}, job |-> None]

Results(own, cmd, q) ==
    {[type |-> IF cmd.operation = "solve" THEN "result" ELSE "field_result",
      schema_version |-> version, binary |-> version = SYSTEM_RESULT_VERSION,
      phasor_convention |-> Echo(own, q),
      computed |-> Computes(own, q, cmd.operation), job |-> cmd.job] :
        version \in {1, SYSTEM_RESULT_VERSION}}

Failed(why, j) == << [Event("failed") EXCEPT !.job = j, !.computed = {why}] >>

\* What a worker reads of a request or refuses.
Reads(own, cmd, q) ==
    /\ ValidateWorkerSubmission(own, cmd)
    /\ SameConvention(cmd, q)
    /\ cmd.operation = "solve" =>
        /\ ValidateSolveRequest(q) = "ok"
        /\ q.system.contract_version.tenths \div 10 \in Says(own, "compiled_system")
        /\ Kind(q.system) \in Says(own, "solve_kinds")
        /\ \A m \in ToSet(q.system.meshes) : m.mesh_data # None => 1 \in Says(own, "mesh_data")
        /\ \A b \in {Backend(q, "solve")} \cap DOMAIN own.backends : own.backends[b].available

Answers(p) ==
    /\ p \in alive /\ command[p] # None
    /\ LET own == Announces(p)
           cmd == command[p]
           q == IF cmd.inline THEN cmd.request ELSE file[cmd.job]
       IN  IF own.protocol # None /\ ~Reads(own, cmd, q)
           THEN out' = [out EXCEPT ![p] = @ \o Failed("contract", cmd.job)]
           ELSE IF cmd.operation = "solve" /\ q.system # None /\ ~Dispatches(q)
           THEN out' = [out EXCEPT ![p] = @ \o Failed("driver", cmd.job)]
           ELSE \E r \in Results(own, cmd, q) :
                  out' = [out EXCEPT ![p] = @ \o <<r, Event("completed")>>]
    /\ command' = [command EXCEPT ![p] = None]
    /\ UNCHANGED <<case, file, asked, worker, alive, spawned, jobs>>

-----------------------------------------------------------------------------
Over == {"done", "refused", "failed", "terminated", "mismatch", "KeyError"}

\* Every job is over, or waits for a process nobody spawns any more.
Rest ==
    /\ \A j \in Jobs : pc[j] \in Over \/ (pc[j] = "new" /\ spawned = Children)
    /\ UNCHANGED vars

JobRuns(j) ==
    \/ Start(j) \/ Ready(j) \/ Submit(j) \/ Aborted(j)
    \/ ReadLine(j) \/ Accept(j) \/ Hand(j) \/ Raise(j) \/ Leave(j)

Next ==
    \/ \E j \in DOMAIN case.asks : JobRuns(j) \/ Edit(j)
    \/ \E p \in Children : Answers(p) \/ ChildDies(p)
    \/ Terminate
    \/ Rest

Spec == Init /\ [][Next]_vars
=============================================================================
