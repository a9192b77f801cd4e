---------------------------- MODULE Negotiation ----------------------------
(***************************************************************************)
(* beat_contract/worker.py: what a client asks of a worker's ready         *)
(* announcement before it writes a command, and of the events that come    *)
(* back; and what the worker asks of the command (BeatEngineContract.jl    *)
(* and the command loop of BeatEngineCompiledDriver.jl).                   *)
(*                                                                         *)
(* An announcement has its protocol, its lists by name (contract versions, *)
(* operations and capabilities; a list that is not sent is not in the      *)
(* domain), the names of the lists that are not lists of the right kind,   *)
(* and its backends. Text is compared in lower case.                       *)
(***************************************************************************)
EXTENDS SystemContract, FiniteSets

WORKER_PROTOCOL_VERSION == 1
FIELD_ARRAY_VERSION == 1
SYSTEM_SOLVE_REQUEST_VERSION == 1
SYSTEM_RESULT_VERSION == 2

\* A value, or what stands for it when it is absent.
Or(value, default) == IF value = None THEN default ELSE value

-----------------------------------------------------------------------------
(* validate_worker_ready(). *)

Versions == {"system_request", "compiled_system", "system_result", "field_array"}
Capabilities == {"operations", "precisions", "solve_kinds"}
OptionalCapabilities ==
    {"exterior_component_kinds", "exterior_source_profiles",
     "fem_wall_loss_models", "fem_wall_loss_scopes", "optional_output_quantities"}

ReadyLooks(info) ==
    << Demand(info.type = "ready"),
       Demand(info.protocol # None),
       Look(info.protocol # None, info.protocol.name = "beat-worker"),
       Look(info.protocol # None,
            info.protocol.version = [type |-> "int", tenths |-> 10 * WORKER_PROTOCOL_VERSION]),
       Demand(info.engine),
       Demand(Versions \cup Capabilities \subseteq DOMAIN info.lists),
       Demand(\A v \in Versions \cap DOMAIN info.lists : info.lists[v] # {}),
       Demand(info.malformed \cap
                (Versions \cup Capabilities \cup OptionalCapabilities) = {}),
       Demand(DOMAIN info.backends # {}) >>

ValidateWorkerReady(info) == Verdict(ReadyLooks(info))

-----------------------------------------------------------------------------
(* negotiate_submission(). *)

\* What a worker is taken to support when it does not say.
Unsaid(name) ==
    CASE name = "exterior_component_kinds" -> {"ideal_velocity_source"}
      [] name = "exterior_source_profiles" -> {"uniform_normal"}
      [] name = "phasor_conventions" -> {"negative"}
      [] OTHER -> {}

Says(info, name) ==
    IF name \in DOMAIN info.lists THEN info.lists[name] ELSE Unsaid(name)

Kind(s) ==
    LET kinds == {r.kind : r \in ToSet(s.regions)}
    IN  IF "unbounded_air" \notin kinds THEN "interior_fem"
        ELSE IF "bounded_air" \notin kinds THEN "exterior_bem"
        ELSE "coupled_fem_bem_lem"

AnnouncedOutputs ==
    {"interface_average_normal_velocity", "interface_radiated_pressure",
     "radiation_impedance_matrix"}

SourceProfile(info, s, c) ==
    LET profile == Or(c.motion_profile, "uniform_normal")
    IN  c.kind = "ideal_velocity_source" /\ profile # "uniform_normal" =>
            /\ Kind(s) = "exterior_bem"
            /\ profile \in Says(info, "exterior_source_profiles")

SolveLooks(info, q) ==
    LET s == q.system IN
    << Demand((\E m \in ToSet(s.meshes) : m.mesh_data # None)
                => 1 \in Says(info, "mesh_data")),
       Demand(/\ SYSTEM_SOLVE_REQUEST_VERSION \in Says(info, "system_request")
              /\ s.contract_version.tenths \div 10 \in Says(info, "compiled_system")
              /\ SYSTEM_RESULT_VERSION \in Says(info, "system_result")),
       Demand(\A out \in ToSet(q.outputs) : out.quantity \in AnnouncedOutputs
                => out.quantity \in Says(info, "optional_output_quantities")),
       Demand(\A b \in ToSet(s.boundaries) : LossyWall(b)
                => /\ "boundary" \in Says(info, "fem_wall_loss_scopes")
                   /\ b.losses \in Says(info, "fem_wall_loss_models")),
       Demand(Kind(s) \in Says(info, "solve_kinds")),
       Demand(\A c \in ToSet(s.components) :
                /\ Kind(s) = "exterior_bem" =>
                     c.kind \in Says(info, "exterior_component_kinds")
                /\ SourceProfile(info, s, c)),
       Demand(q.cancel => info.cancellation = "marker_file") >>

FieldLooks(info, q) ==
    << Demand(FIELD_ARRAY_VERSION \in Says(info, "field_array")),
       Demand(q.arrays = FIELD_ARRAY_VERSION),
       Demand(Or(q.field_quantity, "pressure") # "pressure" =>
                <<Or(q.options.bem_backend, "cpu"), q.field_quantity>>
                    \in info.field_quantities) >>

\* The precision and the backend a request comes to.
Plain(precision) ==
    CASE precision = "complex64" -> "float32" [] precision = "complex128" -> "float64"
      [] OTHER -> precision

Precision(q, op) ==
    IF op = "solve" /\ Kind(q.system) # "exterior_bem"
    THEN Plain(Or(q.options.precision, "float64"))
    ELSE Or(q.options.precision, "float32")

Backend(q, op) ==
    IF op = "solve" /\ Kind(q.system) = "interior_fem" THEN "cpu"
    ELSE Or(q.options.bem_backend, "cpu")

Convention(q) == Or(q.options.phasor_convention, "negative")

BackendLooks(info, q, op) ==
    LET name == Backend(q, op)
        known == name \in DOMAIN info.backends
    IN  << Demand(Convention(q) \in Says(info, "phasor_conventions")),
           Demand(Precision(q, op) \in Says(info, "precisions")),
           Demand(known /\ info.backends[name].available),
           Look(known, Convention(q) \in Or(info.backends[name].phasor_conventions,
                                            Says(info, "phasor_conventions"))) >>

\* The verdict; the command is CommandFor when it is "ok".
NegotiateSubmission(info, q, op) ==
    LET ready == Verdict(ReadyLooks(info)
                         \o << Demand(op \in Says(info, "operations")) >>)
        request == IF op # "solve" THEN "ok"
                   ELSE IF q.system = None THEN "refused" ELSE ValidateSolveRequest(q)
    IN  IF ready # "ok" THEN ready
        ELSE IF request # "ok" THEN request
        ELSE Verdict((IF op = "solve" THEN SolveLooks(info, q) ELSE FieldLooks(info, q))
                     \o BackendLooks(info, q, op))

-----------------------------------------------------------------------------
(* validate_worker_event(). *)

ValidateWorkerEvent(event) ==
    /\ event.type = "result" => event.schema_version = SYSTEM_RESULT_VERSION
    /\ event.type = "field_result" => event.binary

-----------------------------------------------------------------------------
(* The worker's side. own is what it announces.                             *)

\* validate_worker_submission().
ValidateWorkerSubmission(own, command) ==
    /\ command.protocol_version = WORKER_PROTOCOL_VERSION
    /\ Or(command.phasor_convention, "negative") \in Says(own, "phasor_conventions")
    /\ command.operation \in Says(own, "operations")
    /\ command.inline => command.operation = "solve"
    /\ IF command.operation = "solve"
       THEN command.result_schema_version \in Says(own, "system_result")
       ELSE command.field_array_schema_version \in Says(own, "field_array")

\* The request it has read, against the command.
SameConvention(command, q) == Convention(q) = Or(command.phasor_convention, "negative")

\* What solve_request_impl demands before it hands the request to a driver.
Dispatches(q) ==
    LET s == q.system IN
    /\ ~Exterior(s) => \A c \in ToSet(s.components) : c.kind = "ideal_velocity_source" =>
           Or(c.motion_profile, "uniform_normal") = "uniform_normal" /\ ~c.motion_axis
    /\ \A out \in ToSet(q.outputs) : out.quantity = "interface_radiated_pressure" =>
           s.interfaces # <<>> /\ Kind(s) = "coupled_fem_bem_lem"
    /\ Cardinality({i \in DOMAIN s.regions : s.regions[i].kind = "unbounded_air"}) <= 1
=============================================================================
