--------------------------- MODULE MCEngineWorker ---------------------------
(***************************************************************************)
(* Requests and announcements for EngineWorker: three systems that are     *)
(* accepted and everything that is one or two changes away from them; the  *)
(* announcement of the repository's worker and what is one or two omissions*)
(* away from it.                                                           *)
(***************************************************************************)
EXTENDS ClientProperties, TLC

CONSTANTS a, b, p1, p2

Num(n) == [type |-> "int", tenths |-> 10 * n]

-----------------------------------------------------------------------------
(* Meshes. *)

File(id) == [id |-> id, file |-> TRUE, mesh_data |-> None]

Array(rows, columns, bytes) == [rows |-> rows, columns |-> columns, bytes |-> bytes]
Triangle == [type |-> "triangle", connectivity |-> Array(1, 3, 24),
             physical_tags |-> Array(1, 1, 8), elements |-> <<<<0, 1, 2>>>>, tags |-> <<2>>]
Packed == [schema_version |-> 1, points |-> Array(3, 3, 72), finite |-> TRUE,
           physical_names |-> {<<2, 2>>}, cells |-> <<Triangle>>]

\* What can be wrong with a packed mesh.
Damaged ==
    {[Packed EXCEPT !.schema_version = 2],
     [Packed EXCEPT !.points = Array(4, 3, 72), !.cells[1].elements = <<<<0, 1, 3>>>>],
     [Packed EXCEPT !.points = Array(9, 1, 72)],
     [Packed EXCEPT !.finite = FALSE],
     [Packed EXCEPT !.physical_names = {}],
     [Packed EXCEPT !.physical_names = {<<2, 3>>}],
     [Packed EXCEPT !.physical_names = {<<2, 2>>, <<0, 2>>}],
     [Packed EXCEPT !.cells = <<>>],
     [Packed EXCEPT !.cells[1].type = "quad"],
     [Packed EXCEPT !.cells[1].type = "triangle6"],
     [Packed EXCEPT !.cells[1].type = "tetra", !.cells[1].connectivity = Array(1, 4, 32),
                    !.cells[1].elements = <<<<0, 1, 2, 3>>>>],
     [Packed EXCEPT !.cells[1].elements = <<<<0, 1, 3>>>>],
     [Packed EXCEPT !.cells[1].elements = <<<<0, 1, 1>>>>],
     [Packed EXCEPT !.cells[1].connectivity = Array(2, 3, 24)],
     [Packed EXCEPT !.cells[1].connectivity = Array(2, 3, 48),
                    !.cells[1].elements = <<<<0, 1, 2>>, <<2, 1, 0>>>>],
     [Packed EXCEPT !.cells[1].physical_tags = Array(0, 1, 0), !.cells[1].tags = <<>>]}

Inlined(data) == [id |-> "m1", file |-> FALSE, mesh_data |-> data]

-----------------------------------------------------------------------------
(* Systems and requests. *)

Surface(mesh) == [mesh_id |-> mesh, dimension |-> 2]
Region(id, kind, mesh) ==
    [id |-> id, kind |-> kind, mesh_ids |-> <<mesh>>, lossy |-> FALSE,
     volume_groups |-> IF kind = "bounded_air"
                       THEN <<[mesh_id |-> mesh, dimension |-> 3]>> ELSE <<>>]
Wall(id, region, kind, mesh) ==
    [id |-> id, region_id |-> region, kind |-> kind, group |-> Surface(mesh),
     losses |-> None, lined |-> FALSE]
Source == [id |-> "c1", kind |-> "ideal_velocity_source", boundary_ids |-> <<"b1">>,
           motion_profile |-> None, motion_axis |-> FALSE]
Port(id, component) == [id |-> id, component_id |-> component]
Join == [id |-> "i1", bounded_boundary_id |-> "b2", unbounded_boundary_id |-> "b3",
         fem_vertices |-> 2, bem_vertices |-> 2, fem_faces |-> 1, bem_faces |-> 1,
         signs |-> 1]

OneRegion(kind) ==
    [contract_version |-> Num(3), meshes |-> <<File("m1")>>,
     regions |-> <<Region("r1", kind, "m1")>>,
     boundaries |-> <<Wall("b1", "r1", "moving", "m1"), Wall("b2", "r1", "rigid", "m1")>>,
     interfaces |-> <<>>, components |-> <<Source>>,
     excitation_ports |-> <<Port("e1", "c1")>>]

Coupled ==
    [OneRegion("bounded_air") EXCEPT
        !.meshes = @ \o <<File("m2")>>,
        !.regions = @ \o <<Region("r2", "unbounded_air", "m2")>>,
        !.boundaries = @ \o <<Wall("b3", "r2", "interface", "m2")>>,
        !.interfaces = <<Join>>]

Plainly == [phasor_convention |-> None, bem_backend |-> None, precision |-> None,
            symmetry |-> None, voltage |-> None]

Request(s) ==
    [system |-> s, excitation_port_ids |-> IF s = None THEN <<>> ELSE <<"e1">>,
     outputs |-> <<>>, options |-> Plainly, cancel |-> FALSE,
     arrays |-> 1, field_quantity |-> None]

Output(id, quantity, targets) ==
    [id |-> id, quantity |-> quantity, target_ids |-> targets]

-----------------------------------------------------------------------------
(* One change to a request. *)

Versions2 == {Num(1), Num(2), Num(4), [type |-> "bool", tenths |-> 10],
              [type |-> "float", tenths |-> 15], [type |-> "float", tenths |-> 20],
              [type |-> "nonfinite", tenths |-> 0]}

Meshes(s) ==
    {[s EXCEPT !.meshes = m] :
        m \in {<<>>, s.meshes \o <<File("m1")>>, <<[File("m1") EXCEPT !.file = FALSE]>>,
               <<[Inlined(Packed) EXCEPT !.file = TRUE]>>}
              \cup {<<Inlined(d)>> : d \in Damaged \cup {Packed}}}

Regions(s) ==
    {[s EXCEPT !.regions = <<r>> \o Tail(@)] :
        r \in {[s.regions[1] EXCEPT !.mesh_ids = m] : m \in {<<>>, <<"m9">>, <<"m1", "m1">>}}
              \cup {[s.regions[1] EXCEPT !.lossy = TRUE], [s.regions[1] EXCEPT !.kind = "solid"],
                    [s.regions[1] EXCEPT !.volume_groups = <<[mesh_id |-> "m9", dimension |-> 3]>>],
                    [s.regions[1] EXCEPT !.volume_groups = <<Surface("m1")>>]}}
    \cup {[s EXCEPT !.regions = r] :
        r \in {<<>>, s.regions \o <<Region("r1", "unbounded_air", "m1")>>,
               s.regions \o <<Region("r3", "unbounded_air", "m1")>>}}

Boundaries(s) ==
    {[s EXCEPT !.boundaries[i] = w] :
        i \in {1, 2},
        w \in {[s.boundaries[2] EXCEPT !.region_id = "r9"],
               [s.boundaries[2] EXCEPT !.group.mesh_id = "m9"],
               [s.boundaries[2] EXCEPT !.group.dimension = 3],
               [s.boundaries[2] EXCEPT !.losses = "thin_boundary_layer"],
               [s.boundaries[2] EXCEPT !.losses = "thin_boundary_layer", !.id = "b1"],
               [s.boundaries[2] EXCEPT !.losses = "thin_boundary_layer", !.lined = TRUE],
               [s.boundaries[2] EXCEPT !.losses = "thin_boundary_layer", !.region_id = "r9"],
               [s.boundaries[2] EXCEPT !.losses = "off", !.kind = "moving"],
               [s.boundaries[2] EXCEPT !.losses = "later"]}}
    \cup {[s EXCEPT !.interfaces = <<j>>] :
        j \in {[Join EXCEPT !.unbounded_boundary_id = "b2"], [Join EXCEPT !.bounded_boundary_id = "b9"],
               [Join EXCEPT !.bem_vertices = 1], [Join EXCEPT !.signs = 2]}}

Components(s) ==
    {[s EXCEPT !.components[1] = c] :
        c \in {[Source EXCEPT !.kind = k] : k \in {"electrodynamic_transducer", "passive_radiator"}}
              \cup {[Source EXCEPT !.boundary_ids = l] : l \in {<<>>, <<"b1", "b9">>, <<"b1", "b1">>, <<"b1", "b2">>}}
              \cup {[Source EXCEPT !.motion_profile = m] : m \in {"uniform_normal", "rigid_translation"}}
              \cup {[Source EXCEPT !.motion_axis = TRUE]}}
    \cup {[s EXCEPT !.components = @ \o <<c>>] :
        c \in {Source, [Source EXCEPT !.id = "c2"],
               [Source EXCEPT !.id = "c2", !.kind = "electrodynamic_transducer"]}}
    \cup {[s EXCEPT !.excitation_ports = l] :
        l \in {<<>>, <<Port("e1", "c9")>>, <<Port("e1", "c1"), Port("e1", "c1")>>,
               <<Port("e1", "c1"), Port("e2", "c2")>>}}

Changed(s) ==
    {[s EXCEPT !.contract_version = v] : v \in Versions2}
    \cup Meshes(s) \cup Boundaries(s) \cup Components(s)
    \cup Regions(s)

Outputs ==
    {<<Output("o1", x, l)>> :
        x \in {"radiation_impedance", "radiation_impedance_matrix", "interface_radiated_pressure"},
        l \in {<<>>, <<"c1">>, <<"c2">>, <<"c9">>, <<"c1", "c9">>, <<"c1", "c1">>}}
    \cup {<<Output("o1", "pressure", <<>>), Output("o1", "pressure", <<>>)>>}

Options ==
    {[Plainly EXCEPT !.phasor_convention = c] : c \in {"negative", "positive", "none"}}
    \cup {[Plainly EXCEPT !.bem_backend = x] : x \in {"metal", "cuda"}}
    \cup {[Plainly EXCEPT !.bem_backend = "metal", !.precision = "float64"],
          [Plainly EXCEPT !.precision = "complex128"], [Plainly EXCEPT !.symmetry = "xz"]}
    \cup {[Plainly EXCEPT !.voltage = v] :
            v \in {Num(0), [type |-> "float", tenths |-> 5], [type |-> "bool", tenths |-> 10],
                   [type |-> "nonfinite", tenths |-> 0]}}

Asked(q) ==
    {[q EXCEPT !.outputs = o] : o \in Outputs}
    \cup {[q EXCEPT !.options = o] : o \in Options}
    \cup {[q EXCEPT !.excitation_port_ids = l] :
            l \in {<<>>, <<"e9">>, <<"e1", "e1">>, <<"e1", "e2">>}}
    \cup {[q EXCEPT !.cancel = TRUE]}

-----------------------------------------------------------------------------
(* Announcements: the repository's, with a device of each sort, and others. *)

Lists ==
    [system_request |-> {1}, compiled_system |-> {1, 2, 3}, system_result |-> {2},
     field_array |-> {1}, mesh_data |-> {1},
     operations |-> {"solve", "bem_field"}, precisions |-> {"float32", "float64"},
     solve_kinds |-> {"exterior_bem", "interior_fem", "coupled_fem_bem_lem"},
     exterior_component_kinds |-> {"ideal_velocity_source", "electrodynamic_transducer"},
     exterior_source_profiles |-> {"uniform_normal", "rigid_translation"},
     fem_wall_loss_models |-> {"thin_boundary_layer"}, fem_wall_loss_scopes |-> {"boundary"},
     optional_output_quantities |-> AnnouncedOutputs,
     request_transports |-> {"file", "inline_json"},
     phasor_conventions |-> {"negative", "positive"}]

Device(available, conventions) ==
    [available |-> available, phasor_conventions |-> conventions]

Full ==
    [type |-> "ready", protocol |-> [name |-> "beat-worker", version |-> Num(1)],
     engine |-> TRUE, lists |-> Lists, malformed |-> {},
     backends |-> [cpu |-> Device(TRUE, None), metal |-> Device(TRUE, {"negative"}),
                   cuda |-> Device(FALSE, None)],
     cancellation |-> "marker_file", field_quantities |-> {<<"cpu", "gradient">>}]

Without(ann, names) == [ann EXCEPT !.lists = Restrict(@, DOMAIN @ \ names)]

Legacy == [Without(Full, DOMAIN Lists) EXCEPT !.protocol = None,
                                              !.backends.metal.phasor_conventions = None]
LegacyBoth == [Legacy EXCEPT !.lists = [phasor_conventions |-> {"negative", "positive"}]]

Omissions ==
    {Without(Full, {n}) : n \in DOMAIN Lists}
    \cup {[Full EXCEPT !.lists.compiled_system = v] : v \in {{1}, {1, 2}, {}}}
    \cup {[Full EXCEPT !.lists.system_result = {1}], [Full EXCEPT !.lists.solve_kinds = {}],
          [Full EXCEPT !.malformed = {"fem_wall_loss_models"}], [Full EXCEPT !.type = "hello"],
          [Full EXCEPT !.protocol.name = "other"], [Full EXCEPT !.engine = FALSE],
          [Full EXCEPT !.protocol.version = [type |-> "bool", tenths |-> 10]],
          [Full EXCEPT !.cancellation = None], [Full EXCEPT !.backends = <<>>], Legacy}

-----------------------------------------------------------------------------
(* The cases: one job with a request that may be wrong; one job with a      *)
(* request that asks for something of a worker that lacks something; and    *)
(* two jobs on two workers that differ.                                     *)

Ask(q, op, inline, edited) ==
    [request |-> q, operation |-> op, inline |-> inline, edited |-> edited]
Alone(ask, ann) ==
    [asks |-> a :> ask, announces |-> (p1 :> ann) @@ (p2 :> ann), systemSolver |-> TRUE]

\* One change, or two that have to do with each other.
Systems == {OneRegion("unbounded_air"), OneRegion("bounded_air"), Coupled}
Once == UNION {{Request(s) : s \in Changed(t)} \cup Asked(Request(t)) : t \in Systems}
Twice ==
    UNION {{Request(s) : s \in Boundaries(t) \cup Components(t)} :
             t \in UNION {Regions(u) \cup Boundaries(u) : u \in Systems}}
    \cup UNION {Asked(Request(t)) : t \in UNION {Components(u) : u \in Systems}}

Wrong == {Alone(Ask(q, "solve", TRUE, FALSE), Full) : q \in Once \cup Twice}

Lacking ==
    {Alone(Ask(q, "solve", TRUE, FALSE), ann) :
        q \in {r \in Once : ValidateSolveRequest(r) = "ok"},
        ann \in Omissions}

Field(c, quantity) ==
    [Request(None) EXCEPT !.options.phasor_convention = c, !.field_quantity = quantity]
Phased(c) == [Request(OneRegion("unbounded_air")) EXCEPT !.options.phasor_convention = c]

Beside ==
    {[asks |-> (a :> Ask(q, "solve", FALSE, TRUE)) @@ (b :> other),
      announces |-> (p1 :> first) @@ (p2 :> second), systemSolver |-> FALSE] :
        q \in {Phased("negative"), Phased("positive"), Request(None)},
        other \in {Ask(Phased(None), "solve", TRUE, FALSE),
                   Ask(Phased("positive"), "solve", FALSE, FALSE),
                   Ask(Field("positive", "gradient"), "bem_field", FALSE, FALSE)},
        first \in {Full, Legacy, LegacyBoth, Without(Full, {"phasor_conventions"})},
        second \in {Full, Legacy}}

MCCases == Wrong \cup Lacking \cup Beside
=============================================================================
