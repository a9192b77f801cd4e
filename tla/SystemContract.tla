--------------------------- MODULE SystemContract ---------------------------
(***************************************************************************)
(* The contract of a solve request: beat_contract/__init__.py and          *)
(* beat_contract/mesh.py, as the order in which a request is looked at and *)
(* what each look asks of it.                                              *)
(*                                                                         *)
(* A request is a record, a list of objects a sequence of records whose    *)
(* id may be that of another, and a reference an id that may lead nowhere. *)
(* An optional field that is absent is None. Names, units, frequencies and *)
(* the open dictionaries are there only as far as a check reads them.      *)
(***************************************************************************)
EXTENDS Integers, Sequences, SequencesExt

CONSTANT None

COMPILED_SYSTEM_VERSION == 3

-----------------------------------------------------------------------------
(* A validator is a sequence of looks. A look that finds nothing where the  *)
(* code indexes a dict raises KeyError; one whose demand is not met raises  *)
(* ValueError; what comes after it is not looked at.                        *)

Look(found, holds) == [found |-> found, holds |-> found => holds]
Demand(holds) == Look(TRUE, holds)

Verdict(looks) ==
    LET bad == {i \in DOMAIN looks : ~looks[i].found \/ ~looks[i].holds}
        first == CHOOSE i \in bad : \A j \in bad : i <= j
    IN  IF bad = {} THEN "ok"
        ELSE IF looks[first].found THEN "refused" ELSE "KeyError"

\* The looks at each item of a list, in its order.
ForEach(list, At(_)) == FlattenSeq([i \in DOMAIN list |-> At(list[i])])

-----------------------------------------------------------------------------
(* JSON values, ids and references. A number is in tenths.                  *)

FiniteJson(v) == v = None \/ v.type # "nonfinite"

\* bool is a subclass of int, and no integer here.
MatchesInteger(v) == v.type \in {"int", "float"} /\ v.tenths % 10 = 0

Ids(items) == {items[i].id : i \in DOMAIN items}
IdsOf(items) == [i \in DOMAIN items |-> items[i].id]
Named(items, id) == {items[i] : i \in {k \in DOMAIN items : items[k].id = id}}

Unique(values) == IsInjective(values)

\* No two are the same, and each leads to something. (Mutant: the first one
\* is looked up.)
FirstReference(values, available) == values = <<>> \/ Head(values) \in available
References(values, available) ==
    Unique(values) /\ ToSet(values) \subseteq available

-----------------------------------------------------------------------------
(* The schema, as far as the fields of the model go.                        *)

GroupSyntax(g) == g.dimension \in {2, 3}

SystemSyntax(s) ==
    /\ MatchesInteger(s.contract_version)
    /\ s.contract_version.tenths \in {10, 20, 30}
    /\ s.meshes # <<>> /\ s.regions # <<>>
    /\ \A r \in ToSet(s.regions) :
        /\ r.kind \in {"bounded_air", "unbounded_air"}
        /\ r.mesh_ids # <<>>
        /\ \A g \in ToSet(r.volume_groups) : GroupSyntax(g)
    /\ \A b \in ToSet(s.boundaries) :
        GroupSyntax(b.group) /\ b.losses \in {None, "off", "thin_boundary_layer"}
    /\ \A c \in ToSet(s.components) :
        /\ c.kind \in {"ideal_velocity_source", "electrodynamic_transducer",
                       "passive_radiator"}
        /\ c.boundary_ids # <<>>

RequestSyntax(q) ==
    /\ SystemSyntax(q.system)
    /\ q.excitation_port_ids # <<>>
    /\ q.options.phasor_convention \in {None, "negative", "positive"}

-----------------------------------------------------------------------------
(* mesh.py. An array has a shape and the number of bytes its text decodes   *)
(* to; a block has its elements' vertices and their tags.                   *)

CellWidth == [triangle |-> 3, triangle6 |-> 6, tetra |-> 4, tetra10 |-> 10]

\* decode_array: eight bytes a number, as many as the shape says. (Mutant:
\* the bytes are not counted.)
ShapeOnly(a, columns) == a.rows > 0 /\ a.columns = columns
DecodeArray(a, columns) ==
    a.rows > 0 /\ a.columns = columns /\ a.bytes = 8 * a.rows * columns

BlockLooks(block, count, groups) ==
    << Demand(block.type \in DOMAIN CellWidth),
       Look(block.type \in DOMAIN CellWidth,
            DecodeArray(block.connectivity, CellWidth[block.type])),
       Demand(DecodeArray(block.physical_tags, 1)),
       Demand(block.connectivity.rows = block.physical_tags.rows),
       Demand(\A i \in DOMAIN block.elements :
                /\ ToSet(block.elements[i]) \subseteq 0..(count - 1)
                /\ IsInjective(block.elements[i])),
       Demand(LET dimension == IF block.type \in {"tetra", "tetra10"} THEN 3 ELSE 2
              IN  \A i \in DOMAIN block.tags :
                    <<block.tags[i], dimension>> \in groups) >>

MeshDataLooks(m) ==
    << Demand(m.schema_version = 1),
       Demand(DecodeArray(m.points, 3)),
       Demand(m.finite),
       Demand(\A g \in m.physical_names : g[1] > 0 /\ g[2] \in {2, 3}),
       Demand(m.cells # <<>>) >>
    \o ForEach(m.cells, LAMBDA b : BlockLooks(b, m.points.rows, m.physical_names))

\* A mesh has a file or the data, and not both.
MeshLooks(mesh) ==
    IF mesh.mesh_data = None THEN << Demand(mesh.file) >>
    ELSE << Demand(~mesh.file) >> \o MeshDataLooks(mesh.mesh_data)

-----------------------------------------------------------------------------
(* The graph.                                                               *)

RegionLooks(s, r) ==
    << Demand(~r.lossy),
       Demand(References(r.mesh_ids, Ids(s.meshes))) >>
    \o ForEach(r.volume_groups, LAMBDA g :
         << Demand(g.mesh_id \in ToSet(r.mesh_ids) /\ g.dimension = 3) >>)

\* A wall that loses heat is a bare wall at rest in bounded air.
LossyWall(b) == b.losses \notin {None, "off"}
RestingWall(s, b) ==
    /\ \A r \in Named(s.regions, b.region_id) : r.kind = "bounded_air"
    /\ b.kind = "rigid" /\ ~b.lined
    /\ \A c \in ToSet(s.components) : b.id \notin ToSet(c.boundary_ids)

BoundaryLooks(s, b) ==
    LET known == b.region_id \in Ids(s.regions)
    IN  << Demand(References(<<b.region_id>>, Ids(s.regions))),
           Look(LossyWall(b) => known, LossyWall(b) => RestingWall(s, b)),
           Look(known,
                /\ \A r \in Named(s.regions, b.region_id) :
                     b.group.mesh_id \in ToSet(r.mesh_ids)
                /\ b.group.dimension = 2) >>

InterfaceLooks(s, i) ==
    << Demand(References(<<i.bounded_boundary_id, i.unbounded_boundary_id>>,
                         Ids(s.boundaries))),
       Demand(i.fem_vertices = i.bem_vertices),
       Demand(i.fem_faces = i.bem_faces /\ i.bem_faces = i.signs) >>

\* The length of a list of objects against the number of their ids.
UniqueIds(s) ==
    \A ids \in {IdsOf(s.meshes), IdsOf(s.regions), IdsOf(s.boundaries),
                IdsOf(s.interfaces), IdsOf(s.components), IdsOf(s.excitation_ports)} :
        Unique(ids)

GraphLooks(s) ==
    ForEach(s.meshes, MeshLooks)
    \o << Demand(UniqueIds(s)) >>
    \o ForEach(s.regions, LAMBDA r : RegionLooks(s, r))
    \o ForEach(s.boundaries, LAMBDA b : BoundaryLooks(s, b))
    \o ForEach(s.components, LAMBDA c :
         << Demand(References(c.boundary_ids, Ids(s.boundaries))) >>)
    \o ForEach(s.excitation_ports, LAMBDA p :
         << Demand(References(<<p.component_id>>, Ids(s.components))) >>)
    \o ForEach(s.interfaces, LAMBDA i : InterfaceLooks(s, i))

-----------------------------------------------------------------------------
(* Versions, components and outputs.                                        *)

Exterior(s) == ~\E r \in ToSet(s.regions) : r.kind = "bounded_air"

SourceProfileVersion(s) ==
    s.contract_version.tenths < 20 =>
        \A c \in ToSet(s.components) : c.kind = "ideal_velocity_source" =>
            c.motion_profile = None /\ ~c.motion_axis

ComponentSupport(s) ==
    \A c \in ToSet(s.components) :
        /\ c.kind # "passive_radiator"
        /\ Exterior(s) /\ c.kind = "electrodynamic_transducer" =>
               s.contract_version.tenths = 10 * COMPILED_SYSTEM_VERSION

Excited(q) ==
    {p.component_id : p \in {x \in ToSet(q.system.excitation_ports) :
                                x.id \in ToSet(q.excitation_port_ids)}}

Transducers(s) == {c \in ToSet(s.components) : c.kind = "electrodynamic_transducer"}

OptionLooks(q) ==
    LET o == q.options IN
    << Demand(o.voltage # None => o.voltage.type \in {"int", "float"}
                                  /\ o.voltage.tenths > 0),
       Demand(Exterior(q.system) /\ Transducers(q.system) # {} =>
                /\ ~(o.bem_backend = "metal" /\ o.precision = "float64")
                /\ o.symmetry \in {None, "off", "ground", "x", "xy"}) >>

OutputLooks(q, out) ==
    LET s == q.system IN
    CASE out.quantity = "radiation_impedance_matrix" ->
           << Demand(Exterior(s) /\ \A c \in ToSet(s.components) :
                        c.kind \in {"ideal_velocity_source", "electrodynamic_transducer"}),
              Demand(References(out.target_ids, Ids(s.components))),
              Look(ToSet(out.target_ids) \ Excited(q) \subseteq Ids(s.components),
                   \A t \in ToSet(out.target_ids) \ Excited(q) :
                      Named(s.components, t) \subseteq Transducers(s)) >>
      [] out.quantity = "radiation_impedance" /\ Exterior(s) ->
           << Demand(\A c \in ToSet(s.components) :
                        c.kind = "ideal_velocity_source" => c.id \in Excited(q)) >>
      [] OTHER -> <<>>

ImpedanceOutputLooks(q) ==
    OptionLooks(q) \o ForEach(q.outputs, LAMBDA out : OutputLooks(q, out))

-----------------------------------------------------------------------------
(* validate_compiled_system() and validate_solve_request(). A look that     *)
(* indexes by a field the schema has yet to find comes after the schema.    *)

SystemLooks(s) ==
    << Demand(SourceProfileVersion(s)) >> \o GraphLooks(s)
    \o << Demand(ComponentSupport(s)) >>

ValidateCompiledSystem(s) ==
    Verdict(<< Demand(FiniteJson(s.contract_version)), Demand(SystemSyntax(s)) >>
            \o SystemLooks(s))

ValidateSolveRequest(q) ==
    Verdict(<< Demand(FiniteJson(q.options.voltage)
                      /\ FiniteJson(q.system.contract_version)),
               Demand(RequestSyntax(q)) >>
            \o SystemLooks(q.system)
            \o << Demand(References(q.excitation_port_ids,
                                    Ids(q.system.excitation_ports))),
                  Demand(Unique(IdsOf(q.outputs))) >>
            \o ImpedanceOutputLooks(q))
=============================================================================
