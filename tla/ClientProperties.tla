-------------------------- MODULE ClientProperties --------------------------
(***************************************************************************)
(* What a caller of EngineWorker.submit() can rely on.                     *)
(***************************************************************************)
EXTENDS EngineWorker

-----------------------------------------------------------------------------
(* The results. *)

\* A caller is handed a result only if the worker computed what the request
\* said when it was submitted: its phasor convention, its motion profiles and
\* its wall losses; and, of a worker with a protocol, only in the representation
\* that was selected. An older worker that reads past an option, a request file
\* that is written again meanwhile, and a worker that terminate() puts in the
\* place of the first, whose announcement and convention an old reader then
\* meets, do not change that.
HandedAsAsked ==
    \A j \in Jobs : \A e \in handed[j] :
        /\ e.job = j /\ e.computed = Meaning(asked[j])
        /\ Announces(child[j]).protocol # None =>
              IF Operation(j) = "solve" THEN e.schema_version = SYSTEM_RESULT_VERSION
              ELSE e.binary

\* A reader is told of a mismatch only when its own worker's event was wrong:
\* one that terminate() interrupted hears that, and not what the next
\* worker's convention made of its last event.
BlameIsRight ==
    \A j \in Jobs : pc[j] = "mismatch" =>
        \/ IsResult(line[j]) /\ Or(line[j].phasor_convention, "negative") # Convention(asked[j])
        \/ ~ValidateWorkerEvent(line[j])

-----------------------------------------------------------------------------
(* The command. *)

\* Compatibility is settled before the command goes out: a worker refuses a
\* command, or the request it names, only if the request file was written
\* again after the submission.
RefusedBeforehand ==
    \A p \in Children : \A i \in DOMAIN out[p] :
        LET e == out[p][i] IN
        e.type = "failed" /\ e.computed = {"contract"} => file[e.job] # asked[e.job]

\* A request that cannot be accepted is refused in so many words, never by a
\* lookup that finds nothing.
RefusedInWords == \A j \in Jobs : pc[j] # "KeyError"

One(items, id) == Cardinality({i \in DOMAIN items : items[i].id = id}) = 1

\* Every way from an excitation port leads down to a mesh.
Drives(s, id) ==
    /\ One(s.excitation_ports, id)
    /\ \A port \in Named(s.excitation_ports, id) :
        /\ One(s.components, port.component_id)
        /\ \A c \in Named(s.components, port.component_id) :
            /\ c.boundary_ids # <<>>
            /\ \A b \in ToSet(c.boundary_ids) :
                /\ One(s.boundaries, b)
                /\ \A wall \in Named(s.boundaries, b) :
                    /\ One(s.regions, wall.region_id)
                    /\ One(s.meshes, wall.group.mesh_id)
                    /\ \A r \in Named(s.regions, wall.region_id) :
                        wall.group.mesh_id \in ToSet(r.mesh_ids)

\* The request of a command that went out drives something: each excited port
\* has a component, its boundaries, their region and a mesh of it, one of
\* each, and no wall of it both moves and loses heat. Its system is accepted
\* by itself too.
CommandsAreGrounded ==
    \A p \in Children : command[p] # None /\ command[p].operation = "solve"
                        /\ asked[command[p].job].system # None =>
        LET q == asked[command[p].job]
            s == q.system
        IN  /\ \A id \in ToSet(q.excitation_port_ids) : Drives(s, id)
            /\ \A c \in ToSet(s.components), b \in ToSet(s.boundaries) :
                  b.id \in ToSet(c.boundary_ids) => ~LossyWall(b)
            /\ ValidateCompiledSystem(s) = "ok"

\* The mesh that goes out with a command can be read: every vertex of every
\* element lies within the bytes of the coordinates, and every element has a
\* tag that names a group of its dimension.
MeshesAreReadable ==
    \A p \in Children : command[p] # None /\ command[p].operation = "solve"
                        /\ asked[command[p].job].system # None =>
        \A mesh \in ToSet(asked[command[p].job].system.meshes) : mesh.mesh_data # None =>
            \A block \in ToSet(mesh.mesh_data.cells) :
                \A i \in 1..block.connectivity.rows :
                    /\ \A v \in ToSet(block.elements[i]) :
                          v >= 0 /\ 24 * (v + 1) <= mesh.mesh_data.points.bytes
                    /\ i \in DOMAIN block.tags
                    /\ \E g \in mesh.mesh_data.physical_names : g[1] = block.tags[i]
=============================================================================
