------------------------ MODULE AdjacencyListEngine ------------------------
(***************************************************************************)
(* The in-memory graph structure: the two adjacency maps and the endpoint  *)
(* table of AdjacencyListEngine, and its operations as functions of them.  *)
(*                                                                         *)
(*   outKeys, inKeys   keys of the maps `outgoing` and `incoming`          *)
(*   out, in           their Neighbor entries, as <<owner, edge, other>>   *)
(*   ends              edge_endpoints; Absent for an id that is not a key  *)
(*                                                                         *)
(* The Vec of a key becomes a set: the order and the multiplicity of equal *)
(* entries, and the weight they carry, are not examined here.  The three   *)
(* maps are kept apart, as in the code, because nothing but the calls that *)
(* are made keeps them in agreement.                                       *)
(***************************************************************************)
EXTENDS WalStorage

Arc == NodeIds \X EdgeIds \X NodeIds

Engine == [outKeys : SUBSET NodeIds, inKeys : SUBSET NodeIds,
           out : SUBSET Arc, in : SUBSET Arc, ends : EdgeMap]

EmptyEngine ==
    [outKeys |-> {}, inKeys |-> {}, out |-> {}, in |-> {}, ends |-> NoEdges]

ContainsNode(g, id) == id \in g.outKeys

EngineInsertNode(g, id) ==
    [g EXCEPT !.outKeys = @ \cup {id}, !.inKeys = @ \cup {id}]

\* entry().or_default() makes a key of an endpoint nobody has inserted; a
\* second insertion of an edge id overwrites its endpoints and keeps its arcs.
EngineInsertEdge(g, id, edge) ==
    [g EXCEPT !.outKeys = @ \cup {edge.src},
              !.inKeys  = @ \cup {edge.tgt},
              !.out     = @ \cup {<<edge.src, id, edge.tgt>>},
              !.in      = @ \cup {<<edge.tgt, id, edge.src>>},
              !.ends[id] = edge]

\* Mutant of EngineRemoveEdge: the list of the target keeps the edge.
RemoveOutgoing(g, id) ==
    IF g.ends[id] = Absent THEN g
    ELSE [g EXCEPT !.out = {a \in @ : ~(a[1] = g.ends[id].src /\ a[2] = id)},
                   !.ends[id] = Absent]

\* Only the lists of the recorded endpoints are searched.
EngineRemoveEdge(g, id) ==
    IF g.ends[id] = Absent THEN g
    ELSE [g EXCEPT
            !.out = {a \in @ : ~(a[1] = g.ends[id].src /\ a[2] = id)},
            !.in  = {a \in @ : ~(a[1] = g.ends[id].tgt /\ a[2] = id)},
            !.ends[id] = Absent]

Touches(edge, id) == edge # Absent /\ id \in {edge.src, edge.tgt}

\* Mutant of EngineRemoveNode: the lists of the neighbours keep its edges.
RemoveOwnLists(g, id) ==
    [outKeys |-> g.outKeys \ {id},
     inKeys  |-> g.inKeys \ {id},
     out     |-> {a \in g.out : a[1] # id},
     in      |-> {a \in g.in : a[1] # id},
     ends    |-> [e \in EdgeIds |-> IF Touches(g.ends[e], id) THEN Absent ELSE g.ends[e]]]

\* remove_edge for every edge that touches the node, then its two keys.
EngineRemoveNode(g, id) ==
    LET gone == {e \in EdgeIds : Touches(g.ends[e], id)}
    IN [outKeys |-> g.outKeys \ {id},
        inKeys  |-> g.inKeys \ {id},
        out     |-> {a \in g.out : a[1] # id
                        /\ ~(a[2] \in gone /\ a[1] = g.ends[a[2]].src)},
        in      |-> {a \in g.in : a[1] # id
                        /\ ~(a[2] \in gone /\ a[1] = g.ends[a[2]].tgt)},
        ends    |-> [e \in EdgeIds |-> IF e \in gone THEN Absent ELSE g.ends[e]]]

NeighborsOutgoing(g, id) == {a \in g.out : a[1] = id}
NeighborsIncoming(g, id) == {a \in g.in : a[1] = id}

\* delete_node's `incident`: the edge ids on the two lists of the node.
IncidentEdges(g, id) ==
    {a[2] : a \in NeighborsOutgoing(g, id) \cup NeighborsIncoming(g, id)}

\* The structure open_with_config builds from the live nodes and edges.
EngineOf(d) ==
    LET ends == {d.edges[e] : e \in LiveEdges(d)} IN
    [outKeys |-> LiveNodes(d) \cup {x.src : x \in ends},
     inKeys  |-> LiveNodes(d) \cup {x.tgt : x \in ends},
     out     |-> {<<d.edges[e].src, e, d.edges[e].tgt>> : e \in LiveEdges(d)},
     in      |-> {<<d.edges[e].tgt, e, d.edges[e].src>> : e \in LiveEdges(d)},
     ends    |-> d.edges]
=============================================================================
