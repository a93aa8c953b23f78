----------------------------- MODULE CachePort -----------------------------
(***************************************************************************)
(* What the database may assume of its cache, whichever adapter it is: a   *)
(* put may be followed by the loss of any one entry of a full cache, and a *)
(* get returns what was last put and not invalidated, or nothing.          *)
(*                                                                         *)
(* CacheCapacity = 0 is NoCache, which never stores anything; a positive   *)
(* capacity is LruCache, whose choice of victim (the entry with the least  *)
(* last_access_generation) is left open.                                   *)
(***************************************************************************)
EXTENDS WalStorage, FiniteSets

CONSTANT CacheCapacity  \* node_capacity and edge_capacity

ASSUME CacheAssumption == CacheCapacity \in Nat

Cache == [nodes : NodeMap, edges : EdgeMap]

EmptyCache == [nodes |-> NoNodes, edges |-> NoEdges]

Present(map) == {id \in DOMAIN map : map[id] # Absent}

\* The maps that may result from put(id, value) on `map`.
PutResults(map, id, value) ==
    IF CacheCapacity = 0 THEN {map}
    ELSE IF map[id] # Absent \/ Cardinality(Present(map)) < CacheCapacity
    THEN {[map EXCEPT ![id] = value]}
    ELSE {[map EXCEPT ![victim] = Absent, ![id] = value] : victim \in Present(map)}

PutNode(c, id, node) ==
    {[c EXCEPT !.nodes = m] : m \in PutResults(c.nodes, id, node)}

PutEdge(c, id, edge) ==
    {[c EXCEPT !.edges = m] : m \in PutResults(c.edges, id, edge)}

\* Mutant of InvalidateNode and InvalidateEdge: the entry stays.
KeepEntry(c, id) == c

InvalidateNode(c, id) == [c EXCEPT !.nodes[id] = Absent]
InvalidateEdge(c, id) == [c EXCEPT !.edges[id] = Absent]
=============================================================================
