------------------------------ MODULE LruCache ------------------------------
(***************************************************************************)
(* LruCache: two stores and one generation counter for both.  Every get    *)
(* and put takes a new generation, also a get that misses; the entry that  *)
(* it touches is stamped with it, and a put into a full store drops an     *)
(* entry with the least stamp.                                             *)
(*                                                                         *)
(* nodeUses and edgeUses are history variables: the ids in the store, from *)
(* the least to the most recently used.                                    *)
(***************************************************************************)
EXTENDS WalStorage, Sequences, FiniteSets

CONSTANTS
    NodeCapacity, EdgeCapacity,
    EdgesInUse,     \* the edges that are put into the cache
    MaxAccesses     \* bound on gets and puts

ASSUME LruAssumption ==
    /\ NodeCapacity \in Nat \ {0} /\ EdgeCapacity \in Nat \ {0}
    /\ EdgesInUse \subseteq EdgeData
    /\ Absent \notin [value : NodeData \cup EdgeData, gen : Nat]
    /\ MaxAccesses \in Nat

VARIABLES nodes, edges, generation, nodeUses, edgeUses

vars == <<nodes, edges, generation, nodeUses, edgeUses>>

\* A store maps every id to Absent or to an entry.
Entries(data) == [value : data, gen : Nat]
Entry(value, gen) == [value |-> value, gen |-> gen]

Cached(store) == {id \in DOMAIN store : store[id] # Absent}

\* Mutant of next_generation: the counter is returned before it is incremented.
same_generation == IF generation = 0 THEN 1 ELSE generation

next_generation == generation + 1

\* min_by_key; a HashMap has no order to break a tie by.
Oldest(store) ==
    {id \in Cached(store) : \A other \in Cached(store) : store[id].gen <= store[other].gen}

Forget(uses, id) ==
    IF \A i \in DOMAIN uses : uses[i] # id THEN uses
    ELSE LET at == CHOOSE i \in DOMAIN uses : uses[i] = id
         IN  [i \in 1 .. Len(uses) - 1 |-> IF i < at THEN uses[i] ELSE uses[i + 1]]
Touch(uses, id) == Append(Forget(uses, id), id)

Init ==
    /\ nodes = [id \in NodeIds |-> Absent]
    /\ edges = [id \in EdgeIds |-> Absent]
    /\ generation = 0
    /\ nodeUses = <<>>
    /\ edgeUses = <<>>

NewAccess ==
    /\ generation < MaxAccesses
    /\ generation' = next_generation

\* Mutant of Stamp: a get that hits leaves the stamp of the entry.
StampPutOnly(store, id) == store

Stamp(store, id) == [store EXCEPT ![id] = Entry(@.value, next_generation)]

GetNode(id) ==
    /\ NewAccess
    /\ IF nodes[id] # Absent
       THEN /\ nodes' = Stamp(nodes, id)
            /\ nodeUses' = Touch(nodeUses, id)
       ELSE UNCHANGED <<nodes, nodeUses>>
    /\ UNCHANGED <<edges, edgeUses>>

GetEdge(id) ==
    /\ NewAccess
    /\ IF edges[id] # Absent
       THEN /\ edges' = Stamp(edges, id)
            /\ edgeUses' = Touch(edgeUses, id)
       ELSE UNCHANGED <<edges, edgeUses>>
    /\ UNCHANGED <<nodes, nodeUses>>

HasRoom(store, capacity) == Cardinality(Cached(store)) < capacity

\* An id that is in the store, or for which there is room.
PutNode(id, node) ==
    /\ NewAccess
    /\ nodes[id] # Absent \/ HasRoom(nodes, NodeCapacity)
    /\ nodes' = [nodes EXCEPT ![id] = Entry(node, next_generation)]
    /\ nodeUses' = Touch(nodeUses, id)
    /\ UNCHANGED <<edges, edgeUses>>

\* evict_oldest_node(), then the insertion.
PutNodeEvicts(id, node) ==
    /\ NewAccess
    /\ nodes[id] = Absent /\ ~HasRoom(nodes, NodeCapacity)
    /\ \E victim \in Oldest(nodes) :
          /\ nodes' = [nodes EXCEPT ![victim] = Absent, ![id] = Entry(node, next_generation)]
          /\ nodeUses' = Touch(Forget(nodeUses, victim), id)
    /\ UNCHANGED <<edges, edgeUses>>

PutEdge(id, edge) ==
    /\ NewAccess
    /\ edges[id] # Absent \/ HasRoom(edges, EdgeCapacity)
    /\ edges' = [edges EXCEPT ![id] = Entry(edge, next_generation)]
    /\ edgeUses' = Touch(edgeUses, id)
    /\ UNCHANGED <<nodes, nodeUses>>

PutEdgeEvicts(id, edge) ==
    /\ NewAccess
    /\ edges[id] = Absent /\ ~HasRoom(edges, EdgeCapacity)
    /\ \E victim \in Oldest(edges) :
          /\ edges' = [edges EXCEPT ![victim] = Absent, ![id] = Entry(edge, next_generation)]
          /\ edgeUses' = Touch(Forget(edgeUses, victim), id)
    /\ UNCHANGED <<nodes, nodeUses>>

InvalidateNode(id) ==
    /\ nodes' = [nodes EXCEPT ![id] = Absent]
    /\ nodeUses' = Forget(nodeUses, id)
    /\ UNCHANGED <<edges, edgeUses, generation>>

InvalidateEdge(id) ==
    /\ edges' = [edges EXCEPT ![id] = Absent]
    /\ edgeUses' = Forget(edgeUses, id)
    /\ UNCHANGED <<nodes, nodeUses, generation>>

\* Mutant of Clear: the edges stay.
ClearNodes ==
    /\ nodes' = [id \in NodeIds |-> Absent]
    /\ nodeUses' = <<>>
    /\ UNCHANGED <<generation, edges, edgeUses>>

\* The counter goes on after a clear().
Clear ==
    /\ nodes' = [id \in NodeIds |-> Absent]
    /\ edges' = [id \in EdgeIds |-> Absent]
    /\ nodeUses' = <<>>
    /\ edgeUses' = <<>>
    /\ UNCHANGED generation

NodeStep(id) ==
    \/ GetNode(id) \/ InvalidateNode(id)
    \/ \E node \in NodeData : PutNode(id, node) \/ PutNodeEvicts(id, node)

EdgeStep(id) ==
    \/ GetEdge(id) \/ InvalidateEdge(id)
    \/ \E edge \in EdgesInUse : PutEdge(id, edge) \/ PutEdgeEvicts(id, edge)

Next == \/ \E id \in NodeIds : NodeStep(id)
        \/ \E id \in EdgeIds : EdgeStep(id)
        \/ Clear

Spec == Init /\ [][Next]_vars

-----------------------------------------------------------------------------
TypeOK ==
    /\ nodes \in [NodeIds -> Entries(NodeData) \cup {Absent}]
    /\ edges \in [EdgeIds -> Entries(EdgeData) \cup {Absent}]
    /\ generation \in Nat
    /\ nodeUses \in Seq(NodeIds)
    /\ edgeUses \in Seq(EdgeIds)

\* Neither store ever holds more than its capacity.
WithinCapacity ==
    /\ Cardinality(Cached(nodes)) <= NodeCapacity
    /\ Cardinality(Cached(edges)) <= EdgeCapacity

\* No stamp is given twice, across both stores, and none is ahead of the
\* counter: the victim of an eviction is never a matter of HashMap order.
StampsDistinct ==
    /\ \A id \in Cached(nodes) : nodes[id].gen <= generation
    /\ \A id \in Cached(edges) : edges[id].gen <= generation
    /\ \A i, j \in Cached(nodes) : nodes[i].gen = nodes[j].gen => i = j
    /\ \A i, j \in Cached(edges) : edges[i].gen = edges[j].gen => i = j
    /\ \A i \in Cached(nodes), j \in Cached(edges) : nodes[i].gen # edges[j].gen

\* What leaves a store to make room is what was used least recently, by a get
\* that hit or a put, in this store.
EvictsLeastRecentlyUsed ==
    [][/\ \A id \in NodeIds, node \in NodeData :
             PutNodeEvicts(id, node) => nodes'[Head(nodeUses)] = Absent
       /\ \A id \in EdgeIds, edge \in EdgesInUse :
             PutEdgeEvicts(id, edge) => edges'[Head(edgeUses)] = Absent]_vars

\* LruCache is a cache as LayeredDb assumes it.
Values(store) == [id \in DOMAIN store |-> IF store[id] = Absent THEN Absent
                                                                ELSE store[id].value]
Port == INSTANCE CacheSpec WITH cache <- [nodes |-> Values(nodes), edges |-> Values(edges)]
ImplementsPort == Port!Spec
=============================================================================
