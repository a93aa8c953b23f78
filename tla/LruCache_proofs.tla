--------------------------- MODULE LruCache_proofs ---------------------------
(***************************************************************************)
(* Theorems about the cache, for every capacity and any number of          *)
(* accesses.                                                               *)
(***************************************************************************)
EXTENDS LruCache, FiniteSetTheorems, TLAPS

-----------------------------------------------------------------------------
(* A store of either kind.                                                 *)

Stores(Ids, Data) == [Ids -> Entries(Data) \cup {Absent}]

StoresTyped ==
    /\ nodes \in Stores(NodeIds, NodeData)
    /\ edges \in Stores(EdgeIds, EdgeData)
    /\ generation \in Nat

LEMMA EntriesPresent ==
    /\ \A e \in Entries(NodeData) : e # Absent
    /\ \A e \in Entries(EdgeData) : e # Absent
BY LruAssumption DEF Entries

LEMMA FiniteStores ==
    /\ \A store \in Stores(NodeIds, NodeData) : IsFiniteSet(Cached(store))
    /\ \A store \in Stores(EdgeIds, EdgeData) : IsFiniteSet(Cached(store))
<1>1. IsFiniteSet(NodeIds) /\ IsFiniteSet(EdgeIds)
  BY FS_Interval, StorageAssumption DEF NodeIds, EdgeIds
<1>2. \A store \in Stores(NodeIds, NodeData) : Cached(store) \in SUBSET NodeIds
  BY DEF Stores, Cached
<1>3. \A store \in Stores(EdgeIds, EdgeData) : Cached(store) \in SUBSET EdgeIds
  BY DEF Stores, Cached
<1> QED
  BY <1>1, <1>2, <1>3, FS_Subset

\* What the three kinds of update make of a store.
LEMMA Storing ==
    ASSUME NEW Ids, NEW Data, NEW store \in Stores(Ids, Data), NEW id \in Ids,
           NEW e \in Entries(Data), e # Absent
    PROVE  /\ [store EXCEPT ![id] = e] \in Stores(Ids, Data)
           /\ Cached([store EXCEPT ![id] = e]) = Cached(store) \cup {id}
BY DEF Stores, Cached

LEMMA Dropping ==
    ASSUME NEW Ids, NEW Data, NEW store \in Stores(Ids, Data), NEW id \in Ids
    PROVE  /\ [store EXCEPT ![id] = Absent] \in Stores(Ids, Data)
           /\ Cached([store EXCEPT ![id] = Absent]) = Cached(store) \ {id}
BY DEF Stores, Cached

LEMMA Replacing ==
    ASSUME NEW Ids, NEW Data, NEW store \in Stores(Ids, Data), NEW id \in Ids, NEW victim \in Ids,
           NEW e \in Entries(Data), e # Absent
    PROVE  /\ [store EXCEPT ![victim] = Absent, ![id] = e] \in Stores(Ids, Data)
           /\ Cached([store EXCEPT ![victim] = Absent, ![id] = e])
                 = (Cached(store) \ {victim}) \cup {id}
BY DEF Stores, Cached

\* The store after a step: it holds nothing new, or one entry with a new stamp.
Fits(old, new, capacity) ==
    Cardinality(Cached(old)) <= capacity => Cardinality(Cached(new)) <= capacity

Keeps(old, new) ==
    \A i \in Cached(new) : i \in Cached(old) /\ new[i].gen = old[i].gen

Renews(old, new, id) ==
    \A i \in Cached(new) : IF i = id THEN new[i].gen = generation + 1
                           ELSE i \in Cached(old) /\ new[i].gen = old[i].gen

\* What the updates do to the number of entries.
LEMMA CountWith ==
    ASSUME NEW S, IsFiniteSet(S), NEW x, NEW capacity \in Nat, Cardinality(S) <= capacity,
           x \in S \/ Cardinality(S) < capacity
    PROVE  Cardinality(S \cup {x}) <= capacity
<1>1. CASE x \in S
  <2>1. S \cup {x} = S
    BY <1>1
  <2> QED
    BY <2>1
<1>2. CASE x \notin S
  <2>1. Cardinality(S) \in Nat
    BY FS_CardinalityType
  <2>2. Cardinality(S \cup {x}) = Cardinality(S) + 1
    BY <1>2, FS_AddElement
  <2>3. Cardinality(S) < capacity
    BY <1>2
  <2> DEFINE n == Cardinality(S)
  <2>4. n \in Nat /\ n < capacity => n + 1 <= capacity
    OBVIOUS
  <2> QED
    BY <2>1, <2>2, <2>3, <2>4
<1> QED
  BY <1>1, <1>2

LEMMA CountWithout ==
    ASSUME NEW S, IsFiniteSet(S), NEW x, NEW capacity \in Nat, Cardinality(S) <= capacity
    PROVE  /\ IsFiniteSet(S \ {x})
           /\ Cardinality(S \ {x}) <= capacity
           /\ x \in S => Cardinality(S \ {x}) < capacity
<1>1. Cardinality(S) \in Nat /\ IsFiniteSet(S \ {x})
  BY FS_CardinalityType, FS_RemoveElement
<1>2. CASE x \notin S
  <2>1. S \ {x} = S
    BY <1>2
  <2> QED
    BY <1>1, <1>2, <2>1
<1>3. CASE x \in S
  <2>1. Cardinality(S \ {x}) = Cardinality(S) - 1
    BY <1>3, FS_RemoveElement
  <2> QED
    BY <1>1, <2>1
<1> QED
  BY <1>2, <1>3

LEMMA StoringFits ==
    ASSUME NEW Ids, NEW Data, NEW store \in Stores(Ids, Data), NEW id \in Ids,
           NEW e \in Entries(Data), e # Absent, IsFiniteSet(Cached(store)),
           NEW capacity \in Nat, store[id] # Absent \/ HasRoom(store, capacity)
    PROVE  Fits(store, [store EXCEPT ![id] = e], capacity)
<1>1. Cached([store EXCEPT ![id] = e]) = Cached(store) \cup {id}
  BY Storing
<1>2. id \in Cached(store) \/ Cardinality(Cached(store)) < capacity
  BY DEF Stores, Cached, HasRoom
<1> QED
  BY <1>1, <1>2, CountWith DEF Fits

LEMMA DroppingFits ==
    ASSUME NEW Ids, NEW Data, NEW store \in Stores(Ids, Data), NEW id \in Ids,
           IsFiniteSet(Cached(store)), NEW capacity \in Nat
    PROVE  Fits(store, [store EXCEPT ![id] = Absent], capacity)
<1>1. Cached([store EXCEPT ![id] = Absent]) = Cached(store) \ {id}
  BY Dropping
<1> QED
  BY <1>1, CountWithout DEF Fits

LEMMA ReplacingFits ==
    ASSUME NEW Ids, NEW Data, NEW store \in Stores(Ids, Data), NEW id \in Ids,
           NEW victim \in Cached(store), NEW e \in Entries(Data), e # Absent,
           IsFiniteSet(Cached(store)), NEW capacity \in Nat
    PROVE  Fits(store, [store EXCEPT ![victim] = Absent, ![id] = e], capacity)
<1>1. victim \in Ids
  BY DEF Stores, Cached
<1>2. Cached([store EXCEPT ![victim] = Absent, ![id] = e]) = (Cached(store) \ {victim}) \cup {id}
  BY <1>1, Replacing
<1>3. SUFFICES ASSUME Cardinality(Cached(store)) <= capacity
               PROVE  Cardinality((Cached(store) \ {victim}) \cup {id}) <= capacity
  BY <1>2 DEF Fits
<1>4. /\ IsFiniteSet(Cached(store) \ {victim})
      /\ Cardinality(Cached(store) \ {victim}) <= capacity
      /\ Cardinality(Cached(store) \ {victim}) < capacity
  BY <1>3, CountWithout
<1> QED
  BY <1>4, CountWith

-----------------------------------------------------------------------------
(* What every operation does to each of the stores.                        *)

Counted ==
    /\ Cardinality(Cached(nodes)) <= NodeCapacity
    /\ Cardinality(Cached(edges)) <= EdgeCapacity

\* One store is updated at id, or loses entries; the other stays.
NodesChange ==
    /\ edges' = edges
    /\ nodes' \in Stores(NodeIds, NodeData)
    /\ Fits(nodes, nodes', NodeCapacity)
    /\ \/ Keeps(nodes, nodes') /\ generation' \in {generation, generation + 1}
       \/ generation' = generation + 1 /\ \E id \in NodeIds : Renews(nodes, nodes', id)

EdgesChange ==
    /\ nodes' = nodes
    /\ edges' \in Stores(EdgeIds, EdgeData)
    /\ Fits(edges, edges', EdgeCapacity)
    /\ \/ Keeps(edges, edges') /\ generation' \in {generation, generation + 1}
       \/ generation' = generation + 1 /\ \E id \in EdgeIds : Renews(edges, edges', id)

LEMMA NewEntries ==
    ASSUME StoresTyped
    PROVE  /\ \A node \in NodeData : Entry(node, generation + 1) \in Entries(NodeData)
           /\ \A edge \in EdgeData : Entry(edge, generation + 1) \in Entries(EdgeData)
BY DEF StoresTyped, Entry, Entries

\* An entry with a new stamp is put under id.
LEMMA StoringRenews ==
    ASSUME NEW Ids, NEW Data, NEW store \in Stores(Ids, Data), NEW id \in Ids, NEW value \in Data,
           generation \in Nat, \A e \in Entries(Data) : e # Absent
    PROVE  Renews(store, [store EXCEPT ![id] = Entry(value, generation + 1)], id)
BY DEF Stores, Cached, Entry, Entries, Renews

LEMMA ReplacingRenews ==
    ASSUME NEW Ids, NEW Data, NEW store \in Stores(Ids, Data), NEW id \in Ids, NEW victim \in Ids,
           NEW value \in Data,
           generation \in Nat, \A e \in Entries(Data) : e # Absent
    PROVE  Renews(store,
                  [store EXCEPT ![victim] = Absent, ![id] = Entry(value, generation + 1)], id)
BY DEF Stores, Cached, Entry, Entries, Renews

LEMMA DroppingKeeps ==
    ASSUME NEW Ids, NEW Data, NEW store \in Stores(Ids, Data), NEW id \in Ids
    PROVE  Keeps(store, [store EXCEPT ![id] = Absent])
BY DEF Stores, Cached, Keeps

LEMMA GetNodeChanges ==
    ASSUME StoresTyped, NEW id \in NodeIds, GetNode(id)
    PROVE  NodesChange
<1>1. /\ nodes \in Stores(NodeIds, NodeData) /\ generation \in Nat
      /\ generation' = generation + 1 /\ edges' = edges
  BY DEF StoresTyped, GetNode, NewAccess, next_generation
<1>2. CASE nodes[id] # Absent
  <2>1. nodes[id].value \in NodeData
    BY <1>1, <1>2 DEF Stores, Entries
  <2>2. nodes' = [nodes EXCEPT ![id] = Entry(nodes[id].value, generation + 1)]
    BY <1>2 DEF GetNode, Stamp, next_generation
  <2> DEFINE e == Entry(nodes[id].value, generation + 1)
  <2>3. e \in Entries(NodeData) /\ e # Absent
    BY <2>1, NewEntries, EntriesPresent
  <2>4. nodes' \in Stores(NodeIds, NodeData)
    BY <1>1, <2>2, <2>3, Storing
  <2>5. Fits(nodes, nodes', NodeCapacity)
    BY <1>1, <1>2, <2>2, <2>3, StoringFits, FiniteStores, LruAssumption
  <2>6. Renews(nodes, nodes', id)
    BY <1>1, <2>1, <2>2, StoringRenews, EntriesPresent
  <2> QED
    BY <1>1, <2>4, <2>5, <2>6 DEF NodesChange
<1>3. CASE nodes[id] = Absent
  <2>1. nodes' = nodes
    BY <1>3 DEF GetNode
  <2>2. Fits(nodes, nodes', NodeCapacity) /\ Keeps(nodes, nodes')
    BY <2>1 DEF Fits, Keeps
  <2> QED
    BY <1>1, <2>1, <2>2 DEF NodesChange
<1> QED
  BY <1>2, <1>3

LEMMA PutNodeChanges ==
    ASSUME StoresTyped, NEW id \in NodeIds, NEW node \in NodeData, PutNode(id, node)
    PROVE  NodesChange
<1>1. /\ nodes \in Stores(NodeIds, NodeData) /\ generation \in Nat
      /\ generation' = generation + 1 /\ edges' = edges
      /\ nodes[id] # Absent \/ HasRoom(nodes, NodeCapacity)
      /\ nodes' = [nodes EXCEPT ![id] = Entry(node, generation + 1)]
  BY DEF StoresTyped, PutNode, NewAccess, next_generation
<1> DEFINE e == Entry(node, generation + 1)
<1>2. e \in Entries(NodeData) /\ e # Absent
  BY NewEntries, EntriesPresent
<1>3. nodes' \in Stores(NodeIds, NodeData)
  BY <1>1, <1>2, Storing
<1>4. Fits(nodes, nodes', NodeCapacity)
  BY <1>1, <1>2, StoringFits, FiniteStores, LruAssumption
<1>5. Renews(nodes, nodes', id)
  BY <1>1, StoringRenews, EntriesPresent
<1> QED
  BY <1>1, <1>3, <1>4, <1>5 DEF NodesChange

LEMMA PutNodeEvictsChanges ==
    ASSUME StoresTyped, NEW id \in NodeIds, NEW node \in NodeData, PutNodeEvicts(id, node)
    PROVE  NodesChange
<1>1. /\ nodes \in Stores(NodeIds, NodeData) /\ generation \in Nat
      /\ generation' = generation + 1 /\ edges' = edges
  BY DEF StoresTyped, PutNodeEvicts, NewAccess, next_generation
<1>2. PICK victim \in Cached(nodes) :
         nodes' = [nodes EXCEPT ![victim] = Absent, ![id] = Entry(node, generation + 1)]
  BY DEF PutNodeEvicts, Oldest, next_generation
<1>3. victim \in NodeIds
  BY <1>1 DEF Stores, Cached
<1> DEFINE e == Entry(node, generation + 1)
<1>4. e \in Entries(NodeData) /\ e # Absent
  BY NewEntries, EntriesPresent
<1>5. nodes' \in Stores(NodeIds, NodeData)
  BY <1>1, <1>2, <1>3, <1>4, Replacing
<1>6. Fits(nodes, nodes', NodeCapacity)
  BY <1>1, <1>2, <1>4, ReplacingFits, FiniteStores, LruAssumption
<1>7. Renews(nodes, nodes', id)
  BY <1>1, <1>2, <1>3, ReplacingRenews, EntriesPresent
<1> QED
  BY <1>1, <1>5, <1>6, <1>7 DEF NodesChange

LEMMA InvalidateNodeChanges ==
    ASSUME StoresTyped, NEW id \in NodeIds, InvalidateNode(id)
    PROVE  NodesChange
<1>1. /\ nodes \in Stores(NodeIds, NodeData)
      /\ generation' = generation /\ edges' = edges
      /\ nodes' = [nodes EXCEPT ![id] = Absent]
  BY DEF StoresTyped, InvalidateNode
<1>2. nodes' \in Stores(NodeIds, NodeData)
  BY <1>1, Dropping
<1>3. Fits(nodes, nodes', NodeCapacity)
  BY <1>1, DroppingFits, FiniteStores, LruAssumption
<1>4. Keeps(nodes, nodes')
  BY <1>1, DroppingKeeps
<1> QED
  BY <1>1, <1>2, <1>3, <1>4 DEF NodesChange

LEMMA GetEdgeChanges ==
    ASSUME StoresTyped, NEW id \in EdgeIds, GetEdge(id)
    PROVE  EdgesChange
<1>1. /\ edges \in Stores(EdgeIds, EdgeData) /\ generation \in Nat
      /\ generation' = generation + 1 /\ nodes' = nodes
  BY DEF StoresTyped, GetEdge, NewAccess, next_generation
<1>2. CASE edges[id] # Absent
  <2>1. edges[id].value \in EdgeData
    BY <1>1, <1>2 DEF Stores, Entries
  <2>2. edges' = [edges EXCEPT ![id] = Entry(edges[id].value, generation + 1)]
    BY <1>2 DEF GetEdge, Stamp, next_generation
  <2> DEFINE e == Entry(edges[id].value, generation + 1)
  <2>3. e \in Entries(EdgeData) /\ e # Absent
    BY <2>1, NewEntries, EntriesPresent
  <2>4. edges' \in Stores(EdgeIds, EdgeData)
    BY <1>1, <2>2, <2>3, Storing
  <2>5. Fits(edges, edges', EdgeCapacity)
    BY <1>1, <1>2, <2>2, <2>3, StoringFits, FiniteStores, LruAssumption
  <2>6. Renews(edges, edges', id)
    BY <1>1, <2>1, <2>2, StoringRenews, EntriesPresent
  <2> QED
    BY <1>1, <2>4, <2>5, <2>6 DEF EdgesChange
<1>3. CASE edges[id] = Absent
  <2>1. edges' = edges
    BY <1>3 DEF GetEdge
  <2>2. Fits(edges, edges', EdgeCapacity) /\ Keeps(edges, edges')
    BY <2>1 DEF Fits, Keeps
  <2> QED
    BY <1>1, <2>1, <2>2 DEF EdgesChange
<1> QED
  BY <1>2, <1>3

LEMMA PutEdgeChanges ==
    ASSUME StoresTyped, NEW id \in EdgeIds, NEW edge \in EdgeData, PutEdge(id, edge)
    PROVE  EdgesChange
<1>1. /\ edges \in Stores(EdgeIds, EdgeData) /\ generation \in Nat
      /\ generation' = generation + 1 /\ nodes' = nodes
      /\ edges[id] # Absent \/ HasRoom(edges, EdgeCapacity)
      /\ edges' = [edges EXCEPT ![id] = Entry(edge, generation + 1)]
  BY DEF StoresTyped, PutEdge, NewAccess, next_generation
<1> DEFINE e == Entry(edge, generation + 1)
<1>2. e \in Entries(EdgeData) /\ e # Absent
  BY NewEntries, EntriesPresent
<1>3. edges' \in Stores(EdgeIds, EdgeData)
  BY <1>1, <1>2, Storing
<1>4. Fits(edges, edges', EdgeCapacity)
  BY <1>1, <1>2, StoringFits, FiniteStores, LruAssumption
<1>5. Renews(edges, edges', id)
  BY <1>1, StoringRenews, EntriesPresent
<1> QED
  BY <1>1, <1>3, <1>4, <1>5 DEF EdgesChange

LEMMA PutEdgeEvictsChanges ==
    ASSUME StoresTyped, NEW id \in EdgeIds, NEW edge \in EdgeData, PutEdgeEvicts(id, edge)
    PROVE  EdgesChange
<1>1. /\ edges \in Stores(EdgeIds, EdgeData) /\ generation \in Nat
      /\ generation' = generation + 1 /\ nodes' = nodes
  BY DEF StoresTyped, PutEdgeEvicts, NewAccess, next_generation
<1>2. PICK victim \in Cached(edges) :
         edges' = [edges EXCEPT ![victim] = Absent, ![id] = Entry(edge, generation + 1)]
  BY DEF PutEdgeEvicts, Oldest, next_generation
<1>3. victim \in EdgeIds
  BY <1>1 DEF Stores, Cached
<1> DEFINE e == Entry(edge, generation + 1)
<1>4. e \in Entries(EdgeData) /\ e # Absent
  BY NewEntries, EntriesPresent
<1>5. edges' \in Stores(EdgeIds, EdgeData)
  BY <1>1, <1>2, <1>3, <1>4, Replacing
<1>6. Fits(edges, edges', EdgeCapacity)
  BY <1>1, <1>2, <1>4, ReplacingFits, FiniteStores, LruAssumption
<1>7. Renews(edges, edges', id)
  BY <1>1, <1>2, <1>3, ReplacingRenews, EntriesPresent
<1> QED
  BY <1>1, <1>5, <1>6, <1>7 DEF EdgesChange

LEMMA InvalidateEdgeChanges ==
    ASSUME StoresTyped, NEW id \in EdgeIds, InvalidateEdge(id)
    PROVE  EdgesChange
<1>1. /\ edges \in Stores(EdgeIds, EdgeData)
      /\ generation' = generation /\ nodes' = nodes
      /\ edges' = [edges EXCEPT ![id] = Absent]
  BY DEF StoresTyped, InvalidateEdge
<1>2. edges' \in Stores(EdgeIds, EdgeData)
  BY <1>1, Dropping
<1>3. Fits(edges, edges', EdgeCapacity)
  BY <1>1, DroppingFits, FiniteStores, LruAssumption
<1>4. Keeps(edges, edges')
  BY <1>1, DroppingKeeps
<1> QED
  BY <1>1, <1>2, <1>3, <1>4 DEF EdgesChange

\* Clear leaves nothing in either store.
LEMMA ClearEmpties ==
    ASSUME Clear
    PROVE  /\ nodes' \in Stores(NodeIds, NodeData) /\ Cached(nodes') = {}
           /\ edges' \in Stores(EdgeIds, EdgeData) /\ Cached(edges') = {}
           /\ generation' = generation
BY DEF Clear, Stores, Cached

\* Every step changes one of the stores, or empties both, or neither.
LEMMA StepsOfTheCache ==
    ASSUME StoresTyped, Next
    PROVE  NodesChange \/ EdgesChange \/ Clear
<1>1. ASSUME NEW id \in NodeIds, NodeStep(id)
      PROVE  NodesChange
  BY <1>1, GetNodeChanges, PutNodeChanges, PutNodeEvictsChanges, InvalidateNodeChanges
     DEF NodeStep
<1>2. ASSUME NEW id \in EdgeIds, EdgeStep(id)
      PROVE  EdgesChange
  <2>1. EdgesInUse \subseteq EdgeData
    BY LruAssumption
  <2> QED
    BY <1>2, <2>1, GetEdgeChanges, PutEdgeChanges, PutEdgeEvictsChanges, InvalidateEdgeChanges
       DEF EdgeStep
<1> QED
  BY <1>1, <1>2 DEF Next

-----------------------------------------------------------------------------
(* The invariant.                                                          *)

CacheInv == StoresTyped /\ Counted /\ StampsDistinct

\* At the start both stores are empty.
LEMMA InitCacheInv == Init => CacheInv
<1> SUFFICES ASSUME Init
             PROVE  CacheInv
  OBVIOUS
<1>1. Cached(nodes) = {} /\ Cached(edges) = {}
  BY DEF Init, Cached
<1>2. StoresTyped
  BY DEF Init, StoresTyped, Stores
<1>3. Counted
  BY <1>1, FS_EmptySet, LruAssumption DEF Counted
<1>4. StampsDistinct
  BY <1>1 DEF StampsDistinct
<1> QED
  BY <1>2, <1>3, <1>4 DEF CacheInv

\* A stamp of either store is a number.
LEMMA StampsTyped ==
    ASSUME StoresTyped
    PROVE  /\ \A id \in Cached(nodes) : nodes[id].gen \in Nat
           /\ \A id \in Cached(edges) : edges[id].gen \in Nat
BY DEF StoresTyped, Stores, Cached, Entries

LEMMA NodesChangeInv ==
    ASSUME CacheInv, NodesChange
    PROVE  CacheInv'
<1>1. StoresTyped /\ generation \in Nat /\ generation' \in {generation, generation + 1}
  BY DEF CacheInv, StoresTyped, NodesChange
<1>2. StoresTyped'
  BY <1>1 DEF StoresTyped, NodesChange
<1>3. Counted'
  BY DEF CacheInv, Counted, NodesChange, Fits
<1>4. ASSUME Keeps(nodes, nodes')
      PROVE  StampsDistinct'
  <2>1. edges' = edges
    BY DEF NodesChange
  <2>2. \A i \in Cached(nodes') : i \in Cached(nodes) /\ nodes'[i].gen = nodes[i].gen
    BY <1>4 DEF Keeps
  <2>3. /\ \A i \in Cached(nodes) : nodes[i].gen <= generation /\ nodes[i].gen \in Nat
        /\ \A i \in Cached(edges) : edges[i].gen <= generation /\ edges[i].gen \in Nat
    BY <1>1, StampsTyped DEF CacheInv, StampsDistinct
  <2>4. /\ \A i \in Cached(nodes') : nodes'[i].gen <= generation'
        /\ \A i \in Cached(edges') : edges'[i].gen <= generation'
    BY <1>1, <2>1, <2>2, <2>3
  <2> QED
    BY <2>1, <2>2, <2>4 DEF CacheInv, StampsDistinct
<1>5. ASSUME generation' = generation + 1, \E id \in NodeIds : Renews(nodes, nodes', id)
      PROVE  StampsDistinct'
  <2>1. PICK id \in NodeIds : Renews(nodes, nodes', id)
    BY <1>5
  <2>2. \A i \in Cached(nodes') :
           \/ i = id /\ nodes'[i].gen = generation + 1
           \/ i # id /\ i \in Cached(nodes) /\ nodes'[i].gen = nodes[i].gen
    BY <2>1 DEF Renews
  <2>3. edges' = edges
    BY DEF NodesChange
  <2>4. /\ \A i \in Cached(nodes) : nodes[i].gen <= generation /\ nodes[i].gen \in Nat
        /\ \A i \in Cached(edges) : edges[i].gen <= generation /\ edges[i].gen \in Nat
    BY <1>1, StampsTyped DEF CacheInv, StampsDistinct
  <2>5. /\ \A i \in Cached(nodes') : nodes'[i].gen <= generation'
        /\ \A i \in Cached(edges') : edges'[i].gen <= generation'
    BY <1>1, <1>5, <2>2, <2>3, <2>4
  <2>6. \A i, j \in Cached(nodes') : nodes'[i].gen = nodes'[j].gen => i = j
    BY <1>1, <2>2, <2>4 DEF CacheInv, StampsDistinct
  <2>7. \A i, j \in Cached(edges') : edges'[i].gen = edges'[j].gen => i = j
    BY <2>3 DEF CacheInv, StampsDistinct
  <2>8. \A i \in Cached(nodes'), j \in Cached(edges') : nodes'[i].gen # edges'[j].gen
    BY <1>1, <2>2, <2>3, <2>4 DEF CacheInv, StampsDistinct
  <2> QED
    BY <2>5, <2>6, <2>7, <2>8 DEF StampsDistinct
<1>6. StampsDistinct'
  BY <1>4, <1>5 DEF NodesChange
<1> QED
  BY <1>2, <1>3, <1>6 DEF CacheInv

LEMMA EdgesChangeInv ==
    ASSUME CacheInv, EdgesChange
    PROVE  CacheInv'
<1>1. StoresTyped /\ generation \in Nat /\ generation' \in {generation, generation + 1}
  BY DEF CacheInv, StoresTyped, EdgesChange
<1>2. StoresTyped'
  BY <1>1 DEF StoresTyped, EdgesChange
<1>3. Counted'
  BY DEF CacheInv, Counted, EdgesChange, Fits
<1>4. ASSUME Keeps(edges, edges')
      PROVE  StampsDistinct'
  <2>1. nodes' = nodes
    BY DEF EdgesChange
  <2>2. \A i \in Cached(edges') : i \in Cached(edges) /\ edges'[i].gen = edges[i].gen
    BY <1>4 DEF Keeps
  <2>3. /\ \A i \in Cached(edges) : edges[i].gen <= generation /\ edges[i].gen \in Nat
        /\ \A i \in Cached(nodes) : nodes[i].gen <= generation /\ nodes[i].gen \in Nat
    BY <1>1, StampsTyped DEF CacheInv, StampsDistinct
  <2>4. /\ \A i \in Cached(edges') : edges'[i].gen <= generation'
        /\ \A i \in Cached(nodes') : nodes'[i].gen <= generation'
    BY <1>1, <2>1, <2>2, <2>3
  <2> QED
    BY <2>1, <2>2, <2>4 DEF CacheInv, StampsDistinct
<1>5. ASSUME generation' = generation + 1, \E id \in EdgeIds : Renews(edges, edges', id)
      PROVE  StampsDistinct'
  <2>1. PICK id \in EdgeIds : Renews(edges, edges', id)
    BY <1>5
  <2>2. \A i \in Cached(edges') :
           \/ i = id /\ edges'[i].gen = generation + 1
           \/ i # id /\ i \in Cached(edges) /\ edges'[i].gen = edges[i].gen
    BY <2>1 DEF Renews
  <2>3. nodes' = nodes
    BY DEF EdgesChange
  <2>4. /\ \A i \in Cached(nodes) : nodes[i].gen <= generation /\ nodes[i].gen \in Nat
        /\ \A i \in Cached(edges) : edges[i].gen <= generation /\ edges[i].gen \in Nat
    BY <1>1, StampsTyped DEF CacheInv, StampsDistinct
  <2>5. /\ \A i \in Cached(nodes') : nodes'[i].gen <= generation'
        /\ \A i \in Cached(edges') : edges'[i].gen <= generation'
    BY <1>1, <1>5, <2>2, <2>3, <2>4
  <2>6. \A i, j \in Cached(edges') : edges'[i].gen = edges'[j].gen => i = j
    BY <1>1, <2>2, <2>4 DEF CacheInv, StampsDistinct
  <2>7. \A i, j \in Cached(nodes') : nodes'[i].gen = nodes'[j].gen => i = j
    BY <2>3 DEF CacheInv, StampsDistinct
  <2>8. \A i \in Cached(nodes'), j \in Cached(edges') : nodes'[i].gen # edges'[j].gen
    BY <1>1, <2>2, <2>3, <2>4 DEF CacheInv, StampsDistinct
  <2> QED
    BY <2>5, <2>6, <2>7, <2>8 DEF StampsDistinct
<1>6. StampsDistinct'
  BY <1>4, <1>5 DEF EdgesChange
<1> QED
  BY <1>2, <1>3, <1>6 DEF CacheInv

\* No step breaks the invariant.
LEMMA NextCacheInv == CacheInv /\ [Next]_vars => CacheInv'
<1> SUFFICES ASSUME CacheInv, [Next]_vars
             PROVE  CacheInv'
  OBVIOUS
<1>1. CASE Next
  <2>1. CASE Clear
    <3>1. StoresTyped' /\ generation' = generation
      BY <2>1, ClearEmpties DEF CacheInv, StoresTyped
    <3>2. Counted'
      BY <2>1, ClearEmpties, FS_EmptySet, LruAssumption DEF Counted
    <3>3. StampsDistinct'
      BY <2>1, ClearEmpties DEF StampsDistinct
    <3> QED
      BY <3>1, <3>2, <3>3 DEF CacheInv
  <2> QED
    BY <1>1, <2>1, StepsOfTheCache, NodesChangeInv, EdgesChangeInv DEF CacheInv
<1>2. CASE UNCHANGED vars
  BY <1>2 DEF vars, CacheInv, StoresTyped, Counted, StampsDistinct
<1> QED
  BY <1>1, <1>2

-----------------------------------------------------------------------------
\* Whatever is read, written, invalidated and cleared in whatever order, the
\* evictions of put_node and put_edge keep each store within its capacity.
THEOREM StaysWithinCapacity == Spec => []WithinCapacity
<1>1. CacheInv => WithinCapacity
  BY DEF CacheInv, Counted, WithinCapacity
<1> QED
  BY <1>1, InitCacheInv, NextCacheInv, PTL DEF Spec

\* next_generation never gives a stamp that an entry of either store still
\* carries, so min_by_key always finds a single victim.
THEOREM StampsAreDistinct == Spec => []StampsDistinct
<1>1. CacheInv => StampsDistinct
  BY DEF CacheInv
<1> QED
  BY <1>1, InitCacheInv, NextCacheInv, PTL DEF Spec

-----------------------------------------------------------------------------
(* The victim is the least recently used entry.                            *)

Listed(s) == {s[i] : i \in 1 .. Len(s)}

\* f is s without some of its entries: at[i] is where the i-th was.
Thinned(f, s) ==
    \E at \in [1 .. Len(f) -> 1 .. Len(s)] :
        /\ \A i \in 1 .. Len(f) : f[i] = s[at[i]]
        /\ \A i, j \in 1 .. Len(f) : i < j => at[i] < at[j]

\* uses lists the entries of a store as they were last used.
InUseOrder(Ids, store, uses) ==
    /\ uses \in Seq(Ids)
    /\ Listed(uses) = Cached(store)
    /\ \A i, j \in 1 .. Len(uses) : i < j => store[uses[i]].gen < store[uses[j]].gen

\* Without id, the others stay in their order.
LEMMA Forgetting ==
    ASSUME NEW Ids, NEW uses \in Seq(Ids), NEW id,
           \A i, j \in 1 .. Len(uses) : uses[i] = uses[j] => i = j
    PROVE  /\ Forget(uses, id) \in Seq(Ids)
           /\ Listed(Forget(uses, id)) = Listed(uses) \ {id}
           /\ Thinned(Forget(uses, id), uses)
<1>1. Len(uses) \in Nat /\ DOMAIN uses = 1 .. Len(uses)
  OBVIOUS
<1>2. CASE \A i \in DOMAIN uses : uses[i] # id
  <2>1. Forget(uses, id) = uses
    BY <1>2 DEF Forget
  <2>2. PICK at : at = [i \in 1 .. Len(uses) |-> i]
    OBVIOUS
  <2>3. /\ at \in [1 .. Len(uses) -> 1 .. Len(uses)]
        /\ \A i \in 1 .. Len(uses) : uses[i] = uses[at[i]]
        /\ \A i, j \in 1 .. Len(uses) : i < j => at[i] < at[j]
    BY <2>2
  <2>4. Listed(uses) = Listed(uses) \ {id}
    BY <1>1, <1>2 DEF Listed
  <2>5. Thinned(uses, uses)
    BY <2>3 DEF Thinned
  <2> QED BY <2>1, <2>4, <2>5
<1>3. CASE \E i \in DOMAIN uses : uses[i] = id
  <2> DEFINE n == CHOOSE i \in DOMAIN uses : uses[i] = id
  <2>1. n \in 1 .. Len(uses) /\ uses[n] = id
    BY <1>1, <1>3
  <2>2. Forget(uses, id) = [i \in 1 .. Len(uses) - 1 |-> IF i < n THEN uses[i] ELSE uses[i + 1]]
    BY <1>3 DEF Forget
  <2> HIDE DEF n
  <2>3. PICK f : f = Forget(uses, id)
    OBVIOUS
  <2>4. PICK at : at = [i \in 1 .. Len(uses) - 1 |-> IF i < n THEN i ELSE i + 1]
    OBVIOUS
  <2>5. at \in [1 .. Len(uses) - 1 -> 1 .. Len(uses)]
    BY <1>1, <2>1, <2>4
  <2>6. \A i \in 1 .. Len(uses) - 1 : f[i] = uses[at[i]] /\ f[i] \in Ids
    BY <1>1, <2>1, <2>2, <2>3, <2>4
  <2>7. f \in Seq(Ids) /\ Len(f) = Len(uses) - 1
    <3>1. Len(uses) - 1 \in Nat
      BY <1>1, <2>1
    <3>2. f = [i \in 1 .. Len(uses) - 1 |-> f[i]]
      BY <2>2, <2>3
    <3> QED BY <2>6, <3>1, <3>2
  <2>8. \A i, j \in 1 .. Len(uses) - 1 : i < j => at[i] < at[j]
    BY <1>1, <2>1, <2>4
  <2>9. ASSUME NEW i \in 1 .. Len(uses), i # n
        PROVE  \E j \in 1 .. Len(uses) - 1 : at[j] = i
    <3>1. CASE i < n
      <4>1. i \in 1 .. Len(uses) - 1
        BY <1>1, <2>1, <3>1
      <4> QED BY <2>4, <3>1, <4>1
    <3>2. CASE i > n
      <4>1. i - 1 \in 1 .. Len(uses) - 1 /\ ~(i - 1 < n)
        BY <1>1, <2>1, <3>2
      <4> QED BY <2>4, <4>1
    <3> QED BY <1>1, <2>1, <2>9, <3>1, <3>2
  <2>10. \A j \in 1 .. Len(uses) - 1 : at[j] # n
    BY <1>1, <2>1, <2>4
  <2>11. {f[i] : i \in 1 .. Len(uses) - 1} = {uses[i] : i \in 1 .. Len(uses)} \ {id}
    <3>1. \A i \in 1 .. Len(uses) - 1 : f[i] \in {uses[j] : j \in 1 .. Len(uses)} /\ f[i] # id
      BY <2>1, <2>5, <2>6, <2>10
    <3>2. ASSUME NEW i \in 1 .. Len(uses), uses[i] # id
          PROVE  \E j \in 1 .. Len(uses) - 1 : f[j] = uses[i]
      BY <2>1, <2>6, <2>9, <3>2
    <3>3. {f[i] : i \in 1 .. Len(uses) - 1} \subseteq {uses[i] : i \in 1 .. Len(uses)} \ {id}
      BY <3>1
    <3>4. {uses[i] : i \in 1 .. Len(uses)} \ {id} \subseteq {f[i] : i \in 1 .. Len(uses) - 1}
      BY <3>2
    <3> QED BY <3>3, <3>4
  <2>12. Thinned(f, uses)
    BY <2>5, <2>6, <2>7, <2>8 DEF Thinned
  <2>13. Listed(f) = Listed(uses) \ {id}
    BY <2>7, <2>11 DEF Listed
  <2> QED BY <2>3, <2>7, <2>12, <2>13
<1> QED
  BY <1>2, <1>3

LEMMA UsesDiffer ==
    ASSUME NEW Ids, NEW Data, NEW store \in Stores(Ids, Data), NEW uses,
           InUseOrder(Ids, store, uses)
    PROVE  /\ uses \in Seq(Ids)
           /\ \A i, j \in 1 .. Len(uses) : uses[i] = uses[j] => i = j
           /\ \A i \in 1 .. Len(uses) : uses[i] \in Cached(store) /\ store[uses[i]].gen \in Nat
<1>1. \A i \in 1 .. Len(uses) : uses[i] \in Cached(store)
  BY DEF InUseOrder, Listed
<1>2. \A x \in Cached(store) : store[x].gen \in Nat
  BY DEF Cached, Stores, Entries
<1>3. Len(uses) \in Nat
  BY DEF InUseOrder
<1>4. \A i, j \in 1 .. Len(uses) : i < j => uses[i] # uses[j]
  BY <1>1, <1>2 DEF InUseOrder
<1> QED
  BY <1>1, <1>2, <1>3, <1>4 DEF InUseOrder

\* An entry that goes, and an entry that comes with a new stamp.
LEMMA DroppingUse ==
    ASSUME NEW Ids, NEW Data, NEW store \in Stores(Ids, Data), NEW uses,
           InUseOrder(Ids, store, uses), NEW id \in Ids
    PROVE  InUseOrder(Ids, [store EXCEPT ![id] = Absent], Forget(uses, id))
<1> DEFINE new == [store EXCEPT ![id] = Absent]
<1>1. PICK f : f = Forget(uses, id)
  OBVIOUS
<1>2. uses \in Seq(Ids) /\ \A i, j \in 1 .. Len(uses) : uses[i] = uses[j] => i = j
  BY UsesDiffer
<1>3. f \in Seq(Ids) /\ Listed(f) = Listed(uses) \ {id} /\ Thinned(f, uses)
  BY <1>1, <1>2, Forgetting
<1>4. PICK at \in [1 .. Len(f) -> 1 .. Len(uses)] :
         /\ \A i \in 1 .. Len(f) : f[i] = uses[at[i]]
         /\ \A i, j \in 1 .. Len(f) : i < j => at[i] < at[j]
  BY <1>3 DEF Thinned
<1>5. Cached(new) = Cached(store) \ {id} /\ \A x \in Cached(new) : new[x] = store[x]
  BY DEF Cached, Stores
<1>6. Listed(f) = Cached(new)
  BY <1>3, <1>5 DEF InUseOrder
<1> HIDE DEF new
<1>7. ASSUME NEW i \in 1 .. Len(f), NEW j \in 1 .. Len(f), i < j
      PROVE  new[f[i]].gen < new[f[j]].gen
  <2>1. new[f[i]] = store[uses[at[i]]] /\ new[f[j]] = store[uses[at[j]]]
    BY <1>4, <1>5, <1>6 DEF Listed
  <2>2. at[i] \in 1 .. Len(uses) /\ at[j] \in 1 .. Len(uses) /\ at[i] < at[j]
    BY <1>4, <1>7
  <2> QED BY <2>1, <2>2 DEF InUseOrder
<1>8. InUseOrder(Ids, new, f)
  BY <1>3, <1>6, <1>7 DEF InUseOrder
<1> QED
  BY <1>1, <1>8 DEF new

LEMMA AddingUse ==
    ASSUME NEW Ids, NEW Data, NEW store \in Stores(Ids, Data), NEW uses,
           InUseOrder(Ids, store, uses), NEW id \in Ids, store[id] = Absent,
           NEW e \in Entries(Data), e # Absent, \A x \in Cached(store) : store[x].gen < e.gen
    PROVE  InUseOrder(Ids, [store EXCEPT ![id] = e], Append(uses, id))
<1> DEFINE new == [store EXCEPT ![id] = e]
<1>1. PICK t : t = Append(uses, id)
  OBVIOUS
<1>2. /\ uses \in Seq(Ids) /\ Len(uses) \in Nat
      /\ \A i \in 1 .. Len(uses) : uses[i] \in Cached(store)
  BY UsesDiffer
<1>3. /\ t \in Seq(Ids) /\ Len(t) = Len(uses) + 1 /\ t[Len(uses) + 1] = id
      /\ \A i \in 1 .. Len(uses) : t[i] = uses[i]
  BY <1>1, <1>2
<1>4. /\ Cached(new) = Cached(store) \cup {id} /\ id \notin Cached(store)
      /\ new[id] = e /\ \A x \in Cached(store) : new[x] = store[x]
  BY DEF Cached, Stores
<1> HIDE DEF new
<1>5. \A i \in 1 .. Len(t) : i \in 1 .. Len(uses) \/ i = Len(uses) + 1
  BY <1>2, <1>3
<1>6. Listed(t) = Cached(new)
  <2>1. \A i \in 1 .. Len(t) : t[i] \in Cached(new)
    BY <1>2, <1>3, <1>4, <1>5
  <2>2. \A x \in Cached(store) : \E i \in 1 .. Len(uses) : uses[i] = x
    BY DEF InUseOrder, Listed
  <2>3. \A i \in 1 .. Len(uses) : i \in 1 .. Len(t)
    BY <1>2, <1>3
  <2>4. \A x \in Cached(store) : \E i \in 1 .. Len(t) : t[i] = x
    BY <1>3, <2>2, <2>3
  <2>5. Len(uses) + 1 \in 1 .. Len(t)
    BY <1>2, <1>3
  <2> QED BY <1>3, <1>4, <2>1, <2>4, <2>5 DEF Listed
<1>7. ASSUME NEW i \in 1 .. Len(t), NEW j \in 1 .. Len(t), i < j
      PROVE  new[t[i]].gen < new[t[j]].gen
  <2>1. i \in 1 .. Len(uses) /\ new[t[i]] = store[uses[i]] /\ uses[i] \in Cached(store)
    BY <1>2, <1>3, <1>4, <1>7
  <2>2. CASE j = Len(uses) + 1
    BY <1>3, <1>4, <2>1, <2>2
  <2>3. CASE j \in 1 .. Len(uses)
    BY <1>2, <1>3, <1>4, <1>7, <2>1, <2>3 DEF InUseOrder
  <2> QED BY <1>5, <2>2, <2>3
<1>8. InUseOrder(Ids, new, t)
  BY <1>3, <1>6, <1>7 DEF InUseOrder
<1> QED
  BY <1>1, <1>8 DEF new

LEMMA TouchingUse ==
    ASSUME NEW Ids, NEW Data, NEW store \in Stores(Ids, Data), NEW uses,
           InUseOrder(Ids, store, uses), NEW id \in Ids,
           NEW e \in Entries(Data), e # Absent, \A x \in Cached(store) : store[x].gen < e.gen
    PROVE  InUseOrder(Ids, [store EXCEPT ![id] = e], Touch(uses, id))
<1> DEFINE less == [store EXCEPT ![id] = Absent]
<1>1. less \in Stores(Ids, Data) /\ less[id] = Absent /\ InUseOrder(Ids, less, Forget(uses, id))
  BY DroppingUse, Dropping DEF Stores
<1>2. \A x \in Cached(less) : less[x].gen < e.gen
  BY DEF Cached, Stores
<1>3. [less EXCEPT ![id] = e] = [store EXCEPT ![id] = e]
  BY DEF Stores
<1> HIDE DEF less
<1> QED
  BY <1>1, <1>2, <1>3, AddingUse DEF Touch

LEMMA ReplacingUse ==
    ASSUME NEW Ids, NEW Data, NEW store \in Stores(Ids, Data), NEW uses,
           InUseOrder(Ids, store, uses), NEW id \in Ids, NEW victim \in Ids,
           NEW e \in Entries(Data), e # Absent, \A x \in Cached(store) : store[x].gen < e.gen
    PROVE  InUseOrder(Ids, [store EXCEPT ![victim] = Absent, ![id] = e],
                           Touch(Forget(uses, victim), id))
<1> DEFINE less == [store EXCEPT ![victim] = Absent]
<1>1. less \in Stores(Ids, Data) /\ InUseOrder(Ids, less, Forget(uses, victim))
  BY DroppingUse, Dropping
<1>2. \A x \in Cached(less) : less[x].gen < e.gen
  BY DEF Cached, Stores
<1>3. [less EXCEPT ![id] = e] = [store EXCEPT ![victim] = Absent, ![id] = e]
  BY DEF Stores
<1> HIDE DEF less
<1> QED
  BY <1>1, <1>2, <1>3, TouchingUse

UsesInv ==
    /\ CacheInv
    /\ InUseOrder(NodeIds, nodes, nodeUses)
    /\ InUseOrder(EdgeIds, edges, edgeUses)

\* The next stamp is later than all there are.
LEMMA NextStampIsLatest ==
    ASSUME CacheInv
    PROVE  /\ nodes \in Stores(NodeIds, NodeData) /\ edges \in Stores(EdgeIds, EdgeData)
           /\ generation + 1 \in Nat
           /\ \A x \in Cached(nodes) : nodes[x].gen < generation + 1
           /\ \A x \in Cached(edges) : edges[x].gen < generation + 1
<1>1. /\ \A x \in Cached(nodes) : nodes[x].gen \in Nat /\ nodes[x].gen <= generation
      /\ \A x \in Cached(edges) : edges[x].gen \in Nat /\ edges[x].gen <= generation
      /\ generation \in Nat
  BY StampsTyped DEF CacheInv, StampsDistinct, StoresTyped
<1> QED
  BY <1>1 DEF CacheInv, StoresTyped

LEMMA NodeStepUses ==
    ASSUME UsesInv, NEW id \in NodeIds, NodeStep(id)
    PROVE  InUseOrder(NodeIds, nodes', nodeUses') /\ edges' = edges /\ edgeUses' = edgeUses
<1> DEFINE new(value) == Entry(value, generation + 1)
<1>1. /\ nodes \in Stores(NodeIds, NodeData) /\ InUseOrder(NodeIds, nodes, nodeUses)
      /\ \A value \in NodeData :
            /\ new(value) \in Entries(NodeData) /\ new(value) # Absent
            /\ \A x \in Cached(nodes) : nodes[x].gen < new(value).gen
  <2>1. CacheInv /\ InUseOrder(NodeIds, nodes, nodeUses)
    BY DEF UsesInv
  <2>2. /\ nodes \in Stores(NodeIds, NodeData) /\ generation + 1 \in Nat
        /\ \A x \in Cached(nodes) : nodes[x].gen < generation + 1
    BY <2>1, NextStampIsLatest
  <2>3. \A value \in NodeData : new(value) \in Entries(NodeData) /\ new(value).gen = generation + 1
    BY <2>2 DEF Entry, Entries
  <2> QED BY <2>1, <2>2, <2>3, EntriesPresent
<1>2. CASE GetNode(id)
  <2>1. CASE nodes[id] # Absent
    <3>1. nodes[id].value \in NodeData
      BY <1>1, <2>1 DEF Stores, Entries
    <3>2. /\ nodes' = [nodes EXCEPT ![id] = new(nodes[id].value)]
          /\ nodeUses' = Touch(nodeUses, id) /\ UNCHANGED <<edges, edgeUses>>
      BY <1>2, <2>1 DEF GetNode, Stamp, next_generation
    <3> HIDE DEF new
    <3> QED BY <1>1, <3>1, <3>2, TouchingUse
  <2>2. CASE nodes[id] = Absent
    BY <1>1, <1>2, <2>2 DEF GetNode
  <2> QED BY <2>1, <2>2
<1>3. ASSUME NEW node \in NodeData, PutNode(id, node)
      PROVE  InUseOrder(NodeIds, nodes', nodeUses') /\ edges' = edges /\ edgeUses' = edgeUses
  <2>1. /\ nodes' = [nodes EXCEPT ![id] = new(node)]
        /\ nodeUses' = Touch(nodeUses, id) /\ UNCHANGED <<edges, edgeUses>>
    BY <1>3 DEF PutNode, next_generation
  <2> HIDE DEF new
  <2> QED BY <1>1, <2>1, TouchingUse
<1>4. ASSUME NEW node \in NodeData, PutNodeEvicts(id, node)
      PROVE  InUseOrder(NodeIds, nodes', nodeUses') /\ edges' = edges /\ edgeUses' = edgeUses
  <2>1. PICK victim \in NodeIds :
          /\ nodes' = [nodes EXCEPT ![victim] = Absent, ![id] = new(node)]
          /\ nodeUses' = Touch(Forget(nodeUses, victim), id) /\ UNCHANGED <<edges, edgeUses>>
    BY <1>1, <1>4 DEF PutNodeEvicts, next_generation, Oldest, Cached, Stores
  <2> HIDE DEF new
  <2> QED BY <1>1, <2>1, ReplacingUse
<1>5. CASE InvalidateNode(id)
  BY <1>1, <1>5, DroppingUse DEF InvalidateNode
<1> QED
  BY <1>2, <1>3, <1>4, <1>5 DEF NodeStep

LEMMA EdgeStepUses ==
    ASSUME UsesInv, NEW id \in EdgeIds, EdgeStep(id)
    PROVE  InUseOrder(EdgeIds, edges', edgeUses') /\ nodes' = nodes /\ nodeUses' = nodeUses
<1> DEFINE new(value) == Entry(value, generation + 1)
<1>1. /\ edges \in Stores(EdgeIds, EdgeData) /\ InUseOrder(EdgeIds, edges, edgeUses)
      /\ \A value \in EdgeData :
            /\ new(value) \in Entries(EdgeData) /\ new(value) # Absent
            /\ \A x \in Cached(edges) : edges[x].gen < new(value).gen
  <2>1. CacheInv /\ InUseOrder(EdgeIds, edges, edgeUses)
    BY DEF UsesInv
  <2>2. /\ edges \in Stores(EdgeIds, EdgeData) /\ generation + 1 \in Nat
        /\ \A x \in Cached(edges) : edges[x].gen < generation + 1
    BY <2>1, NextStampIsLatest
  <2>3. \A value \in EdgeData : new(value) \in Entries(EdgeData) /\ new(value).gen = generation + 1
    BY <2>2 DEF Entry, Entries
  <2> QED BY <2>1, <2>2, <2>3, EntriesPresent
<1>2. CASE GetEdge(id)
  <2>1. CASE edges[id] # Absent
    <3>1. edges[id].value \in EdgeData
      BY <1>1, <2>1 DEF Stores, Entries
    <3>2. /\ edges' = [edges EXCEPT ![id] = new(edges[id].value)]
          /\ edgeUses' = Touch(edgeUses, id) /\ UNCHANGED <<nodes, nodeUses>>
      BY <1>2, <2>1 DEF GetEdge, Stamp, next_generation
    <3> HIDE DEF new
    <3> QED BY <1>1, <3>1, <3>2, TouchingUse
  <2>2. CASE edges[id] = Absent
    BY <1>1, <1>2, <2>2 DEF GetEdge
  <2> QED BY <2>1, <2>2
<1>3. ASSUME NEW edge \in EdgeData, PutEdge(id, edge)
      PROVE  InUseOrder(EdgeIds, edges', edgeUses') /\ nodes' = nodes /\ nodeUses' = nodeUses
  <2>1. /\ edges' = [edges EXCEPT ![id] = new(edge)]
        /\ edgeUses' = Touch(edgeUses, id) /\ UNCHANGED <<nodes, nodeUses>>
    BY <1>3 DEF PutEdge, next_generation
  <2> HIDE DEF new
  <2> QED BY <1>1, <2>1, TouchingUse
<1>4. ASSUME NEW edge \in EdgeData, PutEdgeEvicts(id, edge)
      PROVE  InUseOrder(EdgeIds, edges', edgeUses') /\ nodes' = nodes /\ nodeUses' = nodeUses
  <2>1. PICK victim \in EdgeIds :
          /\ edges' = [edges EXCEPT ![victim] = Absent, ![id] = new(edge)]
          /\ edgeUses' = Touch(Forget(edgeUses, victim), id) /\ UNCHANGED <<nodes, nodeUses>>
    BY <1>1, <1>4 DEF PutEdgeEvicts, next_generation, Oldest, Cached, Stores
  <2> HIDE DEF new
  <2> QED BY <1>1, <2>1, ReplacingUse
<1>5. CASE InvalidateEdge(id)
  BY <1>1, <1>5, DroppingUse DEF InvalidateEdge
<1> QED
  BY <1>2, <1>3, <1>4, <1>5, LruAssumption DEF EdgeStep

LEMMA UsesInit == Init => UsesInv
<1> SUFFICES ASSUME Init PROVE UsesInv
  OBVIOUS
<1>1. Cached(nodes) = {} /\ Cached(edges) = {}
  BY DEF Init, Cached
<1>2. /\ nodeUses \in Seq(NodeIds) /\ edgeUses \in Seq(EdgeIds)
      /\ 1 .. Len(nodeUses) = {} /\ 1 .. Len(edgeUses) = {}
  BY DEF Init
<1> QED
  BY <1>1, <1>2, InitCacheInv DEF UsesInv, InUseOrder, Listed

LEMMA UsesNext == UsesInv /\ [Next]_vars => UsesInv'
<1> SUFFICES ASSUME UsesInv, [Next]_vars PROVE UsesInv'
  OBVIOUS
<1>1. CacheInv'
  BY NextCacheInv DEF UsesInv
<1>2. CASE Clear
  <2>1. Cached(nodes') = {} /\ Cached(edges') = {}
    BY <1>2 DEF Clear, Cached
  <2>2. /\ nodeUses' \in Seq(NodeIds) /\ edgeUses' \in Seq(EdgeIds)
        /\ 1 .. Len(nodeUses') = {} /\ 1 .. Len(edgeUses') = {}
    BY <1>2 DEF Clear
  <2> QED BY <1>1, <2>1, <2>2 DEF UsesInv, InUseOrder, Listed
<1>3. CASE UNCHANGED vars
  BY <1>1, <1>3 DEF vars, UsesInv, InUseOrder, Cached, Listed
<1>4. ASSUME NEW id \in NodeIds, NodeStep(id) PROVE UsesInv'
  <2>1. InUseOrder(NodeIds, nodes', nodeUses') /\ edges' = edges /\ edgeUses' = edgeUses
    BY <1>4, NodeStepUses
  <2> QED BY <1>1, <2>1 DEF UsesInv
<1>5. ASSUME NEW id \in EdgeIds, EdgeStep(id) PROVE UsesInv'
  <2>1. InUseOrder(EdgeIds, edges', edgeUses') /\ nodes' = nodes /\ nodeUses' = nodeUses
    BY <1>5, EdgeStepUses
  <2> QED BY <1>1, <2>1 DEF UsesInv
<1> QED
  BY <1>2, <1>3, <1>4, <1>5 DEF Next

\* The entry with the least stamp is the first in the order of use.
LEMMA OldestIsFirst ==
    ASSUME NEW Ids, NEW Data, NEW store \in Stores(Ids, Data), NEW uses,
           InUseOrder(Ids, store, uses), NEW victim \in Oldest(store)
    PROVE  Head(uses) = victim
<1>1. /\ uses \in Seq(Ids) /\ Len(uses) \in Nat
      /\ \A i \in 1 .. Len(uses) : uses[i] \in Cached(store) /\ store[uses[i]].gen \in Nat
  BY UsesDiffer
<1>2. victim \in Cached(store) /\ \A x \in Cached(store) : store[victim].gen <= store[x].gen
  BY DEF Oldest
<1>3. PICK i \in 1 .. Len(uses) : uses[i] = victim
  BY <1>2 DEF InUseOrder, Listed
<1>4. 1 \in 1 .. Len(uses)
  BY <1>1
<1>5. ~(1 < i)
  BY <1>1, <1>2, <1>3, <1>4 DEF InUseOrder
<1>6. i = 1 /\ uses # <<>>
  BY <1>1, <1>5
<1> QED
  BY <1>1, <1>3, <1>6

\* evict_oldest_node and evict_oldest_edge drop what a get that hit or a put has
\* touched least recently in that store, whatever came in between.
THEOREM EvictsTheLeastRecentlyUsed == Spec => EvictsLeastRecentlyUsed
<1> DEFINE Evicts ==
      /\ \A id \in NodeIds, node \in NodeData :
            PutNodeEvicts(id, node) => nodes'[Head(nodeUses)] = Absent
      /\ \A id \in EdgeIds, edge \in EdgesInUse :
            PutEdgeEvicts(id, edge) => edges'[Head(edgeUses)] = Absent
<1>1. UsesInv => Evicts
  <2> SUFFICES ASSUME UsesInv PROVE Evicts
    OBVIOUS
  <2>1. /\ nodes \in Stores(NodeIds, NodeData) /\ InUseOrder(NodeIds, nodes, nodeUses)
        /\ edges \in Stores(EdgeIds, EdgeData) /\ InUseOrder(EdgeIds, edges, edgeUses)
    BY DEF UsesInv, CacheInv, StoresTyped
  <2>2. ASSUME NEW id \in NodeIds, NEW node \in NodeData, PutNodeEvicts(id, node)
        PROVE  nodes'[Head(nodeUses)] = Absent
    <3>1. PICK victim \in Oldest(nodes) :
             nodes' = [nodes EXCEPT ![victim] = Absent, ![id] = Entry(node, next_generation)]
      BY <2>2 DEF PutNodeEvicts
    <3>2. Head(nodeUses) = victim
      BY <2>1, OldestIsFirst
    <3>3. victim # id /\ victim \in NodeIds
      BY <2>1, <2>2 DEF PutNodeEvicts, Oldest, Cached, Stores
    <3> QED BY <2>1, <3>1, <3>2, <3>3 DEF Stores
  <2>3. ASSUME NEW id \in EdgeIds, NEW edge \in EdgesInUse, PutEdgeEvicts(id, edge)
        PROVE  edges'[Head(edgeUses)] = Absent
    <3>1. PICK victim \in Oldest(edges) :
             edges' = [edges EXCEPT ![victim] = Absent, ![id] = Entry(edge, next_generation)]
      BY <2>3 DEF PutEdgeEvicts
    <3>2. Head(edgeUses) = victim
      BY <2>1, OldestIsFirst
    <3>3. victim # id /\ victim \in EdgeIds
      BY <2>1, <2>3 DEF PutEdgeEvicts, Oldest, Cached, Stores
    <3> QED BY <2>1, <3>1, <3>2, <3>3 DEF Stores
  <2> QED BY <2>2, <2>3
<1> QED
  BY <1>1, UsesInit, UsesNext, PTL DEF Spec, EvictsLeastRecentlyUsed

-----------------------------------------------------------------------------
(* LruCache implements the port: every step is the port's step on the      *)
(* values, or changes none.                                                *)

PortCache == [nodes |-> Values(nodes), edges |-> Values(edges)]

\* The values of a store are what the port sees of it.
LEMMA ValuesOf ==
    ASSUME NEW Ids, NEW Data, NEW store \in Stores(Ids, Data), Absent \notin Data,
           \A e \in Entries(Data) : e # Absent
    PROVE  /\ \A id \in Ids : (Values(store)[id] = Absent) <=> (store[id] = Absent)
           /\ {id \in DOMAIN Values(store) : Values(store)[id] # Absent} = Cached(store)
BY DEF Stores, Values, Entries, Cached

LEMMA ValuesStored ==
    ASSUME NEW Ids, NEW Data, NEW store \in Stores(Ids, Data), NEW id \in Ids,
           NEW e \in Entries(Data), e # Absent
    PROVE  Values([store EXCEPT ![id] = e]) = [Values(store) EXCEPT ![id] = e.value]
BY DEF Stores, Values

LEMMA ValuesReplaced ==
    ASSUME NEW Ids, NEW Data, NEW store \in Stores(Ids, Data), NEW id \in Ids, NEW victim \in Ids,
           NEW e \in Entries(Data), e # Absent
    PROVE  Values([store EXCEPT ![victim] = Absent, ![id] = e])
              = [Values(store) EXCEPT ![victim] = Absent, ![id] = e.value]
BY DEF Stores, Values

LEMMA ValuesDropped ==
    ASSUME NEW Ids, NEW Data, NEW store \in Stores(Ids, Data), NEW id \in Ids
    PROVE  Values([store EXCEPT ![id] = Absent]) = [Values(store) EXCEPT ![id] = Absent]
BY DEF Stores, Values

LEMMA CacheRecords ==
    ASSUME NEW n, NEW e, NEW m, NEW x
    PROVE  LET c == [nodes |-> n, edges |-> e] IN
           /\ c.nodes = n /\ c.edges = e
           /\ [c EXCEPT !.nodes = m] = [nodes |-> m, edges |-> e]
           /\ [c EXCEPT !.edges = m] = [nodes |-> n, edges |-> m]
           /\ [c EXCEPT !.nodes[x] = m] = [nodes |-> [n EXCEPT ![x] = m], edges |-> e]
           /\ [c EXCEPT !.edges[x] = m] = [nodes |-> n, edges |-> [e EXCEPT ![x] = m]]
OBVIOUS

LEMMA SameCardinality ==
    \A S : /\ Port!NodeStore!Cardinality(S) = Cardinality(S)
           /\ Port!EdgeStore!Cardinality(S) = Cardinality(S)
BY DEF Port!NodeStore!Cardinality, Port!EdgeStore!Cardinality, Cardinality

\* A get changes no value.
LEMMA GetNodeStutters ==
    ASSUME StoresTyped, NEW id \in NodeIds, GetNode(id)
    PROVE  UNCHANGED PortCache
<1>1. Values(nodes') = Values(nodes)
  <2>1. CASE nodes[id] = Absent
    BY <2>1 DEF GetNode
  <2>2. CASE nodes[id] # Absent
    <3>1. nodes[id] \in Entries(NodeData) /\ generation + 1 \in Nat
      BY <2>2 DEF StoresTyped, Stores
    <3>2. nodes[id].value \in NodeData
      BY <3>1 DEF Entries
    <3> DEFINE e == Entry(nodes[id].value, generation + 1)
    <3>3. nodes' = [nodes EXCEPT ![id] = e]
      BY <2>2 DEF GetNode, Stamp, next_generation
    <3>4. e \in Entries(NodeData) /\ e # Absent /\ e.value = nodes[id].value
      BY <3>2, NewEntries, EntriesPresent DEF Entry
    <3> HIDE DEF e
    <3>5. Values([nodes EXCEPT ![id] = e]) = [Values(nodes) EXCEPT ![id] = e.value]
      BY <3>4, ValuesStored DEF StoresTyped
    <3>6. Values(nodes)[id] = nodes[id].value
      BY <2>2 DEF StoresTyped, Stores, Values
    <3> QED
      BY <3>3, <3>4, <3>6, <3>5 DEF Values
  <2> QED
    BY <2>1, <2>2
<1>2. edges' = edges
  BY DEF GetNode
<1> QED
  BY <1>1, <1>2 DEF PortCache, Values

\* A put, with or without an eviction, is a put of the port.
LEMMA PutNodeIsPut ==
    ASSUME StoresTyped, NEW id \in NodeIds, NEW node \in NodeData,
           PutNode(id, node) \/ PutNodeEvicts(id, node)
    PROVE  Port!PutNode(id, node)
<1>1. /\ nodes \in Stores(NodeIds, NodeData) /\ generation + 1 \in Nat
      /\ edges' = edges /\ NodeCapacity # 0
  BY LruAssumption DEF StoresTyped, PutNode, PutNodeEvicts
<1>2. /\ Port!NodeStore!Present(Values(nodes)) = Cached(nodes)
      /\ (Values(nodes)[id] = Absent) <=> (nodes[id] = Absent)
  BY <1>1, ValuesOf, EntriesPresent, StorageAssumption DEF Port!NodeStore!Present
<1>3. Port!NodeStore!Cardinality(Cached(nodes)) = Cardinality(Cached(nodes))
  BY SameCardinality
<1> DEFINE e == Entry(node, generation + 1)
<1>4. e \in Entries(NodeData) /\ e # Absent /\ e.value = node
  BY NewEntries, EntriesPresent DEF Entry
<1>5. Values(nodes') \in Port!NodeStore!PutResults(Values(nodes), id, node)
  <2>1. CASE PutNode(id, node)
    <3>1. nodes' = [nodes EXCEPT ![id] = e]
      BY <2>1 DEF PutNode, next_generation
    <3>2. Values([nodes EXCEPT ![id] = e]) = [Values(nodes) EXCEPT ![id] = node]
      <4> HIDE DEF e
      <4> QED BY <1>1, <1>4, ValuesStored
    <3>3. nodes[id] # Absent \/ Cardinality(Cached(nodes)) < NodeCapacity
      BY <2>1 DEF PutNode, HasRoom
    <3> QED
      BY <1>1, <1>2, <1>3, <3>1, <3>2, <3>3 DEF Port!NodeStore!PutResults
  <2>2. CASE PutNodeEvicts(id, node)
    <3>1. PICK victim \in Cached(nodes) :
             nodes' = [nodes EXCEPT ![victim] = Absent, ![id] = e]
      BY <2>2 DEF PutNodeEvicts, Oldest, next_generation
    <3>2. victim \in NodeIds
      BY <1>1 DEF Stores, Cached
    <3>3. Values([nodes EXCEPT ![victim] = Absent, ![id] = e])
             = [Values(nodes) EXCEPT ![victim] = Absent, ![id] = node]
      <4> HIDE DEF e
      <4> QED BY <1>1, <1>4, <3>2, ValuesReplaced
    <3>4. ~(nodes[id] # Absent \/ Cardinality(Cached(nodes)) < NodeCapacity)
      BY <2>2 DEF PutNodeEvicts, HasRoom
    <3> QED
      BY <1>1, <1>2, <1>3, <3>1, <3>3, <3>4 DEF Port!NodeStore!PutResults
  <2> QED
    BY <2>1, <2>2
<1>6. Values(edges') = Values(edges)
  BY <1>1
<1>7. PortCache' = [nodes |-> Values(nodes'), edges |-> Values(edges')]
  BY DEF PortCache, Values
<1>8. PortCache' = [PortCache EXCEPT !.nodes = Values(nodes')]
  BY <1>6, <1>7, CacheRecords DEF PortCache
<1>9. PortCache.nodes = Values(nodes)
  BY DEF PortCache
<1> QED
  BY <1>5, <1>8, <1>9 DEF Port!PutNode, Port!NodeStore!PutNode, PortCache

LEMMA InvalidateNodeIsInvalidate ==
    ASSUME StoresTyped, NEW id \in NodeIds, InvalidateNode(id)
    PROVE  Port!InvalidateNode(id)
<1>1. nodes' = [nodes EXCEPT ![id] = Absent] /\ edges' = edges /\ nodes \in Stores(NodeIds, NodeData)
  BY DEF InvalidateNode, StoresTyped
<1>2. Values(nodes') = [Values(nodes) EXCEPT ![id] = Absent]
  BY <1>1, ValuesDropped
<1>3. PortCache' = [nodes |-> Values(nodes'), edges |-> Values(edges')]
  BY DEF PortCache, Values
<1>4. PortCache' = [PortCache EXCEPT !.nodes[id] = Absent]
  BY <1>1, <1>2, <1>3, CacheRecords DEF PortCache
<1> QED
  BY <1>4 DEF Port!InvalidateNode, Port!NodeStore!InvalidateNode, PortCache

\* A get changes no value.
LEMMA GetEdgeStutters ==
    ASSUME StoresTyped, NEW id \in EdgeIds, GetEdge(id)
    PROVE  UNCHANGED PortCache
<1>1. Values(edges') = Values(edges)
  <2>1. CASE edges[id] = Absent
    BY <2>1 DEF GetEdge
  <2>2. CASE edges[id] # Absent
    <3>1. edges[id] \in Entries(EdgeData) /\ generation + 1 \in Nat
      BY <2>2 DEF StoresTyped, Stores
    <3>2. edges[id].value \in EdgeData
      BY <3>1 DEF Entries
    <3> DEFINE e == Entry(edges[id].value, generation + 1)
    <3>3. edges' = [edges EXCEPT ![id] = e]
      BY <2>2 DEF GetEdge, Stamp, next_generation
    <3>4. e \in Entries(EdgeData) /\ e # Absent /\ e.value = edges[id].value
      BY <3>2, NewEntries, EntriesPresent DEF Entry
    <3> HIDE DEF e
    <3>5. Values([edges EXCEPT ![id] = e]) = [Values(edges) EXCEPT ![id] = e.value]
      BY <3>4, ValuesStored DEF StoresTyped
    <3>6. Values(edges)[id] = edges[id].value
      BY <2>2 DEF StoresTyped, Stores, Values
    <3> QED
      BY <3>3, <3>4, <3>6, <3>5 DEF Values
  <2> QED
    BY <2>1, <2>2
<1>2. nodes' = nodes
  BY DEF GetEdge
<1> QED
  BY <1>1, <1>2 DEF PortCache, Values

\* A put, with or without an eviction, is a put of the port.
LEMMA PutEdgeIsPut ==
    ASSUME StoresTyped, NEW id \in EdgeIds, NEW edge \in EdgeData,
           PutEdge(id, edge) \/ PutEdgeEvicts(id, edge)
    PROVE  Port!PutEdge(id, edge)
<1>1. /\ edges \in Stores(EdgeIds, EdgeData) /\ generation + 1 \in Nat
      /\ nodes' = nodes /\ EdgeCapacity # 0
  BY LruAssumption DEF StoresTyped, PutEdge, PutEdgeEvicts
<1>2. /\ Port!EdgeStore!Present(Values(edges)) = Cached(edges)
      /\ (Values(edges)[id] = Absent) <=> (edges[id] = Absent)
  BY <1>1, ValuesOf, EntriesPresent, StorageAssumption DEF Port!EdgeStore!Present
<1>3. Port!EdgeStore!Cardinality(Cached(edges)) = Cardinality(Cached(edges))
  BY SameCardinality
<1> DEFINE e == Entry(edge, generation + 1)
<1>4. e \in Entries(EdgeData) /\ e # Absent /\ e.value = edge
  BY NewEntries, EntriesPresent DEF Entry
<1>5. Values(edges') \in Port!EdgeStore!PutResults(Values(edges), id, edge)
  <2>1. CASE PutEdge(id, edge)
    <3>1. edges' = [edges EXCEPT ![id] = e]
      BY <2>1 DEF PutEdge, next_generation
    <3>2. Values([edges EXCEPT ![id] = e]) = [Values(edges) EXCEPT ![id] = edge]
      <4> HIDE DEF e
      <4> QED BY <1>1, <1>4, ValuesStored
    <3>3. edges[id] # Absent \/ Cardinality(Cached(edges)) < EdgeCapacity
      BY <2>1 DEF PutEdge, HasRoom
    <3> QED
      BY <1>1, <1>2, <1>3, <3>1, <3>2, <3>3 DEF Port!EdgeStore!PutResults
  <2>2. CASE PutEdgeEvicts(id, edge)
    <3>1. PICK victim \in Cached(edges) :
             edges' = [edges EXCEPT ![victim] = Absent, ![id] = e]
      BY <2>2 DEF PutEdgeEvicts, Oldest, next_generation
    <3>2. victim \in EdgeIds
      BY <1>1 DEF Stores, Cached
    <3>3. Values([edges EXCEPT ![victim] = Absent, ![id] = e])
             = [Values(edges) EXCEPT ![victim] = Absent, ![id] = edge]
      <4> HIDE DEF e
      <4> QED BY <1>1, <1>4, <3>2, ValuesReplaced
    <3>4. ~(edges[id] # Absent \/ Cardinality(Cached(edges)) < EdgeCapacity)
      BY <2>2 DEF PutEdgeEvicts, HasRoom
    <3> QED
      BY <1>1, <1>2, <1>3, <3>1, <3>3, <3>4 DEF Port!EdgeStore!PutResults
  <2> QED
    BY <2>1, <2>2
<1>6. Values(nodes') = Values(nodes)
  BY <1>1
<1>7. PortCache' = [nodes |-> Values(nodes'), edges |-> Values(edges')]
  BY DEF PortCache, Values
<1>8. PortCache' = [PortCache EXCEPT !.edges = Values(edges')]
  BY <1>6, <1>7, CacheRecords DEF PortCache
<1>9. PortCache.edges = Values(edges)
  BY DEF PortCache
<1> QED
  BY <1>5, <1>8, <1>9 DEF Port!PutEdge, Port!EdgeStore!PutEdge, PortCache

LEMMA InvalidateEdgeIsInvalidate ==
    ASSUME StoresTyped, NEW id \in EdgeIds, InvalidateEdge(id)
    PROVE  Port!InvalidateEdge(id)
<1>1. edges' = [edges EXCEPT ![id] = Absent] /\ nodes' = nodes /\ edges \in Stores(EdgeIds, EdgeData)
  BY DEF InvalidateEdge, StoresTyped
<1>2. Values(edges') = [Values(edges) EXCEPT ![id] = Absent]
  BY <1>1, ValuesDropped
<1>3. PortCache' = [nodes |-> Values(nodes'), edges |-> Values(edges')]
  BY DEF PortCache, Values
<1>4. PortCache' = [PortCache EXCEPT !.edges[id] = Absent]
  BY <1>1, <1>2, <1>3, CacheRecords DEF PortCache
<1> QED
  BY <1>4 DEF Port!InvalidateEdge, Port!EdgeStore!InvalidateEdge, PortCache

LEMMA EmptyIsEmpty ==
    ASSUME nodes = [id \in NodeIds |-> Absent], edges = [id \in EdgeIds |-> Absent]
    PROVE  PortCache = Port!NodeStore!EmptyCache
BY DEF PortCache, Values, Port!NodeStore!EmptyCache, Port!NodeStore!NoNodes,
       Port!NodeStore!NoEdges, Port!NodeStore!NodeIds, Port!NodeStore!EdgeIds, NodeIds, EdgeIds

LEMMA ClearIsClear ==
    ASSUME Clear
    PROVE  Port!Clear
BY DEF Clear, Port!Clear, Values, Port!NodeStore!EmptyCache, Port!NodeStore!NoNodes,
       Port!NodeStore!NoEdges, Port!NodeStore!NodeIds, Port!NodeStore!EdgeIds, NodeIds, EdgeIds

\* Every step of LruCache is a step of the port or changes nothing it sees.
LEMMA NextIsNext ==
    ASSUME StoresTyped, [Next]_vars
    PROVE  [Port!Next]_PortCache
<1>1. ASSUME NEW id \in NodeIds, NodeStep(id)
      PROVE  Port!Next \/ UNCHANGED PortCache
  BY <1>1, GetNodeStutters, PutNodeIsPut, InvalidateNodeIsInvalidate DEF NodeStep, Port!Next, Port!NodeIds, NodeIds
<1>2. ASSUME NEW id \in EdgeIds, EdgeStep(id)
      PROVE  Port!Next \/ UNCHANGED PortCache
  <2>1. EdgesInUse \subseteq EdgeData
    BY LruAssumption
  <2> QED
    BY <1>2, <2>1, GetEdgeStutters, PutEdgeIsPut, InvalidateEdgeIsInvalidate
       DEF EdgeStep, Port!Next, Port!EdgeIds, EdgeIds, Port!EdgeData, EdgeData, Port!NodeIds, NodeIds
<1>3. CASE UNCHANGED vars
  BY <1>3 DEF vars, PortCache, Values
<1> QED
  BY <1>1, <1>2, <1>3, ClearIsClear DEF Next, Port!Next

\* LruCache keeps the promise of CachePort that LayeredDb relies on: a read
\* returns what was last put and not invalidated, or nothing, and a put loses
\* at most one other entry, of a full store.
THEOREM LruImplementsPort == Spec => ImplementsPort
<1>1. Init => Port!Init
  BY EmptyIsEmpty DEF Init, Port!Init, PortCache
<1>2. CacheInv /\ [Next]_vars => [Port!Next]_PortCache
  BY NextIsNext DEF CacheInv
<1> QED
  BY <1>1, <1>2, InitCacheInv, NextCacheInv, PTL DEF Spec, ImplementsPort, Port!Spec, PortCache
=============================================================================
