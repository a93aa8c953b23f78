-------------------------- MODULE LayeredDb_proofs --------------------------
(***************************************************************************)
(* Theorems about LayeredDb, for every value of its constants as far as    *)
(* the assumption that each theorem names.  First about its log; then that *)
(* its memory agrees with the log: the engine, the cache and the indexes   *)
(* hold what a replay of the log would rebuild, or during a commit will    *)
(* rebuild, and no live edge dangles; last, that LayeredDb implements      *)
(* GraphStore.                                                             *)
(***************************************************************************)
EXTENDS LayeredDbStore, FiniteSetTheorems, WellFoundedInduction, TLAPS

-----------------------------------------------------------------------------
(* What each operator returns.                                             *)

LEMMA NoMaps == NoNodes \in NodeMap /\ NoEdges \in EdgeMap
BY DEF NoNodes, NoEdges, NodeMap, EdgeMap

LEMMA FreshBufferType ==
    ASSUME NEW b \in BOOLEAN, NEW t \in Nat
    PROVE  FreshBuffer(b, t) \in Buffer
BY NoMaps DEF FreshBuffer, Buffer

LEMMA NoBufferType == NoBuffer \in Buffer
BY FreshBufferType DEF NoBuffer

LEMMA EmptyDiskType == EmptyDisk \in Disk
BY NoMaps, NoBufferType DEF EmptyDisk, Disk

\* A record keeps the log a log.
LEMMA SaveNodeType ==
    ASSUME NEW d \in Disk, NEW id \in NodeIds, NEW node \in NodeData
    PROVE  SaveNode(d, id, node) \in Disk
BY DEF SaveNode, Disk, Buffer, NodeMap

LEMMA SaveEdgeType ==
    ASSUME NEW d \in Disk, NEW id \in EdgeIds, NEW edge \in EdgeData
    PROVE  SaveEdge(d, id, edge) \in Disk
BY DEF SaveEdge, Disk, Buffer, EdgeMap

LEMMA DeleteNodeType ==
    ASSUME NEW d \in Disk, NEW id \in NodeIds
    PROVE  DeleteNode(d, id) \in Disk
BY DEF DeleteNode, Disk, Buffer, NodeMap

LEMMA DeleteEdgeType ==
    ASSUME NEW d \in Disk, NEW id \in EdgeIds
    PROVE  DeleteEdge(d, id) \in Disk
BY DEF DeleteEdge, Disk, Buffer, EdgeMap

LEMMA MarkerTypes ==
    ASSUME NEW d \in Disk, NEW t \in Nat
    PROVE  /\ BeginTxn(d, t) \in Disk
           /\ CommitTxn(d, t) \in Disk
           /\ RollbackTxn(d) \in Disk
           /\ CompactLog(d) \in Disk
<1>1. BeginTxn(d, t) \in Disk
  BY FreshBufferType DEF BeginTxn, Disk
<1>2. AppliedNodes(d) \in NodeMap /\ AppliedEdges(d) \in EdgeMap
  BY DEF AppliedNodes, AppliedEdges, Disk, Buffer, NodeMap, EdgeMap
<1>3. CommitTxn(d, t) \in Disk
  BY <1>2, NoBufferType DEF CommitTxn, Disk
<1>4. RollbackTxn(d) \in Disk /\ CompactLog(d) \in Disk
  BY NoBufferType DEF RollbackTxn, CompactLog, Disk
<1> QED
  BY <1>1, <1>3, <1>4

LEMMA EmptyEngineType == EmptyEngine \in Engine
BY NoMaps DEF EmptyEngine, Engine

LEMMA EngineInsertNodeType ==
    ASSUME NEW g \in Engine, NEW id \in NodeIds
    PROVE  EngineInsertNode(g, id) \in Engine
BY DEF EngineInsertNode, Engine

LEMMA EngineInsertEdgeType ==
    ASSUME NEW g \in Engine, NEW id \in EdgeIds, NEW edge \in EdgeData
    PROVE  EngineInsertEdge(g, id, edge) \in Engine
<1>1. <<edge.src, id, edge.tgt>> \in Arc /\ <<edge.tgt, id, edge.src>> \in Arc
  BY DEF Arc, EdgeData
<1> QED
  BY <1>1 DEF EngineInsertEdge, Engine, EdgeMap, EdgeData

LEMMA EngineRemoveEdgeType ==
    ASSUME NEW g \in Engine, NEW id \in EdgeIds
    PROVE  EngineRemoveEdge(g, id) \in Engine
BY DEF EngineRemoveEdge, Engine, EdgeMap

LEMMA EngineRemoveNodeType ==
    ASSUME NEW g \in Engine, NEW id \in NodeIds
    PROVE  EngineRemoveNode(g, id) \in Engine
BY DEF EngineRemoveNode, Engine, EdgeMap

LEMMA IncidentEdgesType ==
    ASSUME NEW g \in Engine, NEW id \in NodeIds
    PROVE  IncidentEdges(g, id) \subseteq EdgeIds
BY DEF IncidentEdges, NeighborsOutgoing, NeighborsIncoming, Engine, Arc

LEMMA EngineOfType ==
    ASSUME NEW d \in Disk
    PROVE  EngineOf(d) \in Engine
<1>1. \A e \in LiveEdges(d) : e \in EdgeIds /\ d.edges[e] \in EdgeData
  BY DEF LiveEdges, Disk, EdgeMap
<1>2. \A e \in LiveEdges(d) : d.edges[e].src \in NodeIds /\ d.edges[e].tgt \in NodeIds
  BY <1>1 DEF EdgeData
<1>3. LiveNodes(d) \subseteq NodeIds /\ d.edges \in EdgeMap
  BY DEF LiveNodes, Disk
<1> QED
  BY <1>1, <1>2, <1>3 DEF EngineOf, Engine, Arc

LEMMA LabelTypes ==
    ASSUME NEW x \in LabelIndex, NEW id \in NodeIds, NEW l \in Labels
    PROVE  LabelInsert(x, id, l) \in LabelIndex /\ LabelRemove(x, id, l) \in LabelIndex
BY DEF LabelInsert, LabelRemove, LabelIndex

LEMMA PropertyTypes ==
    ASSUME NEW x \in PropertyIndex, NEW id \in NodeIds, NEW f \in SUBSET Fields
    PROVE  PropertyInsert(x, id, f) \in PropertyIndex
           /\ PropertyRemove(x, id, f) \in PropertyIndex
BY DEF PropertyInsert, PropertyRemove, PropertyIndex

LEMMA IndexOfTypes ==
    ASSUME NEW d \in Disk
    PROVE  LabelIndexOf(d) \in LabelIndex /\ PropertyIndexOf(d) \in PropertyIndex
<1>1. LabelIndexOf(d) \in LabelIndex
  BY DEF LabelIndexOf, LabelIndex
<1>2. \A id \in LiveNodes(d) : id \in NodeIds /\ Indexable(d.nodes[id]) \subseteq Fields
  BY IndexAssumption DEF LiveNodes, Indexable
<1>3. PropertyIndexOf(d) \in PropertyIndex
  BY <1>2 DEF PropertyIndexOf, PropertyIndex
<1> QED
  BY <1>1, <1>3

LEMMA NodeDataTypes ==
    ASSUME NEW node \in NodeData
    PROVE  /\ node.label \in Labels
           /\ node.fields \in SUBSET Fields
           /\ Indexable(node) \in SUBSET Fields
BY StorageAssumption, IndexAssumption DEF Indexable

LEMMA EmptyCacheType == EmptyCache \in Cache
BY NoMaps DEF EmptyCache, Cache

LEMMA PutNodeType ==
    ASSUME NEW c \in Cache, NEW id \in NodeIds, NEW node \in NodeData,
           NEW r \in PutNode(c, id, node)
    PROVE  r \in Cache
<1>1. \A m \in PutResults(c.nodes, id, node) : m \in NodeMap
  BY DEF PutResults, Cache, NodeMap, Present
<1> QED
  BY <1>1 DEF PutNode, Cache

LEMMA PutEdgeType ==
    ASSUME NEW c \in Cache, NEW id \in EdgeIds, NEW edge \in EdgeData,
           NEW r \in PutEdge(c, id, edge)
    PROVE  r \in Cache
<1>1. \A m \in PutResults(c.edges, id, edge) : m \in EdgeMap
  BY DEF PutResults, Cache, EdgeMap, Present
<1> QED
  BY <1>1 DEF PutEdge, Cache

LEMMA InvalidateTypes ==
    ASSUME NEW c \in Cache
    PROVE  /\ \A id \in NodeIds : InvalidateNode(c, id) \in Cache
           /\ \A id \in EdgeIds : InvalidateEdge(c, id) \in Cache
BY DEF InvalidateNode, InvalidateEdge, Cache, NodeMap, EdgeMap

-----------------------------------------------------------------------------
(* Types of the actions' shared pieces, in a state that satisfies TypeOK.  *)

LEMMA OnWriteType ==
    ASSUME TypeOK, NEW d \in Disk, NEW c \in Cache, OnWrite(d, c)
    PROVE  /\ disk' \in Disk
           /\ cache' \in Cache
           /\ writes' \in Nat
           /\ faults' \in 0 .. MaxFaults
           /\ damage' \in {"none", "memory", "log"}
<1>1. CompactLog(d) \in Disk
  BY MarkerTypes
<1>2. EmptyCache \in Cache
  BY EmptyCacheType
<1>3. CASE UNCHANGED faults
  BY <1>1, <1>2, <1>3 DEF OnWrite, TypeOK, AfterAppend
<1>4. CASE Fault
  BY <1>1, <1>2, <1>4, DbAssumption DEF OnWrite, TypeOK, AfterAppend, Fault, CanFault
<1> QED
  BY <1>3, <1>4 DEF OnWrite

LEMMA FaultType ==
    ASSUME TypeOK, Fault
    PROVE  faults' \in 0 .. MaxFaults
BY DbAssumption DEF TypeOK, Fault, CanFault

LEMMA NodeReadsType ==
    ASSUME TypeOK, NEW id \in NodeIds, NEW r \in NodeReads(id)
    PROVE  r.value \in NodeData \cup {Absent} /\ r.cache \in Cache
<1>1. CASE cache.nodes[id] # Absent
  BY <1>1 DEF NodeReads, TypeOK, Cache, NodeMap
<1>2. CASE cache.nodes[id] = Absent /\ disk.nodes[id] # Absent
  <2>1. disk.nodes[id] \in NodeData
    BY <1>2 DEF TypeOK, Disk, NodeMap
  <2>2. \A c \in PutNode(cache, id, disk.nodes[id]) : c \in Cache
    BY <2>1, PutNodeType DEF TypeOK
  <2> QED
    BY <1>2, <2>1, <2>2 DEF NodeReads
<1>3. CASE cache.nodes[id] = Absent /\ disk.nodes[id] = Absent
  BY <1>3 DEF NodeReads, TypeOK
<1> QED
  BY <1>1, <1>2, <1>3

LEMMA IndexNodeType ==
    ASSUME TypeOK, NEW id \in NodeIds, NEW node \in NodeData,
           NEW fields \in SUBSET Fields, IndexNode(id, node, fields)
    PROVE  engine' \in Engine /\ labels' \in LabelIndex /\ props' \in PropertyIndex
BY EngineInsertNodeType, LabelTypes, PropertyTypes, NodeDataTypes
   DEF TypeOK, IndexNode

LEMMA UnindexNodeType ==
    ASSUME TypeOK, NEW id \in NodeIds, NEW found \in NodeData \cup {Absent},
           UnindexNode(id, found)
    PROVE  labels' \in LabelIndex /\ props' \in PropertyIndex
BY LabelTypes, PropertyTypes, NodeDataTypes DEF TypeOK, UnindexNode

LEMMA NoHandleType ==
    ASSUME NEW status \in {"unused", "open", "committed", "failed", "rolledBack"}
    PROVE  NoHandle(status) \in Handle
BY StorageAssumption DEF NoHandle, Handle, Generator

LEMMA NoCallType == NoCall \in Call
BY DEF Call

LEMMA CommittingType ==
    ASSUME NEW t \in TxnIds, NEW k \in Nat \ {0}
    PROVE  Committing(t, k) \in Call
BY DEF Committing, NoCall, Call

LEMMA DeletingType ==
    ASSUME TypeOK, NEW id \in NodeIds, NEW t \in 0 .. MaxTxns, NEW k \in Nat
    PROVE  Deleting(id, t, k) \in Call
BY IncidentEdgesType DEF TypeOK, Deleting, Call

\* What the three kinds of call carry.
LEMMA CallShape ==
    ASSUME TypeOK
    PROVE  /\ call.pc = "deleting" =>
                /\ call.node \in NodeIds /\ call.incident \in SUBSET EdgeIds
                /\ call.txn \in 0 .. MaxTxns /\ call.k \in Nat
           /\ call.pc = "committing" => call.txn \in TxnIds /\ call.k \in Nat \ {0}
           /\ call.pc \in {"idle", "deleting", "committing"}
           /\ call.pc = "idle" => call = NoCall
BY DEF TypeOK, Call, NoCall

LEMMA ReturnErrorType ==
    ASSUME TypeOK, ReturnError
    PROVE  call' \in Call /\ txns' \in [TxnIds -> Handle]
<1>1. call' \in Call
  BY NoCallType DEF ReturnError
<1>2. txns' \in [TxnIds -> Handle]
  BY NoHandleType DEF ReturnError, TypeOK
<1> QED
  BY <1>1, <1>2

LEMMA StagedOpType ==
    ASSUME NEW op \in StagedOp
    PROVE  /\ op.kind = "InsertNode" => op.id \in NodeIds /\ op.node \in NodeData
           /\ op.kind = "InsertEdge" => op.id \in EdgeIds /\ op.edge \in EdgeData
           /\ op.kind = "DeleteNode" => op.id \in NodeIds
           /\ op.kind = "DeleteEdge" => op.id \in EdgeIds
BY DEF StagedOp, InsertNodeOps, InsertEdgeOps, DeleteNodeOps, DeleteEdgeOps

\* The next operation of a commit is one that was staged.
LEMMA OpType ==
    ASSUME TypeOK, NEW kind, AtOp(kind)
    PROVE  Op \in StagedOp /\ Op.kind = kind
<1>1. call.txn \in TxnIds /\ call.k \in Nat \ {0}
  BY CallShape DEF AtOp
<1>2. Ops \in Seq(StagedOp)
  BY <1>1 DEF Ops, TypeOK, Handle
<1>3. call.k \in 1 .. Len(Ops)
  BY <1>1, <1>2 DEF AtOp
<1> QED
  BY <1>2, <1>3 DEF AtOp, Op

LEMMA NextOpType ==
    ASSUME TypeOK, NEW kind, AtOp(kind), NextOp
    PROVE  call' \in Call
BY CallShape DEF TypeOK, AtOp, NextOp, Call, NoCall

-----------------------------------------------------------------------------
(* TypeOK is inductive.                                                    *)

LEMMA GeneratorType ==
    ASSUME NEW n \in 0 .. MaxNodes, NEW e \in 0 .. MaxEdges
    PROVE  [node |-> n, edge |-> e] \in Generator
BY DEF Generator

LEMMA InitType == Init => TypeOK
<1> SUFFICES ASSUME Init PROVE TypeOK
  OBVIOUS
<1>1. disk \in Disk /\ cache \in Cache /\ engine \in Engine
  BY EmptyDiskType, EmptyCacheType, EmptyEngineType DEF Init
<1>2. labels \in LabelIndex /\ props \in PropertyIndex
  BY DEF Init, EmptyLabelIndex, LabelIndex, EmptyPropertyIndex, PropertyIndex
<1>3. gen \in Generator
  BY GeneratorType, StorageAssumption DEF Init
<1>4. txns \in [TxnIds -> Handle] /\ nextTxn \in Nat /\ call \in Call
  BY NoHandleType, NoCallType DEF Init
<1>5. writes \in Nat /\ faults \in 0 .. MaxFaults /\ crashes \in 0 .. MaxCrashes
      /\ damage \in {"none", "memory", "log"}
  BY DbAssumption DEF Init
<1> QED
  BY <1>1, <1>2, <1>3, <1>4, <1>5 DEF TypeOK

LEMMA DirectStepType == TypeOK /\ DirectStep => TypeOK'
<1> SUFFICES ASSUME TypeOK, DirectStep PROVE TypeOK'
  OBVIOUS
<1>1. ASSUME NEW node \in NodeData, InsertNode(node) PROVE TypeOK'
  <2>1. gen.node \in NodeIds /\ gen' \in Generator
    BY <1>1, StorageAssumption DEF InsertNode, TypeOK, Generator, NodeIds
  <2>2. engine' \in Engine /\ labels' \in LabelIndex /\ props' \in PropertyIndex
    BY <1>1, <2>1, NodeDataTypes, IndexNodeType DEF InsertNode
  <2>3. PICK c \in PutNode(cache, gen.node, node) :
            OnWrite(SaveNode(disk, gen.node, node), c)
    BY <1>1 DEF InsertNode
  <2>4. c \in Cache /\ SaveNode(disk, gen.node, node) \in Disk
    BY <2>1, PutNodeType, SaveNodeType DEF TypeOK
  <2> QED
    BY <1>1, <2>1, <2>2, <2>3, <2>4, OnWriteType DEF InsertNode, TypeOK
<1>2. ASSUME InsertNodeFails PROVE TypeOK'
  BY <1>2, FaultType, StorageAssumption DEF InsertNodeFails, TypeOK, Generator
<1>3. ASSUME NEW edge \in EdgeData, InsertEdge(edge) PROVE TypeOK'
  <2>1. gen.edge \in EdgeIds /\ gen' \in Generator
    BY <1>3, StorageAssumption DEF InsertEdge, TypeOK, Generator, EdgeIds
  <2>2. engine' \in Engine
    BY <1>3, <2>1, EngineInsertEdgeType DEF InsertEdge, TypeOK
  <2>3. PICK c \in PutEdge(cache, gen.edge, edge) :
            OnWrite(SaveEdge(disk, gen.edge, edge), c)
    BY <1>3 DEF InsertEdge
  <2>4. c \in Cache /\ SaveEdge(disk, gen.edge, edge) \in Disk
    BY <2>1, PutEdgeType, SaveEdgeType DEF TypeOK
  <2> QED
    BY <1>3, <2>1, <2>2, <2>3, <2>4, OnWriteType DEF InsertEdge, TypeOK
<1>4. ASSUME NEW edge \in EdgeData, InsertEdgeFails(edge) PROVE TypeOK'
  BY <1>4, FaultType, StorageAssumption DEF InsertEdgeFails, TypeOK, Generator
<1>5. ASSUME NEW id \in EdgeIds, DirectDeleteEdge(id) PROVE TypeOK'
  BY <1>5, DeleteEdgeType, InvalidateTypes, EngineRemoveEdgeType, OnWriteType
     DEF DirectDeleteEdge, RemoveEdge, TypeOK
<1>6. ASSUME NEW id \in EdgeIds, GetEdge(id) PROVE TypeOK'
  <2>1. disk.edges[id] \in EdgeData
    BY <1>6 DEF GetEdge, TypeOK, Disk, EdgeMap
  <2>2. cache' \in Cache
    BY <1>6, <2>1, PutEdgeType DEF GetEdge, TypeOK
  <2> QED
    BY <1>6, <2>2 DEF GetEdge, TypeOK
<1>7. ASSUME NEW id \in NodeIds, DirectDeleteNode(id) PROVE TypeOK'
  BY <1>7, DeletingType, DbAssumption DEF DirectDeleteNode, TypeOK, memory, handles
<1>8. ASSUME NEW id \in NodeIds, GetNode(id) PROVE TypeOK'
  BY <1>8, NodeReadsType DEF GetNode, TypeOK
<1>9. ASSUME Compact PROVE TypeOK'
  BY <1>9, MarkerTypes, EmptyCacheType DEF Compact, TypeOK
<1> QED
  BY <1>1, <1>2, <1>3, <1>4, <1>5, <1>6, <1>7, <1>8, <1>9 DEF DirectStep

LEMMA StagingStepType == TypeOK /\ StagingStep => TypeOK'
<1> SUFFICES ASSUME TypeOK, StagingStep PROVE TypeOK'
  OBVIOUS
<1>1. ASSUME BeginTransaction PROVE TypeOK'
  <2>1. [status |-> "open", ops |-> <<>>, idGen |-> gen] \in Handle
    BY DEF TypeOK, Handle
  <2> QED
    BY <1>1, <2>1 DEF BeginTransaction, TypeOK, memory
<1>2. ASSUME NEW t \in TxnIds, NEW op \in StagedOp, NEW g \in Generator, Stage(t, op, g)
      PROVE TypeOK'
  <2>1. txns[t] \in Handle
    BY DEF TypeOK
  <2>2. Append(txns[t].ops, op) \in Seq(StagedOp)
    BY <2>1 DEF Handle
  <2>3. [txns[t] EXCEPT !.ops = Append(txns[t].ops, op), !.idGen = g] \in Handle
    BY <2>1, <2>2 DEF Handle
  <2>4. txns' = [txns EXCEPT ![t] =
                   [txns[t] EXCEPT !.ops = Append(txns[t].ops, op), !.idGen = g]]
    BY <1>2 DEF Stage, TypeOK
  <2>5. txns' \in [TxnIds -> Handle]
    BY <2>3, <2>4 DEF TypeOK
  <2> QED
    BY <1>2, <2>5 DEF Stage, TypeOK, memory
<1>3. ASSUME NEW t \in TxnIds PROVE txns[t].idGen \in Generator
  BY DEF TypeOK, Handle
<1>4. ASSUME NEW t \in TxnIds, NEW node \in NodeData, StageInsertNode(t, node) PROVE TypeOK'
  <2>1. [txns[t].idGen EXCEPT !.node = @ + 1] \in Generator
        /\ txns[t].idGen.node \in NodeIds
    BY <1>3, <1>4, StorageAssumption DEF StageInsertNode, Generator, NodeIds
  <2>2. [kind |-> "InsertNode", id |-> txns[t].idGen.node, node |-> node] \in StagedOp
    BY <2>1 DEF StagedOp, InsertNodeOps
  <2> QED
    BY <1>2, <1>4, <2>1, <2>2 DEF StageInsertNode
<1>5. ASSUME NEW t \in TxnIds, NEW edge \in EdgeData, StageInsertEdge(t, edge) PROVE TypeOK'
  <2>1. [txns[t].idGen EXCEPT !.edge = @ + 1] \in Generator
        /\ txns[t].idGen.edge \in EdgeIds
    BY <1>3, <1>5, StorageAssumption DEF StageInsertEdge, Generator, EdgeIds
  <2>2. [kind |-> "InsertEdge", id |-> txns[t].idGen.edge, edge |-> edge] \in StagedOp
    BY <2>1 DEF StagedOp, InsertEdgeOps
  <2> QED
    BY <1>2, <1>5, <2>1, <2>2 DEF StageInsertEdge
<1>6. ASSUME NEW t \in TxnIds, NEW id \in NodeIds, StageDeleteNode(t, id) PROVE TypeOK'
  <2>1. [kind |-> "DeleteNode", id |-> id] \in StagedOp
    BY DEF StagedOp, DeleteNodeOps
  <2> QED
    BY <1>2, <1>3, <1>6, <2>1 DEF StageDeleteNode
<1>7. ASSUME NEW t \in TxnIds, NEW id \in EdgeIds, StageDeleteEdge(t, id) PROVE TypeOK'
  <2>1. [kind |-> "DeleteEdge", id |-> id] \in StagedOp
    BY DEF StagedOp, DeleteEdgeOps
  <2> QED
    BY <1>2, <1>3, <1>7, <2>1 DEF StageDeleteEdge
<1>8. ASSUME NEW t \in TxnIds, RollbackTransaction(t) PROVE TypeOK'
  BY <1>8, GeneratorType, NoHandleType DEF RollbackTransaction, TypeOK
<1>9. ASSUME NEW t \in TxnIds, CommitStart(t) PROVE TypeOK'
  <2>1. BeginTxn(disk, t) \in Disk
    BY MarkerTypes DEF TypeOK, TxnIds
  <2> QED
    BY <1>9, <2>1, CommittingType DEF CommitStart, TypeOK, memory, handles
<1>10. ASSUME NEW t \in TxnIds, CommitStartFails(t) PROVE TypeOK'
  BY <1>10, FaultType, NoHandleType DEF CommitStartFails, TypeOK, memory
<1> QED
  BY <1>1, <1>4, <1>5, <1>6, <1>7, <1>8, <1>9, <1>10 DEF StagingStep

LEMMA CallStepType == TypeOK /\ CallStep => TypeOK'
<1> SUFFICES ASSUME TypeOK, CallStep PROVE TypeOK'
  OBVIOUS
<1>1. ASSUME NEW id \in EdgeIds, DeleteIncidentEdge(id) PROVE TypeOK'
  <2>1. call' \in Call
    <3>1. call \in [pc : {"deleting"}, node : NodeIds, incident : SUBSET EdgeIds,
                    txn : 0 .. MaxTxns, k : Nat]
      BY <1>1 DEF DeleteIncidentEdge, TypeOK, Call, NoCall
    <3> QED
      BY <1>1, <3>1 DEF DeleteIncidentEdge, Call
  <2> QED
    BY <1>1, <2>1, DeleteEdgeType, InvalidateTypes
       DEF DeleteIncidentEdge, TypeOK, AfterAppend, handles
<1>2. ASSUME DeleteNodeFinish PROVE TypeOK'
  <2>1. call.node \in NodeIds /\ call.txn \in 0 .. MaxTxns /\ call.k \in Nat
    BY <1>2, CallShape DEF DeleteNodeFinish
  <2>2. call' \in Call
    <3>1. CASE call.txn = 0
      BY <1>2, <3>1, NoCallType DEF DeleteNodeFinish
    <3>2. CASE call.txn # 0
      <4>1. call.txn \in TxnIds /\ call.k + 1 \in Nat \ {0}
        BY <2>1, <3>2, DbAssumption DEF TxnIds
      <4> QED
        BY <1>2, <3>2, <4>1, CommittingType DEF DeleteNodeFinish
    <3> QED
      BY <3>1, <3>2
  <2>3. engine' \in Engine
    BY <1>2, <2>1, EngineRemoveNodeType DEF DeleteNodeFinish, TypeOK
  <2>4. PICK r \in NodeReads(call.node) :
            /\ UnindexNode(call.node, r.value)
            /\ OnWrite(DeleteNode(disk, call.node), InvalidateNode(r.cache, call.node))
    BY <1>2 DEF DeleteNodeFinish
  <2>5. r.value \in NodeData \cup {Absent} /\ r.cache \in Cache
    BY <2>1, <2>4, NodeReadsType
  <2>6. labels' \in LabelIndex /\ props' \in PropertyIndex
    BY <2>1, <2>4, <2>5, UnindexNodeType
  <2>7. /\ DeleteNode(disk, call.node) \in Disk
        /\ InvalidateNode(r.cache, call.node) \in Cache
    BY <2>1, <2>5, DeleteNodeType, InvalidateTypes DEF TypeOK
  <2> QED
    BY <1>2, <2>2, <2>3, <2>4, <2>6, <2>7, OnWriteType
       DEF DeleteNodeFinish, TypeOK, handles
<1>3. ASSUME CommitInsertNode PROVE TypeOK'
  <2>1. Op.id \in NodeIds /\ Op.node \in NodeData
    BY <1>3, OpType, StagedOpType DEF CommitInsertNode
  <2>2. gen' \in Generator
    BY <1>3, <2>1, StorageAssumption
       DEF CommitInsertNode, TypeOK, Generator, Seeded, NodeIds
  <2>3. engine' \in Engine /\ labels' \in LabelIndex /\ props' \in PropertyIndex
    BY <1>3, <2>1, NodeDataTypes, IndexNodeType DEF CommitInsertNode
  <2>4. disk' \in Disk /\ cache' \in Cache
    BY <1>3, <2>1, SaveNodeType, PutNodeType DEF CommitInsertNode, TypeOK
  <2>5. call' \in Call
    BY <1>3, NextOpType DEF CommitInsertNode
  <2> QED
    BY <1>3, <2>2, <2>3, <2>4, <2>5
       DEF CommitInsertNode, TypeOK, AfterAppend, handles
<1>4. ASSUME CommitInsertEdge PROVE TypeOK'
  <2>1. Op.id \in EdgeIds /\ Op.edge \in EdgeData
    BY <1>4, OpType, StagedOpType DEF CommitInsertEdge
  <2>2. gen' \in Generator
    BY <1>4, <2>1, StorageAssumption
       DEF CommitInsertEdge, TypeOK, Generator, Seeded, EdgeIds
  <2>3. engine' \in Engine
    BY <1>4, <2>1, EngineInsertEdgeType DEF CommitInsertEdge, TypeOK
  <2>4. disk' \in Disk /\ cache' \in Cache
    BY <1>4, <2>1, SaveEdgeType, PutEdgeType DEF CommitInsertEdge, TypeOK
  <2>5. call' \in Call
    BY <1>4, NextOpType DEF CommitInsertEdge
  <2> QED
    BY <1>4, <2>2, <2>3, <2>4, <2>5
       DEF CommitInsertEdge, TypeOK, AfterAppend, handles
<1>5. ASSUME CommitRejectEdge PROVE TypeOK'
  <2>1. disk' \in Disk /\ faults' \in 0 .. MaxFaults
    BY <1>5, MarkerTypes, FaultType DEF CommitRejectEdge, TypeOK
  <2>2. call' \in Call /\ txns' \in [TxnIds -> Handle]
    BY <1>5, ReturnErrorType DEF CommitRejectEdge
  <2> QED
    BY <1>5, <2>1, <2>2
       DEF CommitRejectEdge, TypeOK, memory, FailedCommitDamage, MemoryDamaged
<1>6. ASSUME CommitDeleteNode PROVE TypeOK'
  <2>1. Op.id \in NodeIds
    BY <1>6, OpType, StagedOpType DEF CommitDeleteNode
  <2>2. call.txn \in 0 .. MaxTxns /\ call.k \in Nat
    BY <1>6, CallShape DEF CommitDeleteNode, AtOp, TxnIds
  <2>3. call' \in Call
    BY <1>6, <2>1, <2>2, DeletingType DEF CommitDeleteNode
  <2> QED
    BY <1>6, <2>3 DEF CommitDeleteNode, TypeOK, memory, handles
<1>7. ASSUME CommitDeleteEdge PROVE TypeOK'
  <2>1. Op.id \in EdgeIds
    BY <1>7, OpType, StagedOpType DEF CommitDeleteEdge
  <2>2. call' \in Call
    BY <1>7, NextOpType DEF CommitDeleteEdge
  <2> QED
    BY <1>7, <2>1, <2>2, DeleteEdgeType, InvalidateTypes, EngineRemoveEdgeType,
       OnWriteType DEF CommitDeleteEdge, RemoveEdge, TypeOK, handles
<1>8. ASSUME CommitFinish PROVE TypeOK'
  <2>1. call.txn \in TxnIds /\ call.txn \in Nat
    BY <1>8, CallShape DEF CommitFinish, TxnIds
  <2>2. CommitTxn(disk, call.txn) \in Disk
    BY <2>1, MarkerTypes DEF TypeOK
  <2>3. txns' \in [TxnIds -> Handle] /\ call' \in Call
    BY <1>8, <2>1, NoHandleType, NoCallType DEF CommitFinish, TypeOK
  <2> QED
    BY <1>8, <2>2, <2>3, OnWriteType DEF CommitFinish, TypeOK
<1> QED
  BY <1>1, <1>2, <1>3, <1>4, <1>5, <1>6, <1>7, <1>8 DEF CallStep

LEMMA CallFailsType == TypeOK /\ CallFails => TypeOK'
<1> SUFFICES ASSUME TypeOK, CallFails PROVE TypeOK'
  OBVIOUS
<1>1. ASSUME DeleteNodeFailsEarly PROVE TypeOK'
  BY <1>1, FaultType, ReturnErrorType
     DEF DeleteNodeFailsEarly, TypeOK, memory, MemoryDamaged
<1>2. ASSUME DeleteNodeFailsLate PROVE TypeOK'
  <2>1. call.node \in NodeIds
    BY <1>2, CallShape DEF DeleteNodeFailsLate
  <2>2. PICK r \in NodeReads(call.node) :
            UnindexNode(call.node, r.value) /\ cache' = r.cache
    BY <1>2 DEF DeleteNodeFailsLate
  <2>3. labels' \in LabelIndex /\ props' \in PropertyIndex /\ cache' \in Cache
    BY <2>1, <2>2, NodeReadsType, UnindexNodeType
  <2> QED
    BY <1>2, <2>3, FaultType, ReturnErrorType
       DEF DeleteNodeFailsLate, TypeOK, MemoryDamaged
<1>3. ASSUME CommitFails PROVE TypeOK'
  BY <1>3, FaultType, ReturnErrorType
     DEF CommitFails, TypeOK, memory, FailedCommitDamage, MemoryDamaged
<1> QED
  BY <1>1, <1>2, <1>3 DEF CallFails

LEMMA CrashType == TypeOK /\ CrashAndReopen => TypeOK'
<1> SUFFICES ASSUME TypeOK, CrashAndReopen PROVE TypeOK'
  OBVIOUS
<1>1. engine' \in Engine /\ labels' \in LabelIndex /\ props' \in PropertyIndex
      /\ cache' \in Cache
  BY EngineOfType, IndexOfTypes, EmptyCacheType DEF CrashAndReopen, TypeOK
<1>2. gen' \in Generator
  BY GeneratorType DEF CrashAndReopen
<1>3. txns' \in [TxnIds -> Handle] /\ call' \in Call
  BY NoHandleType, NoCallType DEF CrashAndReopen
<1>4. crashes' \in 0 .. MaxCrashes
  BY DbAssumption DEF CrashAndReopen, TypeOK
<1> QED
  BY <1>1, <1>2, <1>3, <1>4 DEF CrashAndReopen, TypeOK

LEMMA NextType == TypeOK /\ [Next]_vars => TypeOK'
<1>1. TypeOK /\ UNCHANGED vars => TypeOK'
  BY DEF TypeOK, vars
<1> QED
  BY <1>1, DirectStepType, StagingStepType, CallStepType, CallFailsType, CrashType
     DEF Next

\* Every variable keeps its type, whatever the bounds and the configuration: no
\* step applies a record, an index or a generator to an id outside its range,
\* and a call in progress is always one that the next step can continue.
THEOREM TypeCorrect == Spec => []TypeOK
<1>1. Init => TypeOK
  BY InitType
<1>2. TypeOK /\ [Next]_vars => TypeOK'
  BY NextType
<1> QED
  BY <1>1, <1>2, PTL DEF Spec

-----------------------------------------------------------------------------
(* GeneratorAhead.  It is not inductive: the step that appends COMMIT_TXN  *)
(* makes the buffered upserts live.  While a transaction is committed, the *)
(* ids in the buffer must be below the generator as well.  They are, for   *)
(* BEGIN_TXN starts an empty buffer and each operation seeds the generator.*)
(* A buffer that is open outside a commit holds ids of which nothing is    *)
(* known; it is never applied, as the next commit begins by replacing it.  *)

LiveBelow(d, g) ==
    /\ \A id \in NodeIds : d.nodes[id] # Absent => id < g.node
    /\ \A id \in EdgeIds : d.edges[id] # Absent => id < g.edge

PendingBelow(d, g) ==
    d.buf.open =>
        /\ \A id \in NodeIds : d.buf.nIns[id] # Absent => id < g.node
        /\ \A id \in EdgeIds : d.buf.eIns[id] # Absent => id < g.edge

GeneratorInv ==
    /\ LiveBelow(disk, gen)
    /\ Markers /\ call.txn # 0 => PendingBelow(disk, gen)

\* The generator rises, or the log gains a record of an id below it.
LEMMA RaiseBelow ==
    ASSUME NEW d \in Disk, NEW g \in Generator, NEW h \in Generator,
           g.node =< h.node, g.edge =< h.edge
    PROVE  /\ LiveBelow(d, g) => LiveBelow(d, h)
           /\ PendingBelow(d, g) => PendingBelow(d, h)
BY DEF LiveBelow, PendingBelow, Generator, NodeIds, EdgeIds

LEMMA SaveNodeBelow ==
    ASSUME NEW d \in Disk, NEW g \in Generator, NEW id \in NodeIds,
           NEW node \in NodeData, id < g.node
    PROVE  /\ LiveBelow(d, g) => LiveBelow(SaveNode(d, id, node), g)
           /\ PendingBelow(d, g) => PendingBelow(SaveNode(d, id, node), g)
BY DEF LiveBelow, PendingBelow, SaveNode, Disk, Buffer, NodeMap

LEMMA SaveEdgeBelow ==
    ASSUME NEW d \in Disk, NEW g \in Generator, NEW id \in EdgeIds,
           NEW edge \in EdgeData, id < g.edge
    PROVE  /\ LiveBelow(d, g) => LiveBelow(SaveEdge(d, id, edge), g)
           /\ PendingBelow(d, g) => PendingBelow(SaveEdge(d, id, edge), g)
BY DEF LiveBelow, PendingBelow, SaveEdge, Disk, Buffer, EdgeMap

LEMMA DeletionsBelow ==
    ASSUME NEW d \in Disk, NEW g \in Generator
    PROVE  /\ \A id \in NodeIds :
                 /\ LiveBelow(d, g) => LiveBelow(DeleteNode(d, id), g)
                 /\ PendingBelow(d, g) => PendingBelow(DeleteNode(d, id), g)
           /\ \A id \in EdgeIds :
                 /\ LiveBelow(d, g) => LiveBelow(DeleteEdge(d, id), g)
                 /\ PendingBelow(d, g) => PendingBelow(DeleteEdge(d, id), g)
BY DEF LiveBelow, PendingBelow, DeleteNode, DeleteEdge, Disk, Buffer, NodeMap, EdgeMap

LEMMA CommitTxnBelow ==
    ASSUME NEW d \in Disk, NEW g \in Generator, NEW t \in Nat,
           LiveBelow(d, g), Markers => PendingBelow(d, g)
    PROVE  LiveBelow(CommitTxn(d, t), g)
<1>1. CASE Markers /\ d.buf.open /\ d.buf.txn = t
  BY <1>1 DEF LiveBelow, PendingBelow, CommitTxn, AppliedNodes, AppliedEdges
<1>2. CASE ~(Markers /\ d.buf.open /\ d.buf.txn = t)
  BY <1>2 DEF LiveBelow, CommitTxn, Disk
<1> QED
  BY <1>1, <1>2

\* on_write leaves the log as the write left it, or without its buffer.
LEMMA OnWriteDisk ==
    ASSUME NEW d \in Disk, NEW c, OnWrite(d, c)
    PROVE  /\ disk'.nodes = d.nodes /\ disk'.edges = d.edges
           /\ disk'.buf = d.buf \/ (AutoCompact /\ disk'.buf = NoBuffer)
BY DEF OnWrite, CompactLog, Disk

LEMMA OnWriteBelow ==
    ASSUME NEW d \in Disk, NEW c, OnWrite(d, c), NEW g
    PROVE  /\ LiveBelow(d, g) => LiveBelow(disk', g)
           /\ PendingBelow(d, g) => PendingBelow(disk', g)
BY OnWriteDisk DEF LiveBelow, PendingBelow, NoBuffer, FreshBuffer

LEMMA GeneratorInit == Init => GeneratorInv
BY DEF Init, GeneratorInv, LiveBelow, EmptyDisk, NoNodes, NoEdges, NoCall

LEMMA IdleNoTxn == TypeOK /\ Idle => call.txn = 0
BY CallShape DEF Idle, NoCall

LEMMA GeneratorDirect == TypeOK /\ GeneratorInv /\ DirectStep => GeneratorInv'
<1> SUFFICES ASSUME TypeOK, GeneratorInv, DirectStep PROVE GeneratorInv'
  OBVIOUS
<1>1. ASSUME LiveBelow(disk', gen'), Idle, call' = call PROVE GeneratorInv'
  BY <1>1, IdleNoTxn DEF GeneratorInv
<1>2. disk \in Disk /\ gen \in Generator /\ LiveBelow(disk, gen)
  BY DEF TypeOK, GeneratorInv
<1>3. ASSUME NEW node \in NodeData, InsertNode(node) PROVE GeneratorInv'
  <2>1. gen.node \in NodeIds /\ gen' \in Generator /\ gen.node < gen'.node
        /\ gen.node =< gen'.node /\ gen.edge =< gen'.edge
    BY <1>2, <1>3, StorageAssumption DEF InsertNode, Generator, NodeIds
  <2>2. LiveBelow(SaveNode(disk, gen.node, node), gen')
    BY <1>2, <2>1, RaiseBelow, SaveNodeBelow
  <2> QED
    BY <1>1, <1>2, <1>3, <2>1, <2>2, SaveNodeType, OnWriteBelow DEF InsertNode
<1>4. ASSUME NEW edge \in EdgeData, InsertEdge(edge) PROVE GeneratorInv'
  <2>1. gen.edge \in EdgeIds /\ gen' \in Generator /\ gen.edge < gen'.edge
        /\ gen.node =< gen'.node /\ gen.edge =< gen'.edge
    BY <1>2, <1>4, StorageAssumption DEF InsertEdge, Generator, EdgeIds
  <2>2. LiveBelow(SaveEdge(disk, gen.edge, edge), gen')
    BY <1>2, <2>1, RaiseBelow, SaveEdgeBelow
  <2> QED
    BY <1>1, <1>2, <1>4, <2>1, <2>2, SaveEdgeType, OnWriteBelow DEF InsertEdge
<1>5. ASSUME InsertNodeFails \/ \E edge \in EdgeData : InsertEdgeFails(edge)
      PROVE GeneratorInv'
  <2>1. gen' \in Generator /\ gen.node =< gen'.node /\ gen.edge =< gen'.edge
    BY <1>2, <1>5, StorageAssumption DEF InsertNodeFails, InsertEdgeFails, Generator
  <2> QED
    BY <1>1, <1>2, <1>5, <2>1, RaiseBelow DEF InsertNodeFails, InsertEdgeFails
<1>6. ASSUME NEW id \in EdgeIds, DirectDeleteEdge(id) PROVE GeneratorInv'
  BY <1>1, <1>2, <1>6, DeleteEdgeType, DeletionsBelow, OnWriteBelow
     DEF DirectDeleteEdge, RemoveEdge
<1>7. ASSUME NEW id \in EdgeIds, GetEdge(id) PROVE GeneratorInv'
  BY <1>1, <1>2, <1>7 DEF GetEdge
<1>8. ASSUME NEW id \in NodeIds, DirectDeleteNode(id) PROVE GeneratorInv'
  BY <1>2, <1>8 DEF DirectDeleteNode, GeneratorInv, Deleting, memory
<1>9. ASSUME NEW id \in NodeIds, GetNode(id) PROVE GeneratorInv'
  BY <1>1, <1>2, <1>9 DEF GetNode
<1>10. ASSUME Compact PROVE GeneratorInv'
  <2>1. LiveBelow(disk', gen')
    BY <1>2, <1>10 DEF Compact, CompactLog, LiveBelow, Disk
  <2> QED
    BY <1>1, <1>10, <2>1 DEF Compact
<1> QED
  BY <1>3, <1>4, <1>5, <1>6, <1>7, <1>8, <1>9, <1>10 DEF DirectStep

LEMMA GeneratorStaging == TypeOK /\ GeneratorInv /\ StagingStep => GeneratorInv'
<1> SUFFICES ASSUME TypeOK, GeneratorInv, StagingStep PROVE GeneratorInv'
  OBVIOUS
<1>1. ASSUME UNCHANGED <<disk, gen, call>> PROVE GeneratorInv'
  BY <1>1 DEF GeneratorInv, LiveBelow, PendingBelow
<1>2. ASSUME BeginTransaction PROVE GeneratorInv'
  BY <1>1, <1>2 DEF BeginTransaction, memory
<1>3. ASSUME NEW t \in TxnIds,
             \/ \E node \in NodeData : StageInsertNode(t, node)
             \/ \E edge \in EdgeData : StageInsertEdge(t, edge)
             \/ \E id \in NodeIds : StageDeleteNode(t, id)
             \/ \E id \in EdgeIds : StageDeleteEdge(t, id)
      PROVE GeneratorInv'
  BY <1>1, <1>3 DEF StageInsertNode, StageInsertEdge, StageDeleteNode,
                    StageDeleteEdge, Stage, memory
<1>4. ASSUME NEW t \in TxnIds, RollbackTransaction(t) PROVE GeneratorInv'
  <2>1. gen \in Generator /\ gen' \in Generator
    BY <1>4, GeneratorType DEF RollbackTransaction, TypeOK
  <2>2. gen.node =< gen'.node /\ gen.edge =< gen'.edge
    BY <1>4, <2>1 DEF RollbackTransaction, IsSeeded, Generator
  <2>3. LiveBelow(disk, gen')
    BY <2>1, <2>2, RaiseBelow DEF TypeOK, GeneratorInv
  <2> QED
    BY <1>4, <2>3, IdleNoTxn DEF RollbackTransaction, GeneratorInv
<1>5. ASSUME NEW t \in TxnIds, CommitStart(t) PROVE GeneratorInv'
  <2>1. LiveBelow(disk', gen') /\ (Markers => PendingBelow(disk', gen'))
    BY <1>5 DEF CommitStart, BeginTxn, FreshBuffer, NoNodes, NoEdges, memory,
                GeneratorInv, LiveBelow, PendingBelow, TypeOK, Disk
  <2> QED
    BY <2>1 DEF GeneratorInv
<1>6. ASSUME NEW t \in TxnIds, CommitStartFails(t) PROVE GeneratorInv'
  BY <1>1, <1>6 DEF CommitStartFails, memory
<1> QED
  BY <1>2, <1>3, <1>4, <1>5, <1>6 DEF StagingStep

LEMMA GeneratorCall == TypeOK /\ GeneratorInv /\ CallStep => GeneratorInv'
<1> SUFFICES ASSUME TypeOK, GeneratorInv, CallStep PROVE GeneratorInv'
  OBVIOUS
<1>1. disk \in Disk /\ gen \in Generator /\ LiveBelow(disk, gen)
  BY DEF TypeOK, GeneratorInv
<1>2. ASSUME NEW id \in EdgeIds, DeleteIncidentEdge(id) PROVE GeneratorInv'
  <2>1. call'.txn = call.txn
    BY <1>2 DEF DeleteIncidentEdge, TypeOK, Call, NoCall
  <2> QED
    BY <1>1, <1>2, <2>1, DeletionsBelow DEF DeleteIncidentEdge, GeneratorInv
<1>3. ASSUME DeleteNodeFinish PROVE GeneratorInv'
  <2>1. call.node \in NodeIds /\ (call'.txn # 0 => call.txn # 0)
    BY <1>3, CallShape DEF DeleteNodeFinish, NoCall
  <2>2. PICK c : OnWrite(DeleteNode(disk, call.node), c)
    BY <1>3 DEF DeleteNodeFinish
  <2> QED
    BY <1>1, <1>3, <2>1, <2>2, DeleteNodeType, DeletionsBelow, OnWriteBelow
       DEF DeleteNodeFinish, GeneratorInv
<1>4. ASSUME CommitInsertNode PROVE GeneratorInv'
  <2>1. Op.id \in NodeIds /\ Op.node \in NodeData
    BY <1>4, OpType, StagedOpType DEF CommitInsertNode
  <2>2. gen' \in Generator /\ gen.node =< gen'.node /\ gen.edge =< gen'.edge
        /\ Op.id < gen'.node
    BY <1>1, <1>4, <2>1, StorageAssumption
       DEF CommitInsertNode, Generator, Seeded, NodeIds
  <2>3. call'.txn = call.txn
    BY <1>4 DEF CommitInsertNode, NextOp, TypeOK, Call, NoCall
  <2> QED
    BY <1>1, <1>4, <2>1, <2>2, <2>3, RaiseBelow, SaveNodeBelow
       DEF CommitInsertNode, GeneratorInv
<1>5. ASSUME CommitInsertEdge PROVE GeneratorInv'
  <2>1. Op.id \in EdgeIds /\ Op.edge \in EdgeData
    BY <1>5, OpType, StagedOpType DEF CommitInsertEdge
  <2>2. gen' \in Generator /\ gen.node =< gen'.node /\ gen.edge =< gen'.edge
        /\ Op.id < gen'.edge
    BY <1>1, <1>5, <2>1, StorageAssumption
       DEF CommitInsertEdge, Generator, Seeded, EdgeIds
  <2>3. call'.txn = call.txn
    BY <1>5 DEF CommitInsertEdge, NextOp, TypeOK, Call, NoCall
  <2> QED
    BY <1>1, <1>5, <2>1, <2>2, <2>3, RaiseBelow, SaveEdgeBelow
       DEF CommitInsertEdge, GeneratorInv
<1>6. ASSUME CommitRejectEdge PROVE GeneratorInv'
  <2>1. LiveBelow(disk', gen') /\ call'.txn = 0
    BY <1>1, <1>6 DEF CommitRejectEdge, ReturnError, NoCall, RollbackTxn, memory,
                      LiveBelow, Disk
  <2> QED
    BY <2>1 DEF GeneratorInv
<1>7. ASSUME CommitDeleteNode PROVE GeneratorInv'
  BY <1>7 DEF CommitDeleteNode, Deleting, memory, GeneratorInv, LiveBelow, PendingBelow
<1>8. ASSUME CommitDeleteEdge PROVE GeneratorInv'
  <2>1. Op.id \in EdgeIds
    BY <1>8, OpType, StagedOpType DEF CommitDeleteEdge
  <2>2. call'.txn = call.txn
    BY <1>8 DEF CommitDeleteEdge, NextOp, TypeOK, Call, NoCall
  <2> QED
    BY <1>1, <1>8, <2>1, <2>2, DeleteEdgeType, DeletionsBelow, OnWriteBelow
       DEF CommitDeleteEdge, RemoveEdge, GeneratorInv
<1>9. ASSUME CommitFinish PROVE GeneratorInv'
  <2>1. call.txn \in TxnIds /\ call.txn \in Nat /\ call.txn # 0 /\ call'.txn = 0
    BY <1>9, CallShape DEF CommitFinish, TxnIds, NoCall
  <2>2. CommitTxn(disk, call.txn) \in Disk
    BY <1>1, <2>1, MarkerTypes
  <2>3. LiveBelow(CommitTxn(disk, call.txn), gen)
    BY <1>1, <2>1, CommitTxnBelow DEF GeneratorInv
  <2> QED
    BY <1>9, <2>1, <2>2, <2>3, OnWriteBelow DEF CommitFinish, GeneratorInv
<1> QED
  BY <1>2, <1>3, <1>4, <1>5, <1>6, <1>7, <1>8, <1>9 DEF CallStep

LEMMA GeneratorCallFails == TypeOK /\ GeneratorInv /\ CallFails => GeneratorInv'
<1> SUFFICES ASSUME TypeOK, GeneratorInv, CallFails PROVE GeneratorInv'
  OBVIOUS
<1>1. UNCHANGED <<disk, gen>> /\ call'.txn = 0
  BY DEF CallFails, DeleteNodeFailsEarly, DeleteNodeFailsLate, CommitFails,
         ReturnError, NoCall, memory
<1> QED
  BY <1>1 DEF GeneratorInv, LiveBelow

\* A new process is seeded from what the replay finds, and is in no commit.
LEMMA GeneratorCrash == TypeOK /\ GeneratorInv /\ CrashAndReopen => GeneratorInv'
<1> SUFFICES ASSUME TypeOK, CrashAndReopen PROVE GeneratorInv'
  OBVIOUS
<1>1. PICK n \in 0 .. MaxNodes, e \in 0 .. MaxEdges :
          /\ IsSeeded(n, 0, LiveNodes(disk))
          /\ IsSeeded(e, 0, LiveEdges(disk))
          /\ gen' = [node |-> n, edge |-> e]
  BY DEF CrashAndReopen
<1>2. LiveBelow(disk, gen')
  BY <1>1 DEF IsSeeded, LiveBelow, LiveNodes, LiveEdges
<1> QED
  BY <1>2 DEF CrashAndReopen, GeneratorInv, LiveBelow, NoCall

LEMMA GeneratorNext == TypeOK /\ GeneratorInv /\ [Next]_vars => GeneratorInv'
<1>1. GeneratorInv /\ UNCHANGED vars => GeneratorInv'
  BY DEF GeneratorInv, LiveBelow, PendingBelow, vars
<1> QED
  BY <1>1, GeneratorDirect, GeneratorStaging, GeneratorCall, GeneratorCallFails,
     GeneratorCrash DEF Next

\* No live node or edge has an id that the generator has yet to hand out,
\* whether it was inserted directly, committed by a transaction with its own
\* generator, or found in the log by a new process.
THEOREM GeneratorStaysAhead == Spec => []GeneratorAhead
<1>1. Init => GeneratorInv
  BY GeneratorInit
<1>2. TypeOK /\ GeneratorInv /\ [Next]_vars => GeneratorInv'
  BY GeneratorNext
<1>3. GeneratorInv => GeneratorAhead
  BY DEF GeneratorInv, LiveBelow, GeneratorAhead, LiveNodes, LiveEdges
<1> QED
  BY <1>1, <1>2, <1>3, TypeCorrect, PTL DEF Spec

-----------------------------------------------------------------------------
(* CommitAtomic, for an adapter that writes markers and without automatic  *)
(* compaction.  A commit runs inside the buffer that its BEGIN_TXN opened, *)
(* which keeps its records from the live maps.                             *)

InsideBuffer == call.txn # 0 => disk.buf.open

CommitAtomicStep ==
    call.txn # 0 /\ ~CommitFinish => disk'.nodes = disk.nodes /\ disk'.edges = disk.edges

\* A record appended inside a buffer stays in it.
LEMMA BufferedRecords ==
    ASSUME NEW d \in Disk, d.buf.open
    PROVE  /\ \A id \in NodeIds, node \in NodeData :
                 LET e == SaveNode(d, id, node)
                 IN e.buf.open /\ e.nodes = d.nodes /\ e.edges = d.edges
           /\ \A id \in EdgeIds, edge \in EdgeData :
                 LET e == SaveEdge(d, id, edge)
                 IN e.buf.open /\ e.nodes = d.nodes /\ e.edges = d.edges
           /\ \A id \in NodeIds :
                 LET e == DeleteNode(d, id)
                 IN e.buf.open /\ e.nodes = d.nodes /\ e.edges = d.edges
           /\ \A id \in EdgeIds :
                 LET e == DeleteEdge(d, id)
                 IN e.buf.open /\ e.nodes = d.nodes /\ e.edges = d.edges
BY DEF SaveNode, SaveEdge, DeleteNode, DeleteEdge, Disk, Buffer

\* Nothing but the steps of the commit happens during a commit.
LEMMA DuringCommit ==
    ASSUME TypeOK, call.txn # 0, Next
    PROVE  CallStep \/ CallFails \/ CrashAndReopen
<1>1. ~Idle
  BY IdleNoTxn
<1>2. ~DirectStep
  BY <1>1 DEF DirectStep, InsertNode, InsertNodeFails, InsertEdge, InsertEdgeFails,
              DirectDeleteEdge, GetEdge, DirectDeleteNode, GetNode, Compact
<1>3. ~StagingStep
  BY <1>1 DEF StagingStep, BeginTransaction, StageInsertNode, StageInsertEdge,
              StageDeleteNode, StageDeleteEdge, Stage, RollbackTransaction,
              CommitStart, CommitStartFails
<1> QED
  BY <1>2, <1>3 DEF Next

\* One step of a commit, other than its last.
LEMMA CommitStepBuffered ==
    ASSUME TypeOK, ~AutoCompact, call.txn # 0, disk.buf.open, CallStep
    PROVE  CommitAtomicStep /\ (call'.txn # 0 => disk'.buf.open)
<1>1. disk \in Disk
  BY DEF TypeOK
<1>2. ASSUME NEW id \in EdgeIds, DeleteIncidentEdge(id)
      PROVE CommitAtomicStep /\ disk'.buf.open
  BY <1>1, <1>2, BufferedRecords DEF DeleteIncidentEdge, CommitAtomicStep
<1>3. ASSUME DeleteNodeFinish PROVE CommitAtomicStep /\ disk'.buf.open
  <2>1. call.node \in NodeIds
    BY <1>3, CallShape DEF DeleteNodeFinish
  <2>2. PICK c : OnWrite(DeleteNode(disk, call.node), c)
    BY <1>3 DEF DeleteNodeFinish
  <2> QED
    BY <1>1, <2>1, <2>2, DeleteNodeType, OnWriteDisk, BufferedRecords
       DEF CommitAtomicStep
<1>4. ASSUME CommitInsertNode PROVE CommitAtomicStep /\ disk'.buf.open
  <2>1. Op.id \in NodeIds /\ Op.node \in NodeData
    BY <1>4, OpType, StagedOpType DEF CommitInsertNode
  <2> QED
    BY <1>1, <1>4, <2>1, BufferedRecords DEF CommitInsertNode, CommitAtomicStep
<1>5. ASSUME CommitInsertEdge PROVE CommitAtomicStep /\ disk'.buf.open
  <2>1. Op.id \in EdgeIds /\ Op.edge \in EdgeData
    BY <1>5, OpType, StagedOpType DEF CommitInsertEdge
  <2> QED
    BY <1>1, <1>5, <2>1, BufferedRecords DEF CommitInsertEdge, CommitAtomicStep
<1>6. ASSUME CommitRejectEdge PROVE CommitAtomicStep /\ call'.txn = 0
  BY <1>1, <1>6 DEF CommitRejectEdge, ReturnError, NoCall, RollbackTxn, Disk,
                    CommitAtomicStep
<1>7. ASSUME CommitDeleteNode PROVE CommitAtomicStep /\ disk'.buf.open
  BY <1>7 DEF CommitDeleteNode, CommitAtomicStep
<1>8. ASSUME CommitDeleteEdge PROVE CommitAtomicStep /\ disk'.buf.open
  <2>1. Op.id \in EdgeIds
    BY <1>8, OpType, StagedOpType DEF CommitDeleteEdge
  <2> QED
    BY <1>1, <1>8, <2>1, DeleteEdgeType, OnWriteDisk, BufferedRecords
       DEF CommitDeleteEdge, RemoveEdge, CommitAtomicStep
<1>9. ASSUME CommitFinish PROVE CommitAtomicStep /\ call'.txn = 0
  BY <1>9 DEF CommitFinish, CommitAtomicStep, NoCall
<1> QED
  BY <1>2, <1>3, <1>4, <1>5, <1>6, <1>7, <1>8, <1>9 DEF CallStep

LEMMA CommitBuffered ==
    ASSUME TypeOK, ~AutoCompact, InsideBuffer, call.txn # 0, Next
    PROVE  CommitAtomicStep /\ InsideBuffer'
<1>1. CASE CallStep
  BY <1>1, CommitStepBuffered DEF InsideBuffer
<1>2. CASE CallFails
  <2>1. UNCHANGED disk /\ call'.txn = 0
    BY <1>2 DEF CallFails, DeleteNodeFailsEarly, DeleteNodeFailsLate, CommitFails,
                ReturnError, NoCall
  <2> QED
    BY <2>1 DEF CommitAtomicStep, InsideBuffer
<1>3. CASE CrashAndReopen
  BY <1>3 DEF CrashAndReopen, NoCall, CommitAtomicStep, InsideBuffer
<1> QED
  BY <1>1, <1>2, <1>3, DuringCommit

\* Outside a commit the only step into one is CommitStart.
LEMMA CommitBegins ==
    ASSUME TypeOK, Markers, call.txn = 0, Next
    PROVE  InsideBuffer'
<1>1. CASE DirectStep
  BY <1>1 DEF DirectStep, InsertNode, InsertNodeFails, InsertEdge, InsertEdgeFails,
              DirectDeleteEdge, GetEdge, DirectDeleteNode, Deleting, GetNode, Compact,
              InsideBuffer
<1>2. CASE StagingStep
  <2>1. ASSUME NEW t \in TxnIds, CommitStart(t) PROVE InsideBuffer'
    BY <2>1 DEF CommitStart, BeginTxn, FreshBuffer, InsideBuffer, TypeOK, Disk
  <2>2. CASE UNCHANGED call
    BY <2>2 DEF InsideBuffer
  <2> QED
    BY <1>2, <2>1, <2>2
       DEF StagingStep, BeginTransaction, StageInsertNode, StageInsertEdge,
           StageDeleteNode, StageDeleteEdge, Stage, RollbackTransaction,
           CommitStartFails
<1>3. CASE CallStep
  <2>1. call.pc = "committing" => FALSE
    BY CallShape, DbAssumption DEF TxnIds
  <2>2. CASE \E id \in EdgeIds : DeleteIncidentEdge(id)
    BY <2>2 DEF DeleteIncidentEdge, TypeOK, Call, NoCall, InsideBuffer
  <2>3. CASE DeleteNodeFinish
    BY <2>3 DEF DeleteNodeFinish, NoCall, InsideBuffer
  <2> QED
    BY <1>3, <2>1, <2>2, <2>3
       DEF CallStep, CommitInsertNode, CommitInsertEdge, CommitRejectEdge,
           CommitDeleteNode, CommitDeleteEdge, CommitFinish, AtOp
<1>4. CASE CallFails
  BY <1>4 DEF CallFails, DeleteNodeFailsEarly, DeleteNodeFailsLate, CommitFails,
              ReturnError, NoCall, InsideBuffer
<1>5. CASE CrashAndReopen
  BY <1>5 DEF CrashAndReopen, NoCall, InsideBuffer
<1> QED
  BY <1>1, <1>2, <1>3, <1>4, <1>5 DEF Next

\* With BinaryFileStorage and no automatic compaction, a replay of the log
\* during commit_transaction finds all of the transaction or nothing of it,
\* whatever it stages and wherever the process dies or an append fails.
THEOREM CommitIsAtomic ==
    ASSUME Markers, ~AutoCompact
    PROVE  Spec => CommitAtomic
<1>1. Init => InsideBuffer
  BY DEF Init, NoCall, InsideBuffer
<1>2. TypeOK /\ InsideBuffer /\ [Next]_vars
        => InsideBuffer' /\ [CommitAtomicStep]_vars
  <2> SUFFICES ASSUME TypeOK, InsideBuffer, [Next]_vars
               PROVE  InsideBuffer' /\ [CommitAtomicStep]_vars
    OBVIOUS
  <2>1. CASE UNCHANGED vars
    BY <2>1 DEF InsideBuffer, vars
  <2>2. CASE Next /\ call.txn # 0
    BY <2>2, CommitBuffered
  <2>3. CASE Next /\ call.txn = 0
    BY <2>3, CommitBegins DEF CommitAtomicStep
  <2> QED
    BY <2>1, <2>2, <2>3
<1> QED
  BY <1>1, <1>2, TypeCorrect, PTL DEF Spec, CommitAtomic, CommitAtomicStep

-----------------------------------------------------------------------------
(* IdsRetired.  What it takes is to follow a commit: the handle stays open *)
(* until the commit ends, and the operations before the k-th have seeded   *)
(* the generator with their ids, so that all have when k is past the last. *)

SeededBefore(ops, k, g) ==
    \A i \in DOMAIN ops : i < k =>
        /\ ops[i].kind = "InsertNode" => ops[i].id < g.node
        /\ ops[i].kind = "InsertEdge" => ops[i].id < g.edge

CommitInv ==
    call.txn # 0 =>
        /\ IsOpen(call.txn)
        /\ SeededBefore(Ops, call.k, gen)
        /\ call.pc = "deleting" =>
              /\ call.k \in DOMAIN Ops
              /\ Op.kind = "DeleteNode" /\ Op.id = call.node

IdsRetiredStep ==
    crashes' = crashes =>
        /\ gen'.node >= gen.node /\ gen'.edge >= gen.edge
        /\ \A t \in TxnIds :
              IsOpen(t) /\ txns'[t].status \in {"committed", "rolledBack"} =>
                /\ \A id \in StagedNodeIds(t) : id < gen'.node
                /\ \A id \in StagedEdgeIds(t) : id < gen'.edge

\* The staged operations of a handle, and their places.
LEMMA OpsType ==
    ASSUME TypeOK, NEW t \in TxnIds
    PROVE  /\ txns[t] \in Handle
           /\ txns[t].ops \in Seq(StagedOp)
           /\ DOMAIN txns[t].ops = 1 .. Len(txns[t].ops)
           /\ Len(txns[t].ops) \in Nat
           /\ \A i \in DOMAIN txns[t].ops : txns[t].ops[i] \in StagedOp
           /\ txns[t].idGen \in Generator
<1>1. txns[t] \in Handle
  BY DEF TypeOK
<1> QED
  BY <1>1 DEF Handle

\* The operation a commit is at, and the call that follows it.
LEMMA AtOpFacts ==
    ASSUME TypeOK, NEW kind, AtOp(kind)
    PROVE  /\ call.txn \in TxnIds /\ call.txn # 0
           /\ call.k \in Nat \ {0} /\ call.k \in DOMAIN Ops
           /\ DOMAIN Ops = 1 .. Len(Ops) /\ Len(Ops) \in Nat
           /\ Op.kind = kind
           /\ NextOp => /\ call'.txn = call.txn /\ call'.k = call.k + 1
                        /\ call'.pc = "committing"
<1>1. call.pc = "committing" /\ call.txn \in TxnIds /\ call.k \in Nat \ {0}
  BY CallShape DEF AtOp
<1>2. call.txn # 0
  BY <1>1 DEF TxnIds
<1>3. DOMAIN Ops = 1 .. Len(Ops) /\ Len(Ops) \in Nat
  BY <1>1, OpsType DEF Ops
<1>4. call.k \in DOMAIN Ops
  BY <1>1, <1>3 DEF AtOp
<1>5. NextOp => /\ call'.txn = call.txn /\ call'.k = call.k + 1
                /\ call'.pc = "committing"
  BY <1>1 DEF NextOp, TypeOK, Call, NoCall
<1> QED
  BY <1>1, <1>2, <1>3, <1>4, <1>5 DEF AtOp, Op

\* The next operation of a commit begins with the generator raised past the
\* id of this one.
LEMMA SeedNext ==
    ASSUME TypeOK, CommitInv, call.txn \in TxnIds, call.k \in Nat, call.txn # 0,
           NEW h \in Generator, gen.node =< h.node, gen.edge =< h.edge,
           call.k \in DOMAIN Ops =>
              /\ Op.kind = "InsertNode" => Op.id < h.node
              /\ Op.kind = "InsertEdge" => Op.id < h.edge
    PROVE  SeededBefore(Ops, call.k + 1, h)
<1>1. /\ DOMAIN Ops = 1 .. Len(Ops) /\ Len(Ops) \in Nat
      /\ \A i \in DOMAIN Ops : Ops[i] \in StagedOp
  BY OpsType DEF Ops
<1>2. SeededBefore(Ops, call.k, gen) /\ gen \in Generator
  BY DEF CommitInv, TypeOK
<1>3. \A n \in 0 .. MaxNodes : n \in Nat
  OBVIOUS
<1>4. \A n \in 0 .. MaxEdges : n \in Nat
  OBVIOUS
<1>5. /\ gen.node \in Nat /\ gen.edge \in Nat /\ h.node \in Nat /\ h.edge \in Nat
  BY <1>2, <1>3, <1>4 DEF Generator
<1> SUFFICES ASSUME NEW i \in DOMAIN Ops, i < call.k + 1
             PROVE  /\ Ops[i].kind = "InsertNode" => Ops[i].id < h.node
                    /\ Ops[i].kind = "InsertEdge" => Ops[i].id < h.edge
  BY DEF SeededBefore
<1>6. CASE i = call.k
  BY <1>6 DEF Op
<1>7. CASE i < call.k
  <2>1. /\ Ops[i].kind = "InsertNode" => Ops[i].id < gen.node /\ Ops[i].id \in Nat
        /\ Ops[i].kind = "InsertEdge" => Ops[i].id < gen.edge /\ Ops[i].id \in Nat
    BY <1>1, <1>2, <1>7, StagedOpType DEF SeededBefore, NodeIds, EdgeIds
  <2> QED BY <1>5, <2>1
<1> QED
  BY <1>1, <1>6, <1>7

LEMMA CommitInvInit == Init => CommitInv
BY DEF Init, NoCall, CommitInv

LEMMA CommitInvNext == TypeOK /\ CommitInv /\ [Next]_vars => CommitInv'
<1> SUFFICES ASSUME TypeOK, CommitInv, [Next]_vars PROVE CommitInv'
  OBVIOUS
<1>1. ASSUME UNCHANGED <<call, txns, gen>> PROVE CommitInv'
  BY <1>1 DEF CommitInv, IsOpen, SeededBefore, Ops, Op
<1>2. ASSUME call'.txn = 0 PROVE CommitInv'
  BY <1>2 DEF CommitInv
<1>3. CASE DirectStep
  <2>1. call'.txn = 0
    BY <1>3, IdleNoTxn
       DEF DirectStep, InsertNode, InsertNodeFails, InsertEdge, InsertEdgeFails,
           DirectDeleteEdge, GetEdge, DirectDeleteNode, Deleting, GetNode, Compact
  <2> QED BY <1>2, <2>1
<1>4. CASE StagingStep
  <2>1. ASSUME NEW t \in TxnIds, CommitStart(t) PROVE CommitInv'
    <3>1. /\ call'.txn = t /\ call'.k = 1 /\ call'.pc = "committing"
          /\ UNCHANGED txns /\ IsOpen(t)
      BY <2>1 DEF CommitStart, Committing, NoCall, handles
    <3>2. \A i \in DOMAIN txns[t].ops : ~(i < 1)
      BY OpsType
    <3> QED BY <3>1, <3>2 DEF CommitInv, IsOpen, SeededBefore, Ops, Op
  <2>2. CASE UNCHANGED call /\ Idle
    BY <1>2, <2>2, IdleNoTxn
  <2> QED
    BY <1>4, <2>1, <2>2
       DEF StagingStep, BeginTransaction, StageInsertNode, StageInsertEdge,
           StageDeleteNode, StageDeleteEdge, Stage, RollbackTransaction, CommitStartFails
<1>5. CASE CallStep
  <2>1. ASSUME NEW id \in EdgeIds, DeleteIncidentEdge(id) PROVE CommitInv'
    <3>1. /\ call'.txn = call.txn /\ call'.k = call.k /\ call'.pc = call.pc
          /\ call'.node = call.node /\ UNCHANGED <<txns, gen>>
      BY <2>1 DEF DeleteIncidentEdge, handles, TypeOK, Call, NoCall
    <3> QED BY <3>1 DEF CommitInv, IsOpen, SeededBefore, Ops, Op
  <2>2. ASSUME DeleteNodeFinish PROVE CommitInv'
    <3>1. CASE call.txn = 0
      BY <1>2, <2>2, <3>1 DEF DeleteNodeFinish, NoCall
    <3>2. CASE call.txn # 0
      <4>1. /\ call.txn \in TxnIds /\ call.k \in Nat /\ gen \in Generator
            /\ call.pc = "deleting"
        BY <2>2, <3>2, CallShape, DbAssumption DEF DeleteNodeFinish, TxnIds, TypeOK
      <4>2. SeededBefore(Ops, call.k + 1, gen)
        <5>1. gen.node =< gen.node /\ gen.edge =< gen.edge
          BY <4>1 DEF Generator
        <5>2. Op.kind = "DeleteNode"
          BY <3>2, <4>1 DEF CommitInv
        <5> QED BY <3>2, <4>1, <5>1, <5>2, SeedNext
      <4>3. /\ call'.txn = call.txn /\ call'.k = call.k + 1 /\ call'.pc = "committing"
            /\ UNCHANGED <<txns, gen>>
        BY <2>2, <3>2 DEF DeleteNodeFinish, Committing, NoCall, handles
      <4> QED BY <3>2, <4>2, <4>3 DEF CommitInv, IsOpen, Ops, SeededBefore
    <3> QED BY <3>1, <3>2
  <2>3. ASSUME NEW kind, AtOp(kind), NextOp, UNCHANGED handles, gen' \in Generator,
               gen.node =< gen'.node, gen.edge =< gen'.edge,
               kind = "InsertNode" => Op.id < gen'.node,
               kind = "InsertEdge" => Op.id < gen'.edge
        PROVE CommitInv'
    <3>1. SeededBefore(Ops, call.k + 1, gen')
      BY <2>3, AtOpFacts, SeedNext
    <3>2. call'.txn = call.txn /\ call'.k = call.k + 1 /\ call'.pc = "committing"
          /\ call.txn # 0 /\ UNCHANGED txns
      BY <2>3, AtOpFacts DEF handles
    <3> QED BY <3>1, <3>2 DEF CommitInv, IsOpen, Ops, SeededBefore
  <2>4. ASSUME CommitInsertNode PROVE CommitInv'
    <3>1. Op.id \in NodeIds /\ gen \in Generator
      BY <2>4, OpType, StagedOpType DEF CommitInsertNode, TypeOK
    <3>2. gen' \in Generator /\ gen.node =< gen'.node /\ gen.edge =< gen'.edge
          /\ Op.id < gen'.node
      BY <2>4, <3>1, StorageAssumption DEF CommitInsertNode, Generator, Seeded, NodeIds
    <3> QED BY <2>3, <2>4, <3>2 DEF CommitInsertNode
  <2>5. ASSUME CommitInsertEdge PROVE CommitInv'
    <3>1. Op.id \in EdgeIds /\ gen \in Generator
      BY <2>5, OpType, StagedOpType DEF CommitInsertEdge, TypeOK
    <3>2. gen' \in Generator /\ gen.node =< gen'.node /\ gen.edge =< gen'.edge
          /\ Op.id < gen'.edge
      BY <2>5, <3>1, StorageAssumption DEF CommitInsertEdge, Generator, Seeded, EdgeIds
    <3> QED BY <2>3, <2>5, <3>2 DEF CommitInsertEdge
  <2>6. ASSUME CommitRejectEdge \/ CommitFinish PROVE CommitInv'
    BY <1>2, <2>6 DEF CommitRejectEdge, CommitFinish, ReturnError, NoCall
  <2>7. ASSUME CommitDeleteNode PROVE CommitInv'
    <3>1. /\ call'.txn = call.txn /\ call'.k = call.k /\ call'.node = Op.id
          /\ UNCHANGED <<txns, gen>>
      BY <2>7 DEF CommitDeleteNode, Deleting, handles, memory
    <3>2. call.txn # 0 /\ call.k \in DOMAIN Ops /\ Op.kind = "DeleteNode"
      BY <2>7, AtOpFacts DEF CommitDeleteNode
    <3> QED BY <3>1, <3>2 DEF CommitInv, IsOpen, SeededBefore, Ops, Op
  <2>8. ASSUME CommitDeleteEdge PROVE CommitInv'
    <3>1. gen' \in Generator /\ gen.node =< gen'.node /\ gen.edge =< gen'.edge
      BY <2>8 DEF CommitDeleteEdge, TypeOK, Generator
    <3> QED BY <2>3, <2>8, <3>1 DEF CommitDeleteEdge
  <2> QED
    BY <1>5, <2>1, <2>2, <2>4, <2>5, <2>6, <2>7, <2>8 DEF CallStep
<1>6. CASE CallFails
  BY <1>2, <1>6 DEF CallFails, DeleteNodeFailsEarly, DeleteNodeFailsLate, CommitFails,
                    ReturnError, NoCall
<1>7. CASE CrashAndReopen
  BY <1>2, <1>7 DEF CrashAndReopen, NoCall
<1>8. CASE UNCHANGED vars
  BY <1>1, <1>8 DEF vars
<1> QED
  BY <1>3, <1>4, <1>5, <1>6, <1>7, <1>8 DEF Next

\* In one process the generator only rises.
LEMMA GeneratorRises ==
    ASSUME TypeOK, [Next]_vars, crashes' = crashes
    PROVE  /\ gen.node \in Nat /\ gen'.node \in Nat /\ gen'.node >= gen.node
           /\ gen.edge \in Nat /\ gen'.edge \in Nat /\ gen'.edge >= gen.edge
<1> USE DEF TypeOK, Generator
<1>1. gen.node \in Nat /\ gen.edge \in Nat
  BY StorageAssumption
<1>2. CASE UNCHANGED gen
  BY <1>1, <1>2
<1>3. ASSUME NEW node \in NodeData, InsertNode(node) PROVE gen' = [gen EXCEPT !.node = @ + 1]
  BY <1>3 DEF InsertNode
<1>4. ASSUME NEW edge \in EdgeData, InsertEdge(edge) PROVE gen' = [gen EXCEPT !.edge = @ + 1]
  BY <1>4 DEF InsertEdge
<1>5. CASE \/ gen' = [gen EXCEPT !.node = @ + 1]
           \/ gen' = [gen EXCEPT !.edge = @ + 1]
  BY <1>1, <1>5
<1>6. CASE DirectStep
  <2>1. \/ UNCHANGED gen
        \/ gen' = [gen EXCEPT !.node = @ + 1]
        \/ gen' = [gen EXCEPT !.edge = @ + 1]
    BY <1>3, <1>4, <1>6
       DEF DirectStep, InsertNodeFails, InsertEdgeFails, DirectDeleteEdge, GetEdge,
           DirectDeleteNode, GetNode, Compact, memory
  <2> QED BY <1>2, <1>5, <2>1
<1>7. ASSUME NEW t \in TxnIds, RollbackTransaction(t)
      PROVE /\ gen'.node \in Nat /\ gen'.node >= gen.node
            /\ gen'.edge \in Nat /\ gen'.edge >= gen.edge
  BY <1>1, <1>7, StorageAssumption DEF RollbackTransaction, IsSeeded
<1>8. CASE StagingStep
  <2>1. UNCHANGED gen \/ \E t \in TxnIds : RollbackTransaction(t)
    BY <1>8
       DEF StagingStep, BeginTransaction, StageInsertNode, StageInsertEdge,
           StageDeleteNode, StageDeleteEdge, Stage, CommitStart, CommitStartFails, memory
  <2> QED BY <1>1, <1>2, <1>7, <2>1
<1>9. ASSUME CommitInsertNode
      PROVE /\ gen'.node \in Nat /\ gen'.node >= gen.node /\ gen'.edge = gen.edge
  <2>1. Op.id \in Nat
    BY <1>9, OpType, StagedOpType DEF CommitInsertNode, NodeIds
  <2> QED BY <1>1, <1>9, <2>1 DEF CommitInsertNode, Seeded
<1>10. ASSUME CommitInsertEdge
      PROVE /\ gen'.edge \in Nat /\ gen'.edge >= gen.edge /\ gen'.node = gen.node
  <2>1. Op.id \in Nat
    BY <1>10, OpType, StagedOpType DEF CommitInsertEdge, EdgeIds
  <2> QED BY <1>1, <1>10, <2>1 DEF CommitInsertEdge, Seeded
<1>11. CASE CallStep
  <2>1. UNCHANGED gen \/ CommitInsertNode \/ CommitInsertEdge
    BY <1>11
       DEF CallStep, DeleteIncidentEdge, DeleteNodeFinish, CommitRejectEdge,
           CommitDeleteNode, CommitDeleteEdge, CommitFinish, memory
  <2> QED BY <1>1, <1>2, <1>9, <1>10, <2>1
<1>12. CASE CallFails
  BY <1>2, <1>12
     DEF CallFails, DeleteNodeFailsEarly, DeleteNodeFailsLate, CommitFails, memory
<1>13. CASE CrashAndReopen
  BY <1>13, DbAssumption DEF CrashAndReopen
<1> QED
  BY <1>2, <1>6, <1>8, <1>11, <1>12, <1>13 DEF Next, vars

\* A handle becomes committed or rolled back by the call that does it alone.
LEMMA Retires ==
    ASSUME TypeOK, [Next]_vars, crashes' = crashes, NEW t \in TxnIds, IsOpen(t),
           txns'[t].status \in {"committed", "rolledBack"}
    PROVE  RollbackTransaction(t) \/ (CommitFinish /\ call.txn = t)
<1> USE DEF TypeOK, IsOpen
<1>1. txns'[t] # txns[t]
  OBVIOUS
<1>2. ASSUME ReturnError PROVE FALSE
  BY <1>1, <1>2 DEF ReturnError, NoHandle
<1>3. CASE DirectStep
  BY <1>1, <1>3
     DEF DirectStep, InsertNode, InsertNodeFails, InsertEdge, InsertEdgeFails,
         DirectDeleteEdge, GetEdge, DirectDeleteNode, GetNode, Compact, handles
<1>4. CASE StagingStep
  <2>1. ASSUME NEW u \in TxnIds, NEW op, NEW g, Stage(u, op, g) PROVE FALSE
    <3>1. txns[u].status = txns'[u].status
      BY <2>1, OpsType DEF Stage, Handle
    <3> QED BY <1>1, <2>1, <3>1 DEF Stage
  <2>2. ASSUME BeginTransaction PROVE FALSE
    BY <1>1, <2>2 DEF BeginTransaction
  <2>3. ASSUME NEW u \in TxnIds, CommitStart(u) \/ CommitStartFails(u) PROVE FALSE
    BY <1>1, <2>3 DEF CommitStart, CommitStartFails, NoHandle, handles
  <2>4. PICK u \in TxnIds : RollbackTransaction(u)
    BY <1>4, <2>1, <2>2, <2>3
       DEF StagingStep, StageInsertNode, StageInsertEdge, StageDeleteNode, StageDeleteEdge
  <2>5. u = t
    BY <1>1, <2>4 DEF RollbackTransaction
  <2> QED BY <2>4, <2>5
<1>5. CASE CallStep
  <2>1. CommitFinish
    BY <1>1, <1>2, <1>5
       DEF CallStep, DeleteIncidentEdge, DeleteNodeFinish, CommitInsertNode,
           CommitInsertEdge, CommitRejectEdge, CommitDeleteNode, CommitDeleteEdge, handles
  <2>2. call.txn = t
    BY <1>1, <2>1 DEF CommitFinish
  <2> QED BY <2>1, <2>2
<1>6. CASE CallFails
  BY <1>2, <1>6 DEF CallFails, DeleteNodeFailsEarly, DeleteNodeFailsLate, CommitFails
<1>7. CASE CrashAndReopen
  BY <1>7, DbAssumption DEF CrashAndReopen
<1>8. CASE UNCHANGED vars
  BY <1>1, <1>8 DEF vars
<1> QED
  BY <1>3, <1>4, <1>5, <1>6, <1>7, <1>8 DEF Next

LEMMA IdsRetiredNext == TypeOK /\ CommitInv /\ [Next]_vars => IdsRetiredStep
<1> SUFFICES ASSUME TypeOK, CommitInv, [Next]_vars, crashes' = crashes
             PROVE  /\ gen'.node >= gen.node /\ gen'.edge >= gen.edge
                    /\ \A t \in TxnIds :
                          IsOpen(t) /\ txns'[t].status \in {"committed", "rolledBack"} =>
                            /\ \A id \in StagedNodeIds(t) : id < gen'.node
                            /\ \A id \in StagedEdgeIds(t) : id < gen'.edge
  BY DEF IdsRetiredStep
<1>1. gen'.node >= gen.node /\ gen'.edge >= gen.edge
  BY GeneratorRises
<1>2. ASSUME NEW t \in TxnIds, IsOpen(t), txns'[t].status \in {"committed", "rolledBack"}
      PROVE  /\ \A id \in StagedNodeIds(t) : id < gen'.node
             /\ \A id \in StagedEdgeIds(t) : id < gen'.edge
  <2>1. CASE RollbackTransaction(t)
    BY <2>1 DEF RollbackTransaction, IsSeeded
  <2>2. CASE CommitFinish /\ call.txn = t
    <3>1. /\ call.txn # 0 /\ call.k = Len(txns[t].ops) + 1 /\ Ops = txns[t].ops
          /\ UNCHANGED gen
      BY <2>2 DEF CommitFinish, Ops, TxnIds
    <3>2. \A i \in DOMAIN txns[t].ops : i < call.k
      BY <3>1, OpsType
    <3>3. SeededBefore(txns[t].ops, call.k, gen)
      BY <3>1 DEF CommitInv
    <3> QED BY <3>1, <3>2, <3>3 DEF SeededBefore, StagedNodeIds, StagedEdgeIds
  <2> QED BY <1>2, <2>1, <2>2, Retires
<1> QED
  BY <1>1, <1>2

\* In the life of a process the generator does not go back, and by the time a
\* transaction is committed or rolled back it has passed every id the handle
\* gave out: whatever else fails, no id is handed out a second time.
THEOREM IdsStayRetired == Spec => IdsRetired
<1>1. Init => CommitInv
  BY CommitInvInit
<1>2. TypeOK /\ CommitInv /\ [Next]_vars => CommitInv' /\ [IdsRetiredStep]_vars
  BY CommitInvNext, IdsRetiredNext
<1> QED
  BY <1>1, <1>2, TypeCorrect, PTL DEF Spec, IdsRetired, IdsRetiredStep

-----------------------------------------------------------------------------
(* The operations of a handle.  An id that a handle gives out is past those *)
(* its earlier operations name, so no insertion is staged behind a deletion *)
(* of its id, or behind another insertion of it.  (A caller that guesses    *)
(* ids may stage a deletion first; its deletions are then left out.)        *)

NodeOps == IF GuessedIds THEN {"InsertNode"} ELSE {"InsertNode", "DeleteNode"}
EdgeOps == IF GuessedIds THEN {"InsertEdge"} ELSE {"InsertEdge", "DeleteEdge"}

InOrder(ops) ==
    \A i, j \in DOMAIN ops : i < j =>
        /\ ops[j].kind = "InsertNode" /\ ops[i].kind \in NodeOps => ops[i].id < ops[j].id
        /\ ops[j].kind = "InsertEdge" /\ ops[i].kind \in EdgeOps => ops[i].id < ops[j].id

Given(ops, g) ==
    \A i \in DOMAIN ops :
        /\ ops[i].kind \in NodeOps => ops[i].id < g.node
        /\ ops[i].kind \in EdgeOps => ops[i].id < g.edge

HandleInv ==
    \A t \in TxnIds :
        IsOpen(t) => InOrder(txns[t].ops) /\ Given(txns[t].ops, txns[t].idGen)

\* Generators count from 0.
LEMMA GeneratorNat ==
    ASSUME NEW g \in Generator
    PROVE  g.node \in Nat /\ g.edge \in Nat
BY StorageAssumption DEF Generator

LEMMA OpIdNat ==
    ASSUME NEW op \in StagedOp
    PROVE  /\ op.id \in Nat
           /\ op.kind \in NodeOps => op.kind \notin EdgeOps
           /\ op.kind \in {"InsertNode", "InsertEdge", "DeleteNode", "DeleteEdge"}
BY DEF StagedOp, InsertNodeOps, InsertEdgeOps, DeleteNodeOps, DeleteEdgeOps, NodeIds,
       EdgeIds, NodeOps, EdgeOps

LEMMA AppendOp ==
    ASSUME NEW ops \in Seq(StagedOp), NEW op \in StagedOp
    PROVE  /\ DOMAIN ops = 1 .. Len(ops) /\ Len(ops) \in Nat
           /\ DOMAIN Append(ops, op) = 1 .. Len(ops) + 1
           /\ Append(ops, op)[Len(ops) + 1] = op
           /\ \A i \in DOMAIN ops : Append(ops, op)[i] = ops[i] /\ ops[i] \in StagedOp
OBVIOUS

\* op was staged by a handle whose generator was at g, and is at h after it.
Follows(op, g, h) ==
    /\ g.node =< h.node /\ g.edge =< h.edge
    /\ op.kind = "InsertNode" => op.id = g.node
    /\ op.kind = "InsertEdge" => op.id = g.edge
    /\ op.kind \in NodeOps => op.id < h.node
    /\ op.kind \in EdgeOps => op.id < h.edge

LEMMA AppendInOrder ==
    ASSUME NEW ops \in Seq(StagedOp), NEW op \in StagedOp, NEW g \in Generator,
           NEW h \in Generator, Follows(op, g, h), InOrder(ops), Given(ops, g)
    PROVE  InOrder(Append(ops, op)) /\ Given(Append(ops, op), h)
<1> DEFINE all == Append(ops, op)
<1>1. /\ g.node \in Nat /\ g.edge \in Nat /\ h.node \in Nat /\ h.edge \in Nat
      /\ g.node =< h.node /\ g.edge =< h.edge
  BY GeneratorNat DEF Follows
<1>2. \A i \in DOMAIN ops :
         /\ all[i] = ops[i] /\ ops[i].id \in Nat
         /\ ops[i].kind \in NodeOps => ops[i].id < g.node
         /\ ops[i].kind \in EdgeOps => ops[i].id < g.edge
  BY AppendOp, OpIdNat DEF Given
<1>3. /\ DOMAIN ops = 1 .. Len(ops) /\ Len(ops) \in Nat
      /\ DOMAIN all = 1 .. Len(ops) + 1
      /\ all[Len(ops) + 1] = op
  BY AppendOp
<1> HIDE DEF all
<1>4. Given(all, h)
  <2> SUFFICES ASSUME NEW i \in DOMAIN all
               PROVE  /\ all[i].kind \in NodeOps => all[i].id < h.node
                      /\ all[i].kind \in EdgeOps => all[i].id < h.edge
    BY DEF Given
  <2>1. CASE i \in DOMAIN ops
    BY <1>1, <1>2, <2>1
  <2>2. CASE i = Len(ops) + 1
    BY <1>3, <2>2 DEF Follows
  <2> QED BY <1>3, <2>1, <2>2
<1>5. InOrder(all)
  <2> SUFFICES ASSUME NEW i \in DOMAIN all, NEW j \in DOMAIN all, i < j
               PROVE  /\ all[j].kind = "InsertNode" /\ all[i].kind \in NodeOps
                           => all[i].id < all[j].id
                      /\ all[j].kind = "InsertEdge" /\ all[i].kind \in EdgeOps
                           => all[i].id < all[j].id
    BY DEF InOrder
  <2>1. i \in DOMAIN ops
    BY <1>3
  <2>2. CASE j \in DOMAIN ops
    BY <1>2, <2>1, <2>2 DEF InOrder
  <2>3. CASE j = Len(ops) + 1
    BY <1>2, <1>3, <2>1, <2>3 DEF Follows
  <2> QED BY <1>3, <2>2, <2>3
<1> QED
  BY <1>4, <1>5 DEF all

IsStaging(t) ==
    \/ \E node \in NodeData : StageInsertNode(t, node)
    \/ \E edge \in EdgeData : StageInsertEdge(t, edge)
    \/ \E id \in NodeIds : StageDeleteNode(t, id)
    \/ \E id \in EdgeIds : StageDeleteEdge(t, id)

\* What a staging method pushes, and what that leaves of the handle.
LEMMA StagesNext ==
    ASSUME TypeOK, NEW t \in TxnIds, IsStaging(t)
    PROVE  \E op \in StagedOp, h \in Generator :
              Stage(t, op, h) /\ Follows(op, txns[t].idGen, h)
<1>1. txns[t].idGen \in Generator /\ txns[t].idGen.node \in Nat /\ txns[t].idGen.edge \in Nat
  BY OpsType, GeneratorNat
<1> DEFINE g == txns[t].idGen
<1>2. ASSUME NEW node \in NodeData, StageInsertNode(t, node)
      PROVE \E op \in StagedOp, h \in Generator : Stage(t, op, h) /\ Follows(op, g, h)
  <2>1. /\ g.node \in NodeIds /\ [g EXCEPT !.node = @ + 1] \in Generator
        /\ [g EXCEPT !.node = @ + 1].node = g.node + 1
        /\ [g EXCEPT !.node = @ + 1].edge = g.edge
    BY <1>1, <1>2, StorageAssumption DEF StageInsertNode, Generator, NodeIds
  <2>2. [kind |-> "InsertNode", id |-> g.node, node |-> node] \in StagedOp
    BY <2>1 DEF StagedOp, InsertNodeOps
  <2>3. Follows([kind |-> "InsertNode", id |-> g.node, node |-> node], g,
              [g EXCEPT !.node = @ + 1])
    BY <1>1, <2>1 DEF Follows, NodeOps, EdgeOps
  <2> QED BY <1>2, <2>1, <2>2, <2>3 DEF StageInsertNode
<1>3. ASSUME NEW edge \in EdgeData, StageInsertEdge(t, edge)
      PROVE \E op \in StagedOp, h \in Generator : Stage(t, op, h) /\ Follows(op, g, h)
  <2>1. /\ g.edge \in EdgeIds /\ [g EXCEPT !.edge = @ + 1] \in Generator
        /\ [g EXCEPT !.edge = @ + 1].edge = g.edge + 1
        /\ [g EXCEPT !.edge = @ + 1].node = g.node
    BY <1>1, <1>3, StorageAssumption DEF StageInsertEdge, Generator, EdgeIds
  <2>2. [kind |-> "InsertEdge", id |-> g.edge, edge |-> edge] \in StagedOp
    BY <2>1 DEF StagedOp, InsertEdgeOps
  <2>3. Follows([kind |-> "InsertEdge", id |-> g.edge, edge |-> edge], g,
              [g EXCEPT !.edge = @ + 1])
    BY <1>1, <2>1 DEF Follows, NodeOps, EdgeOps
  <2> QED BY <1>3, <2>1, <2>2, <2>3 DEF StageInsertEdge
<1>4. ASSUME NEW id \in NodeIds, StageDeleteNode(t, id)
      PROVE \E op \in StagedOp, h \in Generator : Stage(t, op, h) /\ Follows(op, g, h)
  <2>1. [kind |-> "DeleteNode", id |-> id] \in StagedOp
    BY DEF StagedOp, DeleteNodeOps
  <2>2. Follows([kind |-> "DeleteNode", id |-> id], g, g)
    BY <1>1, <1>4 DEF StageDeleteNode, Follows, NodeOps, EdgeOps
  <2> QED BY <1>1, <1>4, <2>1, <2>2 DEF StageDeleteNode
<1>5. ASSUME NEW id \in EdgeIds, StageDeleteEdge(t, id)
      PROVE \E op \in StagedOp, h \in Generator : Stage(t, op, h) /\ Follows(op, g, h)
  <2>1. [kind |-> "DeleteEdge", id |-> id] \in StagedOp
    BY DEF StagedOp, DeleteEdgeOps
  <2>2. Follows([kind |-> "DeleteEdge", id |-> id], g, g)
    BY <1>1, <1>5 DEF StageDeleteEdge, Follows, NodeOps, EdgeOps
  <2> QED BY <1>1, <1>5, <2>1, <2>2 DEF StageDeleteEdge
<1> QED
  BY <1>2, <1>3, <1>4, <1>5 DEF IsStaging

LEMMA StageHandle ==
    ASSUME TypeOK, NEW t \in TxnIds, NEW op, NEW h, Stage(t, op, h)
    PROVE  /\ txns'[t].ops = Append(txns[t].ops, op) /\ txns'[t].idGen = h
           /\ txns'[t].status = txns[t].status
           /\ \A u \in TxnIds \ {t} : txns'[u] = txns[u]
BY OpsType DEF Stage, TypeOK, Handle

\* What a step does to the handles.
HandleStep ==
    \/ UNCHANGED txns
    \/ BeginTransaction
    \/ \E t \in TxnIds : IsStaging(t)
    \/ \E t \in TxnIds, status \in {"committed", "failed", "rolledBack"} :
          IsOpen(t) /\ txns' = [txns EXCEPT ![t] = NoHandle(status)]
    \/ \A t \in TxnIds : txns'[t] = NoHandle("unused")

LEMMA HandleSteps ==
    ASSUME TypeOK, CommitInv, [Next]_vars
    PROVE  HandleStep
<1>1. CASE UNCHANGED txns
  BY <1>1 DEF HandleStep
<1>2. call.pc = "deleting" => call.txn = 0 \/ call.txn \in TxnIds
  BY CallShape, DbAssumption DEF TxnIds
<1>3. call.pc = "committing" => call.txn \in TxnIds /\ call.txn # 0
  BY CallShape DEF TxnIds
<1>4. ASSUME ReturnError, call.pc \in {"deleting", "committing"} PROVE HandleStep
  <2>1. CASE call.txn = 0
    BY <1>4, <2>1 DEF ReturnError, HandleStep
  <2>2. CASE call.txn # 0
    <3>1. IsOpen(call.txn) /\ call.txn \in TxnIds
      BY <1>2, <1>3, <1>4, <2>2 DEF CommitInv
    <3>2. txns' = [txns EXCEPT ![call.txn] = NoHandle("failed")]
      BY <1>4, <2>2 DEF ReturnError
    <3> QED BY <3>1, <3>2 DEF HandleStep
  <2> QED BY <2>1, <2>2
<1>5. CASE DirectStep
  BY <1>5
     DEF DirectStep, InsertNode, InsertNodeFails, InsertEdge, InsertEdgeFails,
         DirectDeleteEdge, GetEdge, DirectDeleteNode, GetNode, Compact, handles, HandleStep
<1>6. CASE StagingStep
  BY <1>6
     DEF StagingStep, IsStaging, RollbackTransaction, CommitStart, CommitStartFails, handles,
         HandleStep
<1>7. CASE CallStep
  <2>1. ASSUME CommitRejectEdge PROVE HandleStep
    BY <1>4, <2>1 DEF CommitRejectEdge, AtOp
  <2>2. ASSUME CommitFinish PROVE HandleStep
    <3>1. IsOpen(call.txn) /\ call.txn \in TxnIds
      BY <1>3, <2>2 DEF CommitInv, CommitFinish
    <3> QED BY <2>2, <3>1 DEF CommitFinish, HandleStep
  <2> QED
    BY <1>7, <2>1, <2>2
       DEF CallStep, DeleteIncidentEdge, DeleteNodeFinish, CommitInsertNode,
           CommitInsertEdge, CommitDeleteNode, CommitDeleteEdge, handles, HandleStep
<1>8. CASE CallFails
  BY <1>4, <1>8 DEF CallFails, DeleteNodeFailsEarly, DeleteNodeFailsLate, CommitFails
<1>9. CASE CrashAndReopen
  BY <1>9 DEF CrashAndReopen, HandleStep
<1> QED
  BY <1>1, <1>5, <1>6, <1>7, <1>8, <1>9 DEF Next, vars

LEMMA HandleInvInit == Init => HandleInv
BY DEF Init, HandleInv, IsOpen, NoHandle

LEMMA HandleInvNext == TypeOK /\ CommitInv /\ HandleInv /\ [Next]_vars => HandleInv'
<1> SUFFICES ASSUME TypeOK, CommitInv, HandleInv, [Next]_vars,
                    NEW t \in TxnIds, IsOpen(t)'
             PROVE  InOrder(txns'[t].ops) /\ Given(txns'[t].ops, txns'[t].idGen)
  BY DEF HandleInv
<1>1. ASSUME txns'[t] = txns[t]
      PROVE  InOrder(txns'[t].ops) /\ Given(txns'[t].ops, txns'[t].idGen)
  BY <1>1 DEF HandleInv, IsOpen
<1>2. CASE BeginTransaction
  <2>1. CASE t = nextTxn
    <3>1. txns'[t].ops = <<>>
      BY <1>2, <2>1 DEF BeginTransaction, TypeOK
    <3> QED BY <3>1 DEF InOrder, Given
  <2>2. CASE t # nextTxn
    BY <1>1, <1>2, <2>2 DEF BeginTransaction, TypeOK
  <2> QED BY <2>1, <2>2
<1>3. ASSUME NEW u \in TxnIds, IsStaging(u)
      PROVE  InOrder(txns'[t].ops) /\ Given(txns'[t].ops, txns'[t].idGen)
  <2>1. PICK op \in StagedOp, h \in Generator :
            Stage(u, op, h) /\ Follows(op, txns[u].idGen, h)
    BY <1>3, StagesNext
  <2>2. CASE t = u
    <3>1. txns'[t].ops = Append(txns[t].ops, op) /\ txns'[t].idGen = h
      BY <2>1, <2>2, StageHandle
    <3>2. InOrder(txns[t].ops) /\ Given(txns[t].ops, txns[t].idGen)
      BY <2>1, <2>2 DEF HandleInv, Stage
    <3> QED BY <2>1, <2>2, <3>1, <3>2, OpsType, AppendInOrder
  <2>3. CASE t # u
    BY <1>1, <2>1, <2>3, StageHandle
  <2> QED BY <2>2, <2>3
<1>4. ASSUME NEW u \in TxnIds, NEW status \in {"committed", "failed", "rolledBack"},
             txns' = [txns EXCEPT ![u] = NoHandle(status)]
      PROVE  txns'[t] = txns[t]
  BY <1>4 DEF IsOpen, NoHandle, TypeOK
<1>5. CASE \A u \in TxnIds : txns'[u] = NoHandle("unused")
  BY <1>5 DEF IsOpen, NoHandle
<1> QED
  BY <1>1, <1>2, <1>3, <1>4, <1>5, HandleSteps DEF HandleStep

-----------------------------------------------------------------------------
(* A caller that allocates through one handle at a time.  Its ids are those *)
(* of the generator: nothing is live, or buffered, under an id that a       *)
(* handle has staged and its commit has not reached.                        *)

FreshFrom(ops, k, g) ==
    \A i \in DOMAIN ops : i >= k =>
        /\ ops[i].kind = "InsertNode" => ops[i].id >= g.node
        /\ ops[i].kind = "InsertEdge" => ops[i].id >= g.edge

\* The first operation of t that no commit has reached.
Reached(t) == IF call.txn = t THEN call.k ELSE 1

ExclusiveInv ==
    \A t \in TxnIds : IsOpen(t) =>
        /\ \A u \in TxnIds : IsOpen(u) => u = t
        /\ FreshFrom(txns[t].ops, Reached(t), gen)
        /\ call.txn # t =>
              gen.node =< txns[t].idGen.node /\ gen.edge =< txns[t].idGen.edge

LEMMA ExclusiveInit == Init => ExclusiveInv
BY DEF Init, ExclusiveInv, IsOpen, NoHandle

\* A commit that goes on to its next operation.
LEMMA FreshNext ==
    ASSUME TypeOK, CommitInv, HandleInv, ExclusiveInv, NEW kind, AtOp(kind), NextOp,
           UNCHANGED txns, gen' \in Generator,
           gen'.node = (IF kind = "InsertNode" THEN Seeded(gen.node, Op.id) ELSE gen.node),
           gen'.edge = (IF kind = "InsertEdge" THEN Seeded(gen.edge, Op.id) ELSE gen.edge)
    PROVE  ExclusiveInv'
<1>1. /\ call.txn \in TxnIds /\ call.txn # 0 /\ call.k \in Nat \ {0} /\ call.k \in DOMAIN Ops
      /\ Op.kind = kind /\ Op = Ops[call.k]
      /\ call'.txn = call.txn /\ call'.k = call.k + 1
      /\ DOMAIN Ops = 1 .. Len(Ops) /\ Len(Ops) \in Nat
  BY AtOpFacts DEF Op
<1>2. /\ IsOpen(call.txn) /\ InOrder(Ops) /\ FreshFrom(Ops, call.k, gen)
      /\ \A u \in TxnIds : IsOpen(u) => u = call.txn
  BY <1>1 DEF CommitInv, HandleInv, ExclusiveInv, Ops, Reached
<1>3. /\ gen.node \in Nat /\ gen.edge \in Nat
      /\ \A i \in DOMAIN Ops : Ops[i].id \in Nat
  BY <1>1, GeneratorNat, OpsType, OpIdNat DEF TypeOK, Ops
<1>4. FreshFrom(Ops, call.k + 1, gen')
  <2> SUFFICES ASSUME NEW i \in DOMAIN Ops, i >= call.k + 1
               PROVE  /\ Ops[i].kind = "InsertNode" => Ops[i].id >= gen'.node
                      /\ Ops[i].kind = "InsertEdge" => Ops[i].id >= gen'.edge
    BY DEF FreshFrom
  <2>1. i \in Nat /\ call.k < i /\ i >= call.k
    BY <1>1
  <2>2. Ops[i].kind = "InsertNode" /\ kind = "InsertNode" => Op.id < Ops[i].id
    BY <1>1, <1>2, <2>1 DEF InOrder, NodeOps
  <2>3. Ops[i].kind = "InsertEdge" /\ kind = "InsertEdge" => Op.id < Ops[i].id
    BY <1>1, <1>2, <2>1 DEF InOrder, EdgeOps
  <2>4. /\ Ops[i].kind = "InsertNode" => Ops[i].id >= gen.node
        /\ Ops[i].kind = "InsertEdge" => Ops[i].id >= gen.edge
    BY <1>2, <2>1 DEF FreshFrom
  <2> QED BY <1>1, <1>3, <2>2, <2>3, <2>4 DEF Seeded
<1> QED
  BY <1>1, <1>2, <1>4 DEF ExclusiveInv, IsOpen, Reached, Ops

LEMMA ExclusiveNext ==
    ASSUME ExclusiveTxns
    PROVE  TypeOK /\ CommitInv /\ HandleInv /\ ExclusiveInv /\ [Next]_vars => ExclusiveInv'
<1> SUFFICES ASSUME TypeOK, CommitInv, HandleInv, ExclusiveInv, [Next]_vars
             PROVE  ExclusiveInv'
  OBVIOUS
<1>1. ASSUME UNCHANGED txns, NoOpenHandle PROVE ExclusiveInv'
  BY <1>1 DEF ExclusiveInv, NoOpenHandle, IsOpen
<1>2. ASSUME UNCHANGED <<txns, gen>>, call'.txn = call.txn, call'.k = call.k
      PROVE ExclusiveInv'
  BY <1>2 DEF ExclusiveInv, IsOpen, Reached
<1>3. gen \in Generator /\ gen.node \in Nat /\ gen.edge \in Nat
  BY GeneratorNat DEF TypeOK
<1>4. ASSUME NEW t \in TxnIds, IsOpen(t), NEW status \in {"committed", "failed", "rolledBack"},
             txns' = [txns EXCEPT ![t] = NoHandle(status)]
      PROVE ExclusiveInv'
  <2>1. \A u \in TxnIds : ~(IsOpen(u)')
    BY <1>4 DEF ExclusiveInv, IsOpen, NoHandle, TypeOK
  <2> QED BY <2>1 DEF ExclusiveInv
<1>5. CASE DirectStep
  <2>1. \/ NoOpenHandle /\ UNCHANGED txns
        \/ UNCHANGED <<txns, gen>> /\ call'.txn = call.txn /\ call'.k = call.k
    BY <1>5, CallShape
       DEF DirectStep, InsertNode, InsertNodeFails, InsertEdge, InsertEdgeFails, MayAllocate,
           DirectDeleteEdge, GetEdge, DirectDeleteNode, Deleting, GetNode, Compact, handles,
           memory, Idle, NoCall
  <2> QED BY <1>1, <1>2, <2>1
<1>6. CASE StagingStep
  <2>1. ASSUME BeginTransaction PROVE ExclusiveInv'
    <3>1. PICK n \in TxnIds :
              /\ txns'[n] = [status |-> "open", ops |-> <<>>, idGen |-> gen]
              /\ \A u \in TxnIds \ {n} : txns'[u] = txns[u]
      BY <2>1 DEF BeginTransaction, TypeOK
    <3>2. \A u \in TxnIds : ~IsOpen(u) /\ UNCHANGED gen
      BY <2>1 DEF BeginTransaction, MayAllocate, NoOpenHandle, IsOpen, memory
    <3> SUFFICES ASSUME NEW t \in TxnIds, IsOpen(t)'
                 PROVE  /\ \A u \in TxnIds : IsOpen(u)' => u = t
                        /\ FreshFrom(txns'[t].ops, Reached(t)', gen')
                        /\ call'.txn # t =>
                              gen'.node =< txns'[t].idGen.node /\ gen'.edge =< txns'[t].idGen.edge
      BY DEF ExclusiveInv
    <3>3. \A u \in TxnIds : IsOpen(u)' => u = n
      BY <3>1, <3>2 DEF IsOpen
    <3>4. t = n /\ DOMAIN txns'[t].ops = {} /\ txns'[t].idGen = gen
      BY <3>1, <3>3
    <3> QED BY <1>3, <3>2, <3>3, <3>4 DEF FreshFrom
  <2>2. ASSUME NEW t \in TxnIds, IsStaging(t) PROVE ExclusiveInv'
    <3>1. PICK op \in StagedOp, h \in Generator :
              Stage(t, op, h) /\ Follows(op, txns[t].idGen, h)
      BY <2>2, StagesNext
    <3>2. IsOpen(t) /\ call.txn = 0 /\ UNCHANGED <<gen, call>>
      BY <3>1, IdleNoTxn DEF Stage, memory
    <3>3. t # 0 /\ Reached(t) = 1 /\ Reached(t)' = 1
      BY <3>2 DEF Reached, TxnIds
    <3>4. /\ \A u \in TxnIds : IsOpen(u) => u = t
          /\ FreshFrom(txns[t].ops, 1, gen)
          /\ gen.node =< txns[t].idGen.node /\ gen.edge =< txns[t].idGen.edge
      BY <3>2, <3>3 DEF ExclusiveInv
    <3>5. /\ txns'[t].ops = Append(txns[t].ops, op) /\ txns'[t].idGen = h
          /\ \A u \in TxnIds : IsOpen(u)' => u = t
      BY <3>1, <3>4, StageHandle DEF IsOpen
    <3>6. txns[t].idGen.node \in Nat /\ txns[t].idGen.edge \in Nat /\ h.node \in Nat
          /\ h.edge \in Nat
      BY OpsType, GeneratorNat
    <3>7. FreshFrom(txns'[t].ops, 1, gen)
      BY <3>1, <3>4, <3>5, OpsType, AppendOp DEF FreshFrom, Follows
    <3>8. gen'.node =< txns'[t].idGen.node /\ gen'.edge =< txns'[t].idGen.edge
      BY <1>3, <3>1, <3>2, <3>4, <3>5, <3>6 DEF Follows
    <3> QED BY <3>2, <3>3, <3>5, <3>7, <3>8 DEF ExclusiveInv
  <2>3. ASSUME NEW t \in TxnIds, CommitStart(t) PROVE ExclusiveInv'
    <3>1. /\ IsOpen(t) /\ call.txn = 0 /\ call'.txn = t /\ call'.k = 1
          /\ UNCHANGED <<txns, gen>>
      BY <2>3, IdleNoTxn DEF CommitStart, Committing, NoCall, handles, memory
    <3>2. Reached(t) = 1 /\ Reached(t)' = 1
      BY <3>1 DEF Reached, TxnIds
    <3> QED BY <3>1, <3>2 DEF ExclusiveInv, IsOpen
  <2>4. ASSUME NEW t \in TxnIds, RollbackTransaction(t) \/ CommitStartFails(t)
        PROVE ExclusiveInv'
    BY <1>4, <2>4 DEF RollbackTransaction, CommitStartFails
  <2> QED
    BY <1>6, <2>1, <2>2, <2>3, <2>4 DEF StagingStep, IsStaging
<1>7. CASE CallStep
  <2>1. ASSUME NEW id \in EdgeIds, DeleteIncidentEdge(id) PROVE ExclusiveInv'
    <3>1. call'.txn = call.txn /\ call'.k = call.k /\ UNCHANGED <<txns, gen>>
      BY <2>1 DEF DeleteIncidentEdge, handles, TypeOK, Call, NoCall
    <3> QED BY <1>2, <3>1
  <2>2. ASSUME DeleteNodeFinish PROVE ExclusiveInv'
    <3>1. CASE call.txn = 0
      <4>1. call'.txn = 0 /\ UNCHANGED <<txns, gen>>
        BY <2>2, <3>1 DEF DeleteNodeFinish, NoCall, handles
      <4>2. \A t \in TxnIds : Reached(t) = 1 /\ Reached(t)' = 1
        BY <3>1, <4>1 DEF Reached, TxnIds
      <4> QED BY <3>1, <4>1, <4>2 DEF ExclusiveInv, IsOpen
    <3>2. CASE call.txn # 0
      <4>1. /\ call.txn \in TxnIds /\ call.k \in Nat /\ call'.txn = call.txn
            /\ call'.k = call.k + 1 /\ UNCHANGED <<txns, gen>>
        BY <2>2, <3>2, CallShape, DbAssumption
           DEF DeleteNodeFinish, TxnIds, Committing, NoCall, handles
      <4>2. /\ IsOpen(call.txn) /\ FreshFrom(Ops, call.k, gen)
            /\ \A u \in TxnIds : IsOpen(u) => u = call.txn
        BY <3>2, <4>1 DEF CommitInv, ExclusiveInv, Ops, Reached
      <4>3. FreshFrom(Ops, call.k + 1, gen)
        BY <4>1, <4>2, OpsType DEF FreshFrom, Ops
      <4> QED BY <4>1, <4>2, <4>3 DEF ExclusiveInv, IsOpen, Reached, Ops
    <3> QED BY <3>1, <3>2
  <2>3. ASSUME CommitInsertNode \/ CommitInsertEdge \/ CommitDeleteEdge PROVE ExclusiveInv'
    <3>1. gen' \in Generator
      BY <2>3, CallStepType DEF CallStep, TypeOK
    <3>2. CASE CommitInsertNode
      BY <1>3, <3>1, <3>2, FreshNext DEF CommitInsertNode, handles, Generator
    <3>3. CASE CommitInsertEdge
      BY <1>3, <3>1, <3>3, FreshNext DEF CommitInsertEdge, handles, Generator
    <3>4. CASE CommitDeleteEdge
      BY <3>1, <3>4, FreshNext DEF CommitDeleteEdge, handles
    <3> QED BY <2>3, <3>2, <3>3, <3>4
  <2>4. ASSUME CommitDeleteNode PROVE ExclusiveInv'
    BY <1>2, <2>4 DEF CommitDeleteNode, Deleting, handles, memory
  <2>5. ASSUME CommitRejectEdge \/ CommitFinish PROVE ExclusiveInv'
    <3>1. call.txn \in TxnIds /\ call.txn # 0
      BY <2>5, CallShape DEF CommitRejectEdge, CommitFinish, AtOp, TxnIds
    <3>2. IsOpen(call.txn)
      BY <3>1 DEF CommitInv
    <3> QED BY <1>4, <2>5, <3>1, <3>2 DEF CommitRejectEdge, CommitFinish, ReturnError
  <2> QED
    BY <1>7, <2>1, <2>2, <2>3, <2>4, <2>5 DEF CallStep
<1>8. CASE CallFails
  <2>1. ReturnError /\ UNCHANGED gen /\ call.pc \in {"deleting", "committing"}
    BY <1>8 DEF CallFails, DeleteNodeFailsEarly, DeleteNodeFailsLate, CommitFails, memory
  <2>2. CASE call.txn = 0
    <3>1. call'.txn = 0 /\ UNCHANGED txns
      BY <2>1, <2>2 DEF ReturnError, NoCall
    <3>2. \A t \in TxnIds : Reached(t) = 1 /\ Reached(t)' = 1
      BY <2>2, <3>1 DEF Reached, TxnIds
    <3> QED BY <2>1, <2>2, <3>1, <3>2 DEF ExclusiveInv, IsOpen
  <2>3. CASE call.txn # 0
    <3>1. call.txn \in TxnIds
      BY <2>1, <2>3, CallShape, DbAssumption DEF TxnIds
    <3>2. IsOpen(call.txn) /\ txns' = [txns EXCEPT ![call.txn] = NoHandle("failed")]
      BY <2>1, <2>3 DEF CommitInv, ReturnError
    <3> QED BY <1>4, <3>1, <3>2
  <2> QED BY <2>2, <2>3
<1>9. CASE CrashAndReopen
  BY <1>9 DEF CrashAndReopen, ExclusiveInv, IsOpen, NoHandle
<1>10. CASE UNCHANGED vars
  BY <1>2, <1>10 DEF vars
<1> QED
  BY <1>5, <1>6, <1>7, <1>8, <1>9, <1>10 DEF Next

-----------------------------------------------------------------------------
(* NeverOverwritten, for such a caller.  What a buffer holds is new to the  *)
(* live maps, so that applying it replaces nothing.                         *)

\* e keeps what d has, or has it no more.
Keeps(d, e) ==
    /\ \A id \in NodeIds : d.nodes[id] # Absent => e.nodes[id] \in {d.nodes[id], Absent}
    /\ \A id \in EdgeIds : d.edges[id] # Absent => e.edges[id] \in {d.edges[id], Absent}

BufferNew(d) ==
    d.buf.open =>
        /\ \A id \in NodeIds : d.buf.nIns[id] # Absent => d.nodes[id] = Absent
        /\ \A id \in EdgeIds : d.buf.eIns[id] # Absent => d.edges[id] = Absent

BufferNewInv == Markers /\ call.txn # 0 => BufferNew(disk)

NeverOverwrittenStep ==
    /\ \A id \in LiveNodes(disk) : disk'.nodes[id] \in {disk.nodes[id], Absent}
    /\ \A id \in LiveEdges(disk) : disk'.edges[id] \in {disk.edges[id], Absent}

LEMMA SaveNodeKeeps ==
    ASSUME NEW d \in Disk, NEW id \in NodeIds, NEW node \in NodeData, d.nodes[id] = Absent
    PROVE  /\ Keeps(d, SaveNode(d, id, node))
           /\ BufferNew(d) => BufferNew(SaveNode(d, id, node))
BY DEF Keeps, BufferNew, SaveNode, Disk, Buffer, NodeMap

LEMMA SaveEdgeKeeps ==
    ASSUME NEW d \in Disk, NEW id \in EdgeIds, NEW edge \in EdgeData, d.edges[id] = Absent
    PROVE  /\ Keeps(d, SaveEdge(d, id, edge))
           /\ BufferNew(d) => BufferNew(SaveEdge(d, id, edge))
BY DEF Keeps, BufferNew, SaveEdge, Disk, Buffer, EdgeMap

LEMMA DeleteKeeps ==
    ASSUME NEW d \in Disk
    PROVE  /\ \A id \in NodeIds :
                 /\ Keeps(d, DeleteNode(d, id))
                 /\ BufferNew(d) => BufferNew(DeleteNode(d, id))
           /\ \A id \in EdgeIds :
                 /\ Keeps(d, DeleteEdge(d, id))
                 /\ BufferNew(d) => BufferNew(DeleteEdge(d, id))
BY DEF Keeps, BufferNew, DeleteNode, DeleteEdge, Disk, Buffer, NodeMap, EdgeMap

LEMMA CommitTxnKeeps ==
    ASSUME NEW d \in Disk, NEW t, Markers => BufferNew(d)
    PROVE  Keeps(d, CommitTxn(d, t))
<1>1. CASE Markers /\ d.buf.open /\ d.buf.txn = t
  BY <1>1 DEF Keeps, BufferNew, CommitTxn, AppliedNodes, AppliedEdges
<1>2. CASE ~(Markers /\ d.buf.open /\ d.buf.txn = t)
  BY <1>2 DEF Keeps, CommitTxn, Disk
<1> QED
  BY <1>1, <1>2

LEMMA OnWriteKeeps ==
    ASSUME NEW d \in Disk, NEW c, OnWrite(d, c)
    PROVE  /\ \A b \in Disk : Keeps(b, d) => Keeps(b, disk')
           /\ BufferNew(d) => BufferNew(disk')
BY OnWriteDisk DEF Keeps, BufferNew, NoBuffer, FreshBuffer

LEMMA SameKeeps ==
    ASSUME disk'.nodes = disk.nodes, disk'.edges = disk.edges
    PROVE  Keeps(disk, disk')
BY DEF Keeps

\* What a commit is about to insert is not live yet.
LEMMA OpIsNew ==
    ASSUME ExclusiveTxns, TypeOK, GeneratorInv, CommitInv, ExclusiveInv
    PROVE  /\ AtOp("InsertNode") => disk.nodes[Op.id] = Absent
           /\ AtOp("InsertEdge") => disk.edges[Op.id] = Absent
<1>1. ASSUME NEW kind, AtOp(kind)
      PROVE  /\ Op \in StagedOp /\ Op.kind = kind
             /\ kind = "InsertNode" => Op.id >= gen.node
             /\ kind = "InsertEdge" => Op.id >= gen.edge
  <2>1. /\ call.txn \in TxnIds /\ call.txn # 0 /\ call.k \in DOMAIN Ops /\ call.k \in Nat
        /\ Op.kind = kind /\ Op \in StagedOp
    BY <1>1, AtOpFacts, OpType
  <2>2. FreshFrom(Ops, call.k, gen)
    BY <2>1 DEF CommitInv, ExclusiveInv, Reached, Ops
  <2>3. call.k >= call.k
    BY <2>1
  <2> QED BY <2>1, <2>2, <2>3 DEF FreshFrom, Op
<1>2. gen.node \in Nat /\ gen.edge \in Nat /\ LiveBelow(disk, gen)
  BY GeneratorNat DEF TypeOK, GeneratorInv
<1>3. ASSUME AtOp("InsertNode") PROVE disk.nodes[Op.id] = Absent
  <2>1. Op.id \in NodeIds /\ Op.id \in Nat /\ Op.id >= gen.node
    BY <1>1, <1>3, StagedOpType, OpIdNat
  <2> QED BY <1>2, <2>1 DEF LiveBelow
<1>4. ASSUME AtOp("InsertEdge") PROVE disk.edges[Op.id] = Absent
  <2>1. Op.id \in EdgeIds /\ Op.id \in Nat /\ Op.id >= gen.edge
    BY <1>1, <1>4, StagedOpType, OpIdNat
  <2> QED BY <1>2, <2>1 DEF LiveBelow
<1> QED
  BY <1>3, <1>4

LEMMA NeverOverwrittenNext ==
    ASSUME ExclusiveTxns
    PROVE  TypeOK /\ GeneratorInv /\ CommitInv /\ ExclusiveInv /\ BufferNewInv /\ [Next]_vars
              => BufferNewInv' /\ NeverOverwrittenStep
<1> SUFFICES ASSUME TypeOK, GeneratorInv, CommitInv, ExclusiveInv, BufferNewInv, [Next]_vars
             PROVE  BufferNewInv' /\ NeverOverwrittenStep
  OBVIOUS
<1>1. disk \in Disk /\ LiveBelow(disk, gen) /\ gen.node \in Nat /\ gen.edge \in Nat
  BY GeneratorNat DEF TypeOK, GeneratorInv
<1>2. Keeps(disk, disk') => NeverOverwrittenStep
  BY DEF Keeps, NeverOverwrittenStep, LiveNodes, LiveEdges
<1> SUFFICES BufferNewInv' /\ Keeps(disk, disk')
  BY <1>2
<1>3. Idle => call.txn = 0
  BY IdleNoTxn
<1>4. CASE DirectStep
  <2>1. call'.txn = 0
    BY <1>3, <1>4
       DEF DirectStep, InsertNode, InsertNodeFails, InsertEdge, InsertEdgeFails,
           DirectDeleteEdge, GetEdge, DirectDeleteNode, Deleting, GetNode, Compact
  <2>2. ASSUME NEW node \in NodeData, InsertNode(node) PROVE Keeps(disk, disk')
    <3>1. gen.node \in NodeIds /\ disk.nodes[gen.node] = Absent
      BY <1>1, <2>2, StorageAssumption DEF InsertNode, LiveBelow, NodeIds
    <3> QED BY <1>1, <2>2, <3>1, SaveNodeKeeps, SaveNodeType, OnWriteKeeps DEF InsertNode
  <2>3. ASSUME NEW edge \in EdgeData, InsertEdge(edge) PROVE Keeps(disk, disk')
    <3>1. gen.edge \in EdgeIds /\ disk.edges[gen.edge] = Absent
      BY <1>1, <2>3, StorageAssumption DEF InsertEdge, LiveBelow, EdgeIds
    <3> QED BY <1>1, <2>3, <3>1, SaveEdgeKeeps, SaveEdgeType, OnWriteKeeps DEF InsertEdge
  <2>4. ASSUME NEW id \in EdgeIds, DirectDeleteEdge(id) PROVE Keeps(disk, disk')
    BY <1>1, <2>4, DeleteKeeps, DeleteEdgeType, OnWriteKeeps DEF DirectDeleteEdge, RemoveEdge
  <2>5. ASSUME Compact PROVE Keeps(disk, disk')
    BY <1>1, <2>5 DEF Compact, CompactLog, Disk, Keeps
  <2>6. ASSUME UNCHANGED disk PROVE Keeps(disk, disk')
    BY <2>6 DEF Keeps
  <2>7. Keeps(disk, disk')
    BY <1>4, <2>2, <2>3, <2>4, <2>5, <2>6
       DEF DirectStep, InsertNodeFails, InsertEdgeFails, GetEdge, DirectDeleteNode, GetNode
  <2> QED BY <2>1, <2>7 DEF BufferNewInv
<1>5. CASE StagingStep
  <2>1. ASSUME NEW t \in TxnIds, CommitStart(t) PROVE BufferNewInv' /\ Keeps(disk, disk')
    <3>1. disk' = BeginTxn(disk, t)
      BY <2>1 DEF CommitStart
    <3>2. disk'.nodes = disk.nodes /\ disk'.edges = disk.edges
      BY <1>1, <3>1 DEF BeginTxn, Disk
    <3>3. Markers => disk'.buf.nIns = NoNodes /\ disk'.buf.eIns = NoEdges
      BY <1>1, <3>1 DEF BeginTxn, FreshBuffer, Disk
    <3> QED BY <3>2, <3>3, SameKeeps DEF BufferNewInv, BufferNew, NoNodes, NoEdges
  <2>2. CASE UNCHANGED <<disk, call>>
    BY <2>2, SameKeeps DEF BufferNewInv, BufferNew
  <2> QED
    BY <1>5, <2>1, <2>2
       DEF StagingStep, BeginTransaction, StageInsertNode, StageInsertEdge,
           StageDeleteNode, StageDeleteEdge, Stage, RollbackTransaction, CommitStartFails
<1>6. CASE CallStep
  <2>1. ASSUME NEW id \in EdgeIds, DeleteIncidentEdge(id)
        PROVE  BufferNewInv' /\ Keeps(disk, disk')
    <3>1. call'.txn = call.txn
      BY <2>1 DEF DeleteIncidentEdge, TypeOK, Call, NoCall
    <3> QED BY <1>1, <2>1, <3>1, DeleteKeeps DEF DeleteIncidentEdge, BufferNewInv
  <2>2. ASSUME DeleteNodeFinish PROVE BufferNewInv' /\ Keeps(disk, disk')
    <3>1. call.node \in NodeIds /\ (call'.txn # 0 => call.txn # 0)
      BY <2>2, CallShape DEF DeleteNodeFinish, NoCall
    <3>2. PICK c : OnWrite(DeleteNode(disk, call.node), c)
      BY <2>2 DEF DeleteNodeFinish
    <3> QED BY <1>1, <3>1, <3>2, DeleteKeeps, DeleteNodeType, OnWriteKeeps DEF BufferNewInv
  <2>3. ASSUME CommitInsertNode PROVE BufferNewInv' /\ Keeps(disk, disk')
    <3>1. Op.id \in NodeIds /\ Op.node \in NodeData /\ disk.nodes[Op.id] = Absent
      BY <2>3, OpType, StagedOpType, OpIsNew DEF CommitInsertNode
    <3>2. call.txn # 0
      BY <2>3, AtOpFacts DEF CommitInsertNode
    <3> QED BY <1>1, <2>3, <3>1, <3>2, SaveNodeKeeps DEF CommitInsertNode, BufferNewInv
  <2>4. ASSUME CommitInsertEdge PROVE BufferNewInv' /\ Keeps(disk, disk')
    <3>1. Op.id \in EdgeIds /\ Op.edge \in EdgeData /\ disk.edges[Op.id] = Absent
      BY <2>4, OpType, StagedOpType, OpIsNew DEF CommitInsertEdge
    <3>2. call.txn # 0
      BY <2>4, AtOpFacts DEF CommitInsertEdge
    <3> QED BY <1>1, <2>4, <3>1, <3>2, SaveEdgeKeeps DEF CommitInsertEdge, BufferNewInv
  <2>5. ASSUME CommitRejectEdge PROVE BufferNewInv' /\ Keeps(disk, disk')
    <3>1. call'.txn = 0 /\ disk'.nodes = disk.nodes /\ disk'.edges = disk.edges
      BY <1>1, <2>5 DEF CommitRejectEdge, ReturnError, NoCall, RollbackTxn, Disk
    <3> QED BY <3>1, SameKeeps DEF BufferNewInv
  <2>6. ASSUME CommitDeleteNode PROVE BufferNewInv' /\ Keeps(disk, disk')
    BY <2>6, SameKeeps DEF CommitDeleteNode, Deleting, BufferNewInv, BufferNew
  <2>7. ASSUME CommitDeleteEdge PROVE BufferNewInv' /\ Keeps(disk, disk')
    <3>1. Op.id \in EdgeIds /\ call.txn # 0
      BY <2>7, OpType, StagedOpType, AtOpFacts DEF CommitDeleteEdge
    <3> QED
      BY <1>1, <2>7, <3>1, DeleteKeeps, DeleteEdgeType, OnWriteKeeps
         DEF CommitDeleteEdge, RemoveEdge, BufferNewInv
  <2>8. ASSUME CommitFinish PROVE BufferNewInv' /\ Keeps(disk, disk')
    <3>1. call.txn \in Nat /\ call.txn # 0 /\ call'.txn = 0
      BY <2>8, CallShape DEF CommitFinish, TxnIds, NoCall
    <3>2. CommitTxn(disk, call.txn) \in Disk /\ Keeps(disk, CommitTxn(disk, call.txn))
      BY <1>1, <3>1, MarkerTypes, CommitTxnKeeps DEF BufferNewInv
    <3> QED BY <1>1, <2>8, <3>1, <3>2, OnWriteKeeps DEF CommitFinish, BufferNewInv
  <2> QED
    BY <1>6, <2>1, <2>2, <2>3, <2>4, <2>5, <2>6, <2>7, <2>8 DEF CallStep
<1>7. CASE CallFails \/ CrashAndReopen
  <2>1. UNCHANGED disk /\ call'.txn = 0
    BY <1>7 DEF CallFails, DeleteNodeFailsEarly, DeleteNodeFailsLate, CommitFails,
                ReturnError, NoCall, CrashAndReopen
  <2> QED BY <2>1, SameKeeps DEF BufferNewInv
<1>8. CASE UNCHANGED vars
  BY <1>8, SameKeeps DEF vars, BufferNewInv, BufferNew
<1> QED
  BY <1>4, <1>5, <1>6, <1>7, <1>8 DEF Next

LEMMA HandlesCorrect ==
    ASSUME ExclusiveTxns
    PROVE  Spec => [](TypeOK /\ GeneratorInv /\ CommitInv /\ HandleInv /\ ExclusiveInv)
<1>1. Init => GeneratorInv /\ CommitInv /\ HandleInv /\ ExclusiveInv
  BY GeneratorInit, CommitInvInit, HandleInvInit, ExclusiveInit
<1>2. TypeOK /\ GeneratorInv /\ CommitInv /\ HandleInv /\ ExclusiveInv /\ [Next]_vars
        => GeneratorInv' /\ CommitInv' /\ HandleInv' /\ ExclusiveInv'
  BY GeneratorNext, CommitInvNext, HandleInvNext, ExclusiveNext
<1> QED
  BY <1>1, <1>2, TypeCorrect, PTL DEF Spec

\* When the ids are allocated through one handle at a time, a live node or edge
\* keeps its content until it is deleted: no insertion, direct or committed,
\* comes under an id that is in use, not even after a failed commit has left
\* its records in the log.
THEOREM NothingOverwritten ==
    ASSUME ExclusiveTxns
    PROVE  Spec => NeverOverwritten
<1>1. Init => BufferNewInv
  BY DEF Init, BufferNewInv, NoCall
<1>2. TypeOK /\ GeneratorInv /\ CommitInv /\ ExclusiveInv /\ BufferNewInv /\ [Next]_vars
        => BufferNewInv' /\ [NeverOverwrittenStep]_vars
  BY NeverOverwrittenNext
<1> QED
  BY <1>1, <1>2, HandlesCorrect, PTL DEF Spec, NeverOverwritten, NeverOverwrittenStep

-----------------------------------------------------------------------------
(* The engine's three maps agree: the same nodes are keys of both adjacency *)
(* maps, the lists hold the edges of the endpoint table and no others, and  *)
(* the endpoints are keys.  Each operation of the engine keeps them so.     *)

IsArc(a, edge) == edge # Absent /\ a[1] = edge.src /\ a[3] = edge.tgt

IsBackArc(a, edge) == edge # Absent /\ a[1] = edge.tgt /\ a[3] = edge.src

WellFormed(g) ==
    /\ g.inKeys = g.outKeys
    /\ \A a \in Arc : a \in g.out <=> IsArc(a, g.ends[a[2]])
    /\ \A a \in Arc : a \in g.in <=> IsBackArc(a, g.ends[a[2]])
    /\ \A e \in EdgeIds :
          g.ends[e] # Absent => g.ends[e].src \in g.outKeys /\ g.ends[e].tgt \in g.outKeys

\* The endpoints of the live edges are live.
EndpointsLive(nodes, edges) ==
    \A e \in EdgeIds :
        edges[e] # Absent => nodes[edges[e].src] # Absent /\ nodes[edges[e].tgt] # Absent

LEMMA ArcParts ==
    ASSUME NEW a \in Arc
    PROVE  a[1] \in NodeIds /\ a[2] \in EdgeIds /\ a[3] \in NodeIds /\ a = <<a[1], a[2], a[3]>>
BY DEF Arc

LEMMA EdgeEnds ==
    ASSUME NEW edges \in EdgeMap, NEW e \in EdgeIds, edges[e] # Absent
    PROVE  edges[e] \in EdgeData /\ edges[e].src \in NodeIds /\ edges[e].tgt \in NodeIds
BY DEF EdgeMap, EdgeData

LEMMA InsertNodeWellFormed ==
    ASSUME NEW g \in Engine, NEW id \in NodeIds, WellFormed(g)
    PROVE  LET h == EngineInsertNode(g, id)
           IN WellFormed(h) /\ h.outKeys = g.outKeys \cup {id} /\ h.ends = g.ends
BY DEF WellFormed, EngineInsertNode, Engine

LEMMA InsertEdgeWellFormed ==
    ASSUME NEW g \in Engine, NEW id \in EdgeIds, NEW edge \in EdgeData, WellFormed(g),
           g.ends[id] = Absent, edge.src \in g.outKeys, edge.tgt \in g.outKeys
    PROVE  LET h == EngineInsertEdge(g, id, edge)
           IN /\ WellFormed(h) /\ h.outKeys = g.outKeys
              /\ h.ends = [g.ends EXCEPT ![id] = edge]
<1> DEFINE h == EngineInsertEdge(g, id, edge)
<1>1. edge # Absent /\ edge.src \in NodeIds /\ edge.tgt \in NodeIds
  BY StorageAssumption DEF EdgeData
<1>2. /\ h.outKeys = g.outKeys /\ h.inKeys = g.outKeys
      /\ h.out = g.out \cup {<<edge.src, id, edge.tgt>>}
      /\ h.in = g.in \cup {<<edge.tgt, id, edge.src>>}
      /\ h.ends = [g.ends EXCEPT ![id] = edge]
  BY DEF EngineInsertEdge, Engine, WellFormed
<1>3. /\ h.ends[id] = edge
      /\ \A e \in EdgeIds : e # id => h.ends[e] = g.ends[e]
  BY <1>2 DEF Engine, EdgeMap
<1> HIDE DEF h
<1>4. ASSUME NEW a \in Arc PROVE a \in h.out <=> IsArc(a, h.ends[a[2]])
  BY <1>1, <1>2, <1>3, ArcParts DEF WellFormed, IsArc
<1>5. ASSUME NEW a \in Arc PROVE a \in h.in <=> IsBackArc(a, h.ends[a[2]])
  BY <1>1, <1>2, <1>3, ArcParts DEF WellFormed, IsBackArc
<1>6. WellFormed(h)
  BY <1>2, <1>3, <1>4, <1>5 DEF WellFormed
<1> QED
  BY <1>2, <1>6 DEF h

LEMMA RemoveEdgeWellFormed ==
    ASSUME NEW g \in Engine, NEW id \in EdgeIds, WellFormed(g)
    PROVE  LET h == EngineRemoveEdge(g, id)
           IN /\ WellFormed(h) /\ h.outKeys = g.outKeys
              /\ h.ends = [g.ends EXCEPT ![id] = Absent]
<1>1. CASE g.ends[id] = Absent
  <2>1. g.ends = [g.ends EXCEPT ![id] = Absent]
    BY <1>1 DEF Engine, EdgeMap
  <2> QED BY <1>1, <2>1 DEF EngineRemoveEdge
<1>2. CASE g.ends[id] # Absent
  <2> DEFINE h == EngineRemoveEdge(g, id)
  <2>1. /\ h.outKeys = g.outKeys /\ h.inKeys = g.outKeys
        /\ h.out = {a \in g.out : ~(a[1] = g.ends[id].src /\ a[2] = id)}
        /\ h.in = {a \in g.in : ~(a[1] = g.ends[id].tgt /\ a[2] = id)}
        /\ h.ends = [g.ends EXCEPT ![id] = Absent]
    BY <1>2 DEF EngineRemoveEdge, Engine, WellFormed
  <2>2. /\ h.ends[id] = Absent
        /\ \A e \in EdgeIds : e # id => h.ends[e] = g.ends[e]
    BY <2>1 DEF Engine, EdgeMap
  <2> HIDE DEF h
  <2>3. ASSUME NEW a \in Arc PROVE a \in h.out <=> IsArc(a, h.ends[a[2]])
    BY <2>1, <2>2, ArcParts DEF WellFormed, IsArc
  <2>4. ASSUME NEW a \in Arc PROVE a \in h.in <=> IsBackArc(a, h.ends[a[2]])
    BY <2>1, <2>2, ArcParts DEF WellFormed, IsBackArc
  <2>5. WellFormed(h)
    BY <2>1, <2>2, <2>3, <2>4 DEF WellFormed
  <2> QED BY <2>1, <2>5 DEF h
<1> QED
  BY <1>1, <1>2

LEMMA RemoveNodeWellFormed ==
    ASSUME NEW g \in Engine, NEW id \in NodeIds, WellFormed(g)
    PROVE  LET h == EngineRemoveNode(g, id)
           IN /\ WellFormed(h) /\ h.outKeys = g.outKeys \ {id}
              /\ h.ends = [e \in EdgeIds |-> IF Touches(g.ends[e], id) THEN Absent ELSE g.ends[e]]
<1> DEFINE h == EngineRemoveNode(g, id)
           gone == {e \in EdgeIds : Touches(g.ends[e], id)}
<1>1. /\ h.outKeys = g.outKeys \ {id} /\ h.inKeys = g.outKeys \ {id}
      /\ h.out = {a \in g.out : a[1] # id /\ ~(a[2] \in gone /\ a[1] = g.ends[a[2]].src)}
      /\ h.in = {a \in g.in : a[1] # id /\ ~(a[2] \in gone /\ a[1] = g.ends[a[2]].tgt)}
      /\ h.ends = [e \in EdgeIds |-> IF Touches(g.ends[e], id) THEN Absent ELSE g.ends[e]]
  BY DEF EngineRemoveNode, WellFormed
<1>2. \A e \in EdgeIds : h.ends[e] = IF Touches(g.ends[e], id) THEN Absent ELSE g.ends[e]
  BY <1>1
<1>3. \A e \in EdgeIds : e \in gone <=> Touches(g.ends[e], id)
  OBVIOUS
<1> HIDE DEF h, gone
<1>4. ASSUME NEW a \in Arc PROVE a \in h.out <=> IsArc(a, h.ends[a[2]])
  BY <1>1, <1>2, <1>3, ArcParts DEF WellFormed, IsArc, Touches
<1>5. ASSUME NEW a \in Arc PROVE a \in h.in <=> IsBackArc(a, h.ends[a[2]])
  BY <1>1, <1>2, <1>3, ArcParts DEF WellFormed, IsBackArc, Touches
<1>6. WellFormed(h)
  BY <1>1, <1>2, <1>4, <1>5 DEF WellFormed, Touches
<1> QED
  BY <1>1, <1>6 DEF h

\* The lists of a node name the edges that touch it.
LEMMA IncidentTouches ==
    ASSUME NEW g \in Engine, NEW id \in NodeIds, WellFormed(g)
    PROVE  IncidentEdges(g, id) = {e \in EdgeIds : Touches(g.ends[e], id)}
<1>1. ASSUME NEW e \in IncidentEdges(g, id) PROVE e \in EdgeIds /\ Touches(g.ends[e], id)
  <2>1. PICK a \in g.out \cup g.in : a[1] = id /\ e = a[2]
    BY <1>1 DEF IncidentEdges, NeighborsOutgoing, NeighborsIncoming
  <2>2. a \in Arc
    BY DEF Engine
  <2> QED BY <2>1, <2>2, ArcParts DEF WellFormed, IsArc, IsBackArc, Touches
<1>2. ASSUME NEW e \in EdgeIds, Touches(g.ends[e], id) PROVE e \in IncidentEdges(g, id)
  <2>1. g.ends[e] # Absent /\ g.ends[e].src \in NodeIds /\ g.ends[e].tgt \in NodeIds
    BY <1>2, EdgeEnds DEF Engine, Touches
  <2>2. CASE id = g.ends[e].src
    <3> DEFINE a == <<id, e, g.ends[e].tgt>>
    <3>1. a \in Arc /\ a[1] = id /\ a[2] = e /\ a[3] = g.ends[e].tgt
      BY <2>1 DEF Arc
    <3>2. a \in g.out
      BY <2>1, <2>2, <3>1 DEF WellFormed, IsArc
    <3> QED BY <3>1, <3>2 DEF IncidentEdges, NeighborsOutgoing
  <2>3. CASE id = g.ends[e].tgt
    <3> DEFINE a == <<id, e, g.ends[e].src>>
    <3>1. a \in Arc /\ a[1] = id /\ a[2] = e /\ a[3] = g.ends[e].src
      BY <2>1 DEF Arc
    <3>2. a \in g.in
      BY <2>1, <2>3, <3>1 DEF WellFormed, IsBackArc
    <3> QED BY <3>1, <3>2 DEF IncidentEdges, NeighborsIncoming
  <2> QED BY <1>2, <2>2, <2>3 DEF Touches
<1> QED
  BY <1>1, <1>2

\* What open_with_config builds is the well-formed engine of those edges.
LEMMA EngineOfIsWellFormed ==
    ASSUME NEW d \in Disk, EndpointsLive(d.nodes, d.edges)
    PROVE  /\ WellFormed(EngineOf(d))
           /\ EngineOf(d).outKeys = LiveNodes(d) /\ EngineOf(d).ends = d.edges
<1> DEFINE g == EngineOf(d)
<1>1. \A e \in LiveEdges(d) :
         /\ e \in EdgeIds /\ d.edges[e] # Absent
         /\ d.edges[e].src \in LiveNodes(d) /\ d.edges[e].tgt \in LiveNodes(d)
  BY EdgeEnds DEF LiveEdges, LiveNodes, EndpointsLive, Disk
<1>2. g.outKeys = LiveNodes(d) /\ g.inKeys = LiveNodes(d) /\ g.ends = d.edges
  BY <1>1 DEF EngineOf
<1>3. /\ g.out = {<<d.edges[e].src, e, d.edges[e].tgt>> : e \in LiveEdges(d)}
      /\ g.in = {<<d.edges[e].tgt, e, d.edges[e].src>> : e \in LiveEdges(d)}
  BY DEF EngineOf
<1> HIDE DEF g
<1>4. ASSUME NEW a \in Arc PROVE a \in g.out <=> IsArc(a, g.ends[a[2]])
  BY <1>2, <1>3, ArcParts DEF IsArc, LiveEdges
<1>5. ASSUME NEW a \in Arc PROVE a \in g.in <=> IsBackArc(a, g.ends[a[2]])
  BY <1>2, <1>3, ArcParts DEF IsBackArc, LiveEdges
<1>6. \A e \in EdgeIds :
         g.ends[e] # Absent => g.ends[e].src \in g.outKeys /\ g.ends[e].tgt \in g.outKeys
  BY <1>1, <1>2 DEF LiveEdges
<1> QED
  BY <1>2, <1>4, <1>5, <1>6 DEF WellFormed, g

\* It is the only one.
LEMMA WellFormedIsEngineOf ==
    ASSUME NEW d \in Disk, NEW g \in Engine, WellFormed(g), g.outKeys = LiveNodes(d),
           g.ends = d.edges
    PROVE  EndpointsLive(d.nodes, d.edges) /\ g = EngineOf(d)
<1>1. EndpointsLive(d.nodes, d.edges)
  BY DEF WellFormed, EndpointsLive, LiveNodes
<1> DEFINE h == EngineOf(d)
<1>2. /\ h \in Engine /\ WellFormed(h) /\ h.outKeys = g.outKeys /\ h.ends = g.ends
  BY <1>1, EngineOfType, EngineOfIsWellFormed
<1> HIDE DEF h
<1>3. g.inKeys = h.inKeys
  BY <1>2 DEF WellFormed
<1>4. g.out = h.out
  BY <1>2 DEF WellFormed, Engine
<1>5. g.in = h.in
  BY <1>2 DEF WellFormed, Engine
<1>6. g = h
  BY <1>2, <1>3, <1>4, <1>5 DEF Engine
<1> QED
  BY <1>1, <1>6 DEF h

-----------------------------------------------------------------------------
(* The graph the memory stands for.  Between calls it is what a replay of   *)
(* the log yields; during a commit inside a buffer it is what a replay will *)
(* yield when COMMIT_TXN has been appended.                                 *)

NodesSeen(d, inTxn) == IF inTxn /\ d.buf.open THEN AppliedNodes(d) ELSE d.nodes
EdgesSeen(d, inTxn) == IF inTxn /\ d.buf.open THEN AppliedEdges(d) ELSE d.edges

InTxn == call.txn # 0
Buffering == InTxn /\ disk.buf.open
SeenNodes == NodesSeen(disk, InTxn)
SeenEdges == EdgesSeen(disk, InTxn)

LEMMA SeenType ==
    ASSUME NEW d \in Disk, NEW b
    PROVE  NodesSeen(d, b) \in NodeMap /\ EdgesSeen(d, b) \in EdgeMap
BY DEF NodesSeen, EdgesSeen, AppliedNodes, AppliedEdges, Disk, Buffer, NodeMap, EdgeMap

\* One record changes one entry of it, provided that a record which lands in a
\* buffer belongs to a commit, and an upsert does not follow its tombstone.
LEMMA SaveNodeSeen ==
    ASSUME NEW d \in Disk, NEW b \in BOOLEAN, NEW id \in NodeIds, NEW node \in NodeData,
           d.buf.open => b /\ id \notin d.buf.nDel
    PROVE  /\ NodesSeen(SaveNode(d, id, node), b) = [NodesSeen(d, b) EXCEPT ![id] = node]
           /\ EdgesSeen(SaveNode(d, id, node), b) = EdgesSeen(d, b)
<1> DEFINE e == SaveNode(d, id, node)
<1>1. node # Absent
  BY StorageAssumption
<1>2. CASE d.buf.open
  <2>1. /\ e.buf.open /\ e.nodes = d.nodes /\ e.edges = d.edges
        /\ e.buf.nIns = [d.buf.nIns EXCEPT ![id] = node]
        /\ e.buf.nDel = d.buf.nDel /\ e.buf.eIns = d.buf.eIns /\ e.buf.eDel = d.buf.eDel
    BY <1>2 DEF SaveNode, Disk, Buffer
  <2> HIDE DEF e
  <2>2. AppliedNodes(e) = [AppliedNodes(d) EXCEPT ![id] = node]
    BY <1>1, <1>2, <2>1 DEF AppliedNodes, Disk, Buffer, NodeMap
  <2>3. AppliedEdges(e) = AppliedEdges(d)
    BY <2>1 DEF AppliedEdges
  <2> QED BY <1>2, <2>1, <2>2, <2>3 DEF NodesSeen, EdgesSeen, e
<1>3. CASE ~d.buf.open
  BY <1>3 DEF SaveNode, NodesSeen, EdgesSeen, Disk
<1> QED
  BY <1>2, <1>3 DEF Disk, Buffer

LEMMA SaveEdgeSeen ==
    ASSUME NEW d \in Disk, NEW b \in BOOLEAN, NEW id \in EdgeIds, NEW edge \in EdgeData,
           d.buf.open => b /\ id \notin d.buf.eDel
    PROVE  /\ EdgesSeen(SaveEdge(d, id, edge), b) = [EdgesSeen(d, b) EXCEPT ![id] = edge]
           /\ NodesSeen(SaveEdge(d, id, edge), b) = NodesSeen(d, b)
<1> DEFINE e == SaveEdge(d, id, edge)
<1>1. edge # Absent
  BY StorageAssumption
<1>2. CASE d.buf.open
  <2>1. /\ e.buf.open /\ e.nodes = d.nodes /\ e.edges = d.edges
        /\ e.buf.eIns = [d.buf.eIns EXCEPT ![id] = edge]
        /\ e.buf.nDel = d.buf.nDel /\ e.buf.nIns = d.buf.nIns /\ e.buf.eDel = d.buf.eDel
    BY <1>2 DEF SaveEdge, Disk, Buffer
  <2> HIDE DEF e
  <2>2. AppliedEdges(e) = [AppliedEdges(d) EXCEPT ![id] = edge]
    BY <1>1, <1>2, <2>1 DEF AppliedEdges, Disk, Buffer, EdgeMap
  <2>3. AppliedNodes(e) = AppliedNodes(d)
    BY <2>1 DEF AppliedNodes
  <2> QED BY <1>2, <2>1, <2>2, <2>3 DEF NodesSeen, EdgesSeen, e
<1>3. CASE ~d.buf.open
  BY <1>3 DEF SaveEdge, NodesSeen, EdgesSeen, Disk
<1> QED
  BY <1>2, <1>3 DEF Disk, Buffer

LEMMA DeleteNodeSeen ==
    ASSUME NEW d \in Disk, NEW b \in BOOLEAN, NEW id \in NodeIds, d.buf.open => b
    PROVE  /\ NodesSeen(DeleteNode(d, id), b) = [NodesSeen(d, b) EXCEPT ![id] = Absent]
           /\ EdgesSeen(DeleteNode(d, id), b) = EdgesSeen(d, b)
<1> DEFINE e == DeleteNode(d, id)
<1>1. CASE d.buf.open
  <2>1. /\ e.buf.open /\ e.nodes = d.nodes /\ e.edges = d.edges
        /\ e.buf.nDel = d.buf.nDel \cup {id}
        /\ e.buf.nIns = d.buf.nIns /\ e.buf.eIns = d.buf.eIns /\ e.buf.eDel = d.buf.eDel
    BY <1>1 DEF DeleteNode, Disk, Buffer
  <2> HIDE DEF e
  <2>2. AppliedNodes(e) = [AppliedNodes(d) EXCEPT ![id] = Absent]
    BY <2>1 DEF AppliedNodes
  <2>3. AppliedEdges(e) = AppliedEdges(d)
    BY <2>1 DEF AppliedEdges
  <2> QED BY <1>1, <2>1, <2>2, <2>3 DEF NodesSeen, EdgesSeen, e
<1>2. CASE ~d.buf.open
  BY <1>2 DEF DeleteNode, NodesSeen, EdgesSeen, Disk
<1> QED
  BY <1>1, <1>2 DEF Disk, Buffer

LEMMA DeleteEdgeSeen ==
    ASSUME NEW d \in Disk, NEW b \in BOOLEAN, NEW id \in EdgeIds, d.buf.open => b
    PROVE  /\ EdgesSeen(DeleteEdge(d, id), b) = [EdgesSeen(d, b) EXCEPT ![id] = Absent]
           /\ NodesSeen(DeleteEdge(d, id), b) = NodesSeen(d, b)
<1> DEFINE e == DeleteEdge(d, id)
<1>1. CASE d.buf.open
  <2>1. /\ e.buf.open /\ e.nodes = d.nodes /\ e.edges = d.edges
        /\ e.buf.eDel = d.buf.eDel \cup {id}
        /\ e.buf.nIns = d.buf.nIns /\ e.buf.eIns = d.buf.eIns /\ e.buf.nDel = d.buf.nDel
    BY <1>1 DEF DeleteEdge, Disk, Buffer
  <2> HIDE DEF e
  <2>2. AppliedEdges(e) = [AppliedEdges(d) EXCEPT ![id] = Absent]
    BY <2>1 DEF AppliedEdges
  <2>3. AppliedNodes(e) = AppliedNodes(d)
    BY <2>1 DEF AppliedNodes
  <2> QED BY <1>1, <2>1, <2>2, <2>3 DEF NodesSeen, EdgesSeen, e
<1>2. CASE ~d.buf.open
  BY <1>2 DEF DeleteEdge, NodesSeen, EdgesSeen, Disk
<1> QED
  BY <1>1, <1>2 DEF Disk, Buffer

\* A fresh buffer hides nothing, and COMMIT_TXN makes the log what was seen.
LEMMA MarkersSeen ==
    ASSUME NEW d \in Disk, NEW t \in Nat
    PROVE  /\ d.buf = FreshBuffer(TRUE, t) =>
                 AppliedNodes(d) = d.nodes /\ AppliedEdges(d) = d.edges
           /\ BeginTxn(d, t).nodes = d.nodes /\ BeginTxn(d, t).edges = d.edges
           /\ Markers /\ d.buf.open /\ d.buf.txn = t =>
                 /\ CommitTxn(d, t).nodes = NodesSeen(d, TRUE)
                 /\ CommitTxn(d, t).edges = EdgesSeen(d, TRUE)
           /\ ~Markers /\ ~d.buf.open =>
                 /\ CommitTxn(d, t).nodes = NodesSeen(d, TRUE)
                 /\ CommitTxn(d, t).edges = EdgesSeen(d, TRUE)
<1>1. ASSUME d.buf = FreshBuffer(TRUE, t)
      PROVE  AppliedNodes(d) = d.nodes /\ AppliedEdges(d) = d.edges
  <2>1. d.buf.nIns = NoNodes /\ d.buf.eIns = NoEdges /\ d.buf.nDel = {} /\ d.buf.eDel = {}
    BY <1>1 DEF FreshBuffer
  <2>2. \A id \in NodeIds : AppliedNodes(d)[id] = d.nodes[id]
    BY <2>1 DEF AppliedNodes, NoNodes
  <2>3. \A id \in EdgeIds : AppliedEdges(d)[id] = d.edges[id]
    BY <2>1 DEF AppliedEdges, NoEdges
  <2> QED BY <2>2, <2>3 DEF AppliedNodes, AppliedEdges, Disk, NodeMap, EdgeMap
<1>2. BeginTxn(d, t).nodes = d.nodes /\ BeginTxn(d, t).edges = d.edges
  BY DEF BeginTxn, Disk
<1>3. Markers /\ d.buf.open /\ d.buf.txn = t =>
         /\ CommitTxn(d, t).nodes = NodesSeen(d, TRUE)
         /\ CommitTxn(d, t).edges = EdgesSeen(d, TRUE)
  BY DEF CommitTxn, NodesSeen, EdgesSeen
<1>4. ~Markers /\ ~d.buf.open =>
         /\ CommitTxn(d, t).nodes = NodesSeen(d, TRUE)
         /\ CommitTxn(d, t).edges = EdgesSeen(d, TRUE)
  BY DEF CommitTxn, NodesSeen, EdgesSeen, Disk
<1> QED
  BY <1>1, <1>2, <1>3, <1>4

-----------------------------------------------------------------------------
(* The buffer.  Without markers none is ever open.  With them a commit runs *)
(* inside the buffer it opened, unless a compaction has cut it off, which   *)
(* is damage; and before its first operation the buffer is empty.           *)

BufferInv ==
    /\ ~Markers => ~disk.buf.open
    /\ damage = "none" /\ Markers /\ InTxn =>
         /\ disk.buf.open /\ disk.buf.txn = call.txn
         /\ call.pc = "committing" /\ call.k = 1 => disk.buf = FreshBuffer(TRUE, call.txn)

\* A record leaves the buffer open, or closed, under its transaction.
LEMMA RecordsKeepBuffer ==
    ASSUME NEW d \in Disk
    PROVE  /\ \A id \in NodeIds, node \in NodeData :
                 LET b == SaveNode(d, id, node).buf
                 IN b.open = d.buf.open /\ b.txn = d.buf.txn
           /\ \A id \in EdgeIds, edge \in EdgeData :
                 LET b == SaveEdge(d, id, edge).buf
                 IN b.open = d.buf.open /\ b.txn = d.buf.txn
           /\ \A id \in NodeIds :
                 LET b == DeleteNode(d, id).buf
                 IN b.open = d.buf.open /\ b.txn = d.buf.txn
           /\ \A id \in EdgeIds :
                 LET b == DeleteEdge(d, id).buf
                 IN b.open = d.buf.open /\ b.txn = d.buf.txn
BY DEF SaveNode, SaveEdge, DeleteNode, DeleteEdge, Disk, Buffer

LEMMA ClosedBuffers ==
    ASSUME NEW d \in Disk, NEW t
    PROVE  /\ ~RollbackTxn(d).buf.open /\ ~CompactLog(d).buf.open
           /\ ~CommitTxn(d, t).buf.open
BY DEF RollbackTxn, CompactLog, CommitTxn, NoBuffer, FreshBuffer, Disk

\* What a write leaves when it has done no damage: it was counted, and with
\* compaction the buffer that might have been lost was not open.
LEMMA OnWriteSound ==
    ASSUME TypeOK, NEW d \in Disk, NEW c, OnWrite(d, c)
    PROVE  /\ disk'.nodes = d.nodes /\ disk'.edges = d.edges
           /\ ~d.buf.open => ~disk'.buf.open
           /\ damage' = "none" =>
                /\ damage = "none"
                /\ disk.buf.open => call.txn # 0
                /\ \/ disk' = d /\ cache' = c
                   \/ disk'.buf = NoBuffer /\ ~d.buf.open /\ cache' = EmptyCache
<1>1. disk'.nodes = d.nodes /\ disk'.edges = d.edges
  BY OnWriteDisk
<1>2. ~CompactLog(d).buf.open /\ CompactLog(d).buf = NoBuffer
  BY ClosedBuffers DEF CompactLog, Disk
<1>3. /\ \/ disk' = d /\ cache' = c /\ damage' = AfterAppend
         \/ /\ disk' = CompactLog(d) /\ cache' = EmptyCache
            /\ damage' = IF d.buf.open THEN "log" ELSE AfterAppend
  BY DEF OnWrite
<1>4. AfterAppend = "none" => damage = "none" /\ (disk.buf.open => call.txn # 0)
  BY DEF AfterAppend
<1>5. ~d.buf.open => ~disk'.buf.open
  BY <1>2, <1>3
<1> QED
  BY <1>1, <1>2, <1>3, <1>4, <1>5

LEMMA BufferInit == Init => BufferInv
BY DEF Init, BufferInv, InTxn, NoCall, EmptyDisk, NoBuffer, FreshBuffer

LEMMA BufferNext == TypeOK /\ CommitInv /\ BufferInv /\ [Next]_vars => BufferInv'
<1> SUFFICES ASSUME TypeOK, CommitInv, BufferInv, [Next]_vars PROVE BufferInv'
  OBVIOUS
<1>1. disk \in Disk /\ (~Markers => ~disk.buf.open)
  BY DEF TypeOK, BufferInv
<1>2. ASSUME call'.txn = 0, disk.buf.open \/ Markers \/ ~disk'.buf.open PROVE BufferInv'
  BY <1>1, <1>2 DEF BufferInv, InTxn
<1>3. ASSUME UNCHANGED <<disk, call, damage>> PROVE BufferInv'
  BY <1>3 DEF BufferInv, InTxn
<1>4. Idle => call.txn = 0
  BY IdleNoTxn
<1>5. ASSUME NEW d \in Disk, NEW c, OnWrite(d, c), ~disk.buf.open => ~d.buf.open,
             d.buf.txn = disk.buf.txn, disk.buf.open => d.buf.open,
             call'.txn # 0 => call'.txn = call.txn /\ call'.k # 1
      PROVE BufferInv'
  <2>1. ~Markers => ~disk'.buf.open
    BY <1>1, <1>5, OnWriteSound
  <2>2. ASSUME damage' = "none", Markers, call'.txn # 0
        PROVE  disk'.buf.open /\ disk'.buf.txn = call'.txn
    <3>1. /\ damage = "none" /\ call.txn # 0
          /\ disk' = d \/ ~d.buf.open
      BY <1>5, <2>2, OnWriteSound
    <3>2. disk.buf.open /\ disk.buf.txn = call.txn
      BY <2>2, <3>1 DEF BufferInv, InTxn
    <3> QED BY <1>5, <2>2, <3>1, <3>2
  <2> QED BY <1>5, <2>1, <2>2 DEF BufferInv, InTxn
<1>6. ASSUME NEW d \in Disk, disk' = d, damage' = AfterAppend,
             d.buf.open = disk.buf.open, d.buf.txn = disk.buf.txn,
             call'.txn # 0 => call'.txn = call.txn /\
                              (call'.k # 1 \/ call'.pc = "deleting")
      PROVE BufferInv'
  <2>1. damage' = "none" => damage = "none"
    BY <1>6 DEF AfterAppend
  <2> QED BY <1>1, <1>6, <2>1 DEF BufferInv, InTxn
<1>7. CASE DirectStep
  <2>1. ASSUME NEW node \in NodeData, InsertNode(node) PROVE BufferInv'
    <3>1. gen.node \in NodeIds /\ call'.txn = 0
      BY <1>4, <2>1, StorageAssumption DEF InsertNode, TypeOK, Generator, NodeIds
    <3> QED
      BY <1>1, <1>5, <2>1, <3>1, SaveNodeType, RecordsKeepBuffer DEF InsertNode
  <2>2. ASSUME NEW edge \in EdgeData, InsertEdge(edge) PROVE BufferInv'
    <3>1. gen.edge \in EdgeIds /\ call'.txn = 0
      BY <1>4, <2>2, StorageAssumption DEF InsertEdge, TypeOK, Generator, EdgeIds
    <3> QED
      BY <1>1, <1>5, <2>2, <3>1, SaveEdgeType, RecordsKeepBuffer DEF InsertEdge
  <2>3. ASSUME NEW id \in EdgeIds, DirectDeleteEdge(id) PROVE BufferInv'
    BY <1>1, <1>4, <1>5, <2>3, DeleteEdgeType, RecordsKeepBuffer
       DEF DirectDeleteEdge, RemoveEdge
  <2>4. ASSUME NEW id \in NodeIds, DirectDeleteNode(id) PROVE BufferInv'
    BY <1>1, <1>2, <2>4 DEF DirectDeleteNode, Deleting
  <2>5. ASSUME Compact PROVE BufferInv'
    BY <1>1, <1>2, <1>4, <2>5, ClosedBuffers DEF Compact
  <2>6. CASE UNCHANGED <<disk, call, damage>>
    BY <1>3, <2>6
  <2> QED
    BY <1>7, <2>1, <2>2, <2>3, <2>4, <2>5, <2>6
       DEF DirectStep, InsertNodeFails, InsertEdgeFails, GetEdge, GetNode
<1>8. CASE StagingStep
  <2>1. ASSUME NEW t \in TxnIds, CommitStart(t) PROVE BufferInv'
    <3>1. disk' = BeginTxn(disk, t) /\ call'.txn = t
      BY <2>1 DEF CommitStart, Committing, NoCall
    <3>2. Markers => disk'.buf = FreshBuffer(TRUE, t)
      BY <1>1, <3>1 DEF BeginTxn, Disk
    <3>3. ~Markers => disk' = disk
      BY <3>1 DEF BeginTxn
    <3> QED BY <1>1, <3>1, <3>2, <3>3 DEF BufferInv, FreshBuffer
  <2>2. CASE UNCHANGED <<disk, call, damage>>
    BY <1>3, <2>2
  <2> QED
    BY <1>8, <2>1, <2>2
       DEF StagingStep, BeginTransaction, StageInsertNode, StageInsertEdge,
           StageDeleteNode, StageDeleteEdge, Stage, RollbackTransaction, CommitStartFails
<1>9. CASE CallStep
  <2>1. ASSUME NEW id \in EdgeIds, DeleteIncidentEdge(id) PROVE BufferInv'
    <3>1. call'.txn = call.txn /\ call'.pc = "deleting"
      BY <2>1 DEF DeleteIncidentEdge, TypeOK, Call, NoCall
    <3>2. DeleteEdge(disk, id) \in Disk
      BY <1>1, DeleteEdgeType
    <3> QED BY <1>1, <1>6, <2>1, <3>1, <3>2, RecordsKeepBuffer DEF DeleteIncidentEdge
  <2>2. ASSUME DeleteNodeFinish PROVE BufferInv'
    <3>1. call.node \in NodeIds /\ call.k \in Nat
      BY <2>2, CallShape DEF DeleteNodeFinish
    <3>2. call'.txn # 0 => call'.txn = call.txn /\ call'.k # 1
      <4>1. call.txn # 0 => call.k \in DOMAIN Ops /\ call.txn \in TxnIds
        BY <2>2, CallShape, DbAssumption DEF DeleteNodeFinish, CommitInv, TxnIds
      <4>2. call.txn # 0 => call.k >= 1
        BY <4>1, OpsType DEF Ops
      <4> QED BY <2>2, <3>1, <4>2 DEF DeleteNodeFinish, Committing, NoCall
    <3>3. PICK c : OnWrite(DeleteNode(disk, call.node), c)
      BY <2>2 DEF DeleteNodeFinish
    <3> QED BY <1>1, <1>5, <3>1, <3>2, <3>3, DeleteNodeType, RecordsKeepBuffer
  <2>3. ASSUME NEW kind, AtOp(kind), NextOp
        PROVE  call'.txn = call.txn /\ call'.k # 1
    BY <2>3, AtOpFacts
  <2>4. ASSUME CommitInsertNode PROVE BufferInv'
    <3>1. Op.id \in NodeIds /\ Op.node \in NodeData
      BY <2>4, OpType, StagedOpType DEF CommitInsertNode
    <3>2. SaveNode(disk, Op.id, Op.node) \in Disk
      BY <1>1, <3>1, SaveNodeType
    <3> QED BY <1>1, <1>6, <2>3, <2>4, <3>1, <3>2, RecordsKeepBuffer DEF CommitInsertNode
  <2>5. ASSUME CommitInsertEdge PROVE BufferInv'
    <3>1. Op.id \in EdgeIds /\ Op.edge \in EdgeData
      BY <2>5, OpType, StagedOpType DEF CommitInsertEdge
    <3>2. SaveEdge(disk, Op.id, Op.edge) \in Disk
      BY <1>1, <3>1, SaveEdgeType
    <3> QED BY <1>1, <1>6, <2>3, <2>5, <3>1, <3>2, RecordsKeepBuffer DEF CommitInsertEdge
  <2>6. ASSUME CommitRejectEdge PROVE BufferInv'
    BY <1>1, <1>2, <2>6, ClosedBuffers DEF CommitRejectEdge, ReturnError, NoCall
  <2>7. ASSUME CommitDeleteNode PROVE BufferInv'
    <3>1. /\ call'.txn = call.txn /\ call'.pc = "deleting" /\ UNCHANGED <<disk, damage>>
      BY <2>7 DEF CommitDeleteNode, Deleting
    <3> QED BY <3>1 DEF BufferInv, InTxn
  <2>8. ASSUME CommitDeleteEdge PROVE BufferInv'
    <3>1. Op.id \in EdgeIds
      BY <2>8, OpType, StagedOpType DEF CommitDeleteEdge
    <3> QED
      BY <1>1, <1>5, <2>3, <2>8, <3>1, DeleteEdgeType, RecordsKeepBuffer
         DEF CommitDeleteEdge, RemoveEdge
  <2>9. ASSUME CommitFinish PROVE BufferInv'
    <3>1. call.txn \in Nat /\ call'.txn = 0
      BY <2>9, CallShape DEF CommitFinish, TxnIds, NoCall
    <3>2. /\ CommitTxn(disk, call.txn) \in Disk /\ ~CommitTxn(disk, call.txn).buf.open
      BY <1>1, <3>1, MarkerTypes, ClosedBuffers
    <3>3. ~disk'.buf.open
      BY <2>9, <3>2, OnWriteSound DEF CommitFinish
    <3> QED BY <1>2, <3>1, <3>3
  <2> QED
    BY <1>9, <2>1, <2>2, <2>4, <2>5, <2>6, <2>7, <2>8, <2>9 DEF CallStep
<1>10. CASE CallFails \/ CrashAndReopen
  <2>1. UNCHANGED disk /\ call'.txn = 0
    BY <1>10 DEF CallFails, DeleteNodeFailsEarly, DeleteNodeFailsLate, CommitFails,
                 ReturnError, NoCall, CrashAndReopen
  <2> QED BY <1>1, <1>2, <2>1
<1>11. CASE UNCHANGED vars
  BY <1>3, <1>11 DEF vars
<1> QED
  BY <1>7, <1>8, <1>9, <1>10, <1>11 DEF Next

-----------------------------------------------------------------------------
(* An edge in the engine has an id the generator has passed, and so has an  *)
(* edge that a deletion in progress is about to tombstone.                  *)

IncidentInv ==
    /\ \A a \in engine.out \cup engine.in : a[2] < gen.edge
    /\ call.pc = "deleting" => \A e \in call.incident : e < gen.edge

LEMMA IncidentInit == Init => IncidentInv
BY DEF Init, IncidentInv, EmptyEngine, NoCall

LEMMA IncidentNext == TypeOK /\ GeneratorInv /\ IncidentInv /\ [Next]_vars => IncidentInv'
<1> SUFFICES ASSUME TypeOK, GeneratorInv, IncidentInv, [Next]_vars PROVE IncidentInv'
  OBVIOUS
<1> DEFINE Arcs == engine.out \cup engine.in
<1>1. engine \in Engine /\ \A a \in Arcs : a \in Arc /\ a[2] \in Nat
  BY ArcParts DEF TypeOK, Engine, EdgeIds
<1>2. ASSUME crashes' = crashes,
             \A a \in Arcs' : a \in Arcs \/ a[2] < gen'.edge,
             call'.pc = "deleting" => \A e \in call'.incident : e \in Nat /\ e < gen.edge
      PROVE  IncidentInv'
  <2>1. gen.edge \in Nat /\ gen'.edge \in Nat /\ gen'.edge >= gen.edge
    BY <1>2, GeneratorRises
  <2> QED BY <1>1, <1>2, <2>1 DEF IncidentInv
<1>3. call.pc = "deleting" => \A e \in call.incident : e \in Nat /\ e < gen.edge
  BY CallShape DEF IncidentInv, EdgeIds
<1>4. ASSUME NEW id \in NodeIds
      PROVE  /\ \A e \in IncidentEdges(engine, id) : e \in Nat /\ e < gen.edge
             /\ EngineInsertNode(engine, id).out = engine.out
             /\ EngineInsertNode(engine, id).in = engine.in
             /\ EngineRemoveNode(engine, id).out \subseteq engine.out
             /\ EngineRemoveNode(engine, id).in \subseteq engine.in
  BY <1>1 DEF IncidentEdges, NeighborsOutgoing, NeighborsIncoming, IncidentInv,
              EngineInsertNode, EngineRemoveNode, Engine
<1>5. ASSUME NEW id \in EdgeIds
      PROVE  /\ EngineRemoveEdge(engine, id).out \subseteq engine.out
             /\ EngineRemoveEdge(engine, id).in \subseteq engine.in
  BY <1>1 DEF EngineRemoveEdge, Engine
<1>6. ASSUME NEW id \in EdgeIds, NEW edge, engine' = EngineInsertEdge(engine, id, edge)
      PROVE  \A a \in Arcs' : a \in Arcs \/ a[2] = id
  BY <1>1, <1>6 DEF EngineInsertEdge, Engine
<1>7. CASE DirectStep
  <2>1. crashes' = crashes
    BY <1>7
       DEF DirectStep, InsertNode, InsertNodeFails, InsertEdge, InsertEdgeFails,
           DirectDeleteEdge, GetEdge, DirectDeleteNode, GetNode, Compact
  <2>2. ASSUME NEW node \in NodeData, InsertNode(node) PROVE IncidentInv'
    <3>1. gen.node \in NodeIds
      BY <2>2, StorageAssumption DEF InsertNode, TypeOK, Generator, NodeIds
    <3> QED BY <1>2, <1>3, <1>4, <2>1, <2>2, <3>1 DEF InsertNode, IndexNode
  <2>3. ASSUME NEW edge \in EdgeData, InsertEdge(edge) PROVE IncidentInv'
    <3>1. gen.edge \in EdgeIds /\ gen.edge < gen'.edge
      BY <2>3, StorageAssumption DEF InsertEdge, TypeOK, Generator, EdgeIds
    <3> QED BY <1>2, <1>3, <1>6, <2>1, <2>3, <3>1 DEF InsertEdge
  <2>4. ASSUME NEW id \in EdgeIds, DirectDeleteEdge(id) PROVE IncidentInv'
    BY <1>2, <1>3, <1>5, <2>1, <2>4 DEF DirectDeleteEdge, RemoveEdge
  <2>5. ASSUME NEW id \in NodeIds, DirectDeleteNode(id) PROVE IncidentInv'
    BY <1>2, <1>4, <2>1, <2>5 DEF DirectDeleteNode, Deleting, memory
  <2>6. CASE UNCHANGED <<engine, call>>
    BY <1>2, <1>3, <2>1, <2>6
  <2> QED
    BY <1>7, <2>2, <2>3, <2>4, <2>5, <2>6
       DEF DirectStep, InsertNodeFails, InsertEdgeFails, GetEdge, GetNode, Compact
<1>8. CASE StagingStep
  <2>1. crashes' = crashes /\ UNCHANGED engine /\ (UNCHANGED call \/ call'.pc = "committing")
    BY <1>8
       DEF StagingStep, BeginTransaction, StageInsertNode, StageInsertEdge,
           StageDeleteNode, StageDeleteEdge, Stage, RollbackTransaction, CommitStart,
           Committing, NoCall, CommitStartFails, memory
  <2> QED BY <1>2, <1>3, <2>1
<1>9. CASE CallStep
  <2>1. crashes' = crashes
    BY <1>9
       DEF CallStep, DeleteIncidentEdge, DeleteNodeFinish, CommitInsertNode,
           CommitInsertEdge, CommitRejectEdge, CommitDeleteNode, CommitDeleteEdge, CommitFinish
  <2>2. ASSUME NEW id \in EdgeIds, DeleteIncidentEdge(id) PROVE IncidentInv'
    <3>1. call'.incident \subseteq call.incident
      BY <2>2 DEF DeleteIncidentEdge, TypeOK, Call, NoCall
    <3> QED BY <1>2, <1>3, <2>1, <2>2, <3>1 DEF DeleteIncidentEdge
  <2>3. ASSUME DeleteNodeFinish PROVE IncidentInv'
    <3>1. call.node \in NodeIds /\ call'.pc # "deleting"
      BY <2>3, CallShape DEF DeleteNodeFinish, Committing, NoCall
    <3> QED BY <1>2, <1>4, <2>1, <2>3, <3>1 DEF DeleteNodeFinish
  <2>4. ASSUME CommitInsertNode PROVE IncidentInv'
    <3>1. Op.id \in NodeIds /\ call'.pc # "deleting"
      BY <2>4, OpType, StagedOpType, AtOpFacts DEF CommitInsertNode
    <3> QED BY <1>2, <1>4, <2>1, <2>4, <3>1 DEF CommitInsertNode, IndexNode
  <2>5. ASSUME CommitInsertEdge PROVE IncidentInv'
    <3>1. Op.id \in EdgeIds /\ call'.pc # "deleting"
      BY <2>5, OpType, StagedOpType, AtOpFacts DEF CommitInsertEdge
    <3>2. Op.id < gen'.edge
      BY <2>5, <3>1, StorageAssumption
         DEF CommitInsertEdge, TypeOK, Generator, Seeded, EdgeIds
    <3> QED BY <1>2, <1>6, <2>1, <2>5, <3>1, <3>2 DEF CommitInsertEdge
  <2>6. ASSUME CommitRejectEdge \/ CommitFinish PROVE IncidentInv'
    <3>1. call'.pc # "deleting" /\ UNCHANGED engine
      BY <2>6 DEF CommitRejectEdge, CommitFinish, ReturnError, NoCall, memory
    <3> QED BY <1>2, <2>1, <3>1
  <2>7. ASSUME CommitDeleteNode PROVE IncidentInv'
    <3>1. Op.id \in NodeIds
      BY <2>7, OpType, StagedOpType DEF CommitDeleteNode
    <3> QED BY <1>2, <1>4, <2>1, <2>7, <3>1 DEF CommitDeleteNode, Deleting, memory
  <2>8. ASSUME CommitDeleteEdge PROVE IncidentInv'
    <3>1. Op.id \in EdgeIds /\ call'.pc # "deleting"
      BY <2>8, OpType, StagedOpType, AtOpFacts DEF CommitDeleteEdge
    <3> QED BY <1>2, <1>5, <2>1, <2>8, <3>1 DEF CommitDeleteEdge, RemoveEdge
  <2> QED
    BY <1>9, <2>2, <2>3, <2>4, <2>5, <2>6, <2>7, <2>8 DEF CallStep
<1>10. CASE CallFails
  <2>1. crashes' = crashes /\ UNCHANGED engine /\ call'.pc # "deleting"
    BY <1>10 DEF CallFails, DeleteNodeFailsEarly, DeleteNodeFailsLate, CommitFails,
                 ReturnError, NoCall, memory
  <2> QED BY <1>2, <2>1
<1>11. CASE CrashAndReopen
  <2>1. /\ call'.pc # "deleting" /\ engine' = EngineOf(disk)
        /\ \A id \in LiveEdges(disk) : id < gen'.edge
    BY <1>11 DEF CrashAndReopen, IsSeeded, NoCall
  <2>2. \A a \in Arcs' : a[2] \in LiveEdges(disk)
    BY <2>1 DEF EngineOf
  <2> QED BY <2>1, <2>2 DEF IncidentInv
<1>12. CASE UNCHANGED vars
  BY <1>12 DEF vars, IncidentInv
<1> QED
  BY <1>7, <1>8, <1>9, <1>10, <1>11, <1>12 DEF Next

-----------------------------------------------------------------------------
(* Replay applies the tombstones of a buffer after its upserts.  It comes   *)
(* to the same as the order of the operations because no operation still to *)
(* come inserts what the buffer has a tombstone for.                        *)

\* The caller the theorems below are about.  Without markers nothing is
\* buffered, and the order of the records is the order of the operations.
Careful == ExclusiveTxns /\ (Markers => ~GuessedIds)

Spared(ops, k, b) ==
    \A i \in DOMAIN ops : i >= k =>
        /\ ops[i].kind = "InsertNode" => ops[i].id \notin b.nDel
        /\ ops[i].kind = "InsertEdge" => ops[i].id \notin b.eDel

SparedInv == Markers /\ Buffering => Spared(Ops, call.k, disk.buf)

\* What each record adds to the tombstones of a buffer.
LEMMA RecordTombstones ==
    ASSUME NEW d \in Disk, d.buf.open
    PROVE  /\ \A id \in NodeIds, node \in NodeData :
                 LET b == SaveNode(d, id, node).buf
                 IN b.nDel = d.buf.nDel /\ b.eDel = d.buf.eDel
           /\ \A id \in EdgeIds, edge \in EdgeData :
                 LET b == SaveEdge(d, id, edge).buf
                 IN b.nDel = d.buf.nDel /\ b.eDel = d.buf.eDel
           /\ \A id \in NodeIds :
                 LET b == DeleteNode(d, id).buf
                 IN b.nDel = d.buf.nDel \cup {id} /\ b.eDel = d.buf.eDel
           /\ \A id \in EdgeIds :
                 LET b == DeleteEdge(d, id).buf
                 IN b.nDel = d.buf.nDel /\ b.eDel = d.buf.eDel \cup {id}
BY DEF SaveNode, SaveEdge, DeleteNode, DeleteEdge, Disk, Buffer

\* A deletion names an id that no later operation of its transaction inserts.
LEMMA DeletedForGood ==
    ASSUME ~GuessedIds, TypeOK, HandleInv, NEW t \in TxnIds, IsOpen(t),
           NEW k \in DOMAIN txns[t].ops, NEW i \in DOMAIN txns[t].ops, k < i
    PROVE  /\ txns[t].ops[k].kind = "DeleteNode" /\ txns[t].ops[i].kind = "InsertNode"
                 => txns[t].ops[i].id # txns[t].ops[k].id
           /\ txns[t].ops[k].kind = "DeleteEdge" /\ txns[t].ops[i].kind = "InsertEdge"
                 => txns[t].ops[i].id # txns[t].ops[k].id
<1>1. txns[t].ops[k].id \in Nat /\ txns[t].ops[i].id \in Nat
  BY OpsType, OpIdNat
<1>2. InOrder(txns[t].ops)
  BY DEF HandleInv
<1> QED
  BY <1>1, <1>2 DEF InOrder, NodeOps, EdgeOps

LEMMA SparedInit == Init => SparedInv
BY DEF Init, SparedInv, Buffering, InTxn, NoCall

LEMMA SparedNext ==
    ASSUME Careful
    PROVE  TypeOK /\ CommitInv /\ HandleInv /\ ExclusiveInv /\ IncidentInv /\ SparedInv
              /\ [Next]_vars => SparedInv'
<1> SUFFICES ASSUME TypeOK, CommitInv, HandleInv, ExclusiveInv, IncidentInv, SparedInv,
                    [Next]_vars
             PROVE  SparedInv'
  OBVIOUS
<1>1. CASE call'.txn = 0
  BY <1>1 DEF SparedInv, Buffering, InTxn
<1>2. CASE ~Markers
  BY <1>2 DEF SparedInv
<1>3. CASE UNCHANGED <<disk, call, txns>>
  BY <1>3 DEF SparedInv, Buffering, InTxn, Ops, Spared
<1>4. ASSUME NEW d \in Disk, NEW c, OnWrite(d, c), disk'.buf.open PROVE disk'.buf = d.buf
  BY <1>4, OnWriteDisk DEF NoBuffer, FreshBuffer
<1>5. ASSUME call.txn # 0, call'.txn = call.txn, UNCHANGED txns, Markers, disk'.buf.open
      PROVE  /\ Ops' = Ops /\ DOMAIN Ops = 1 .. Len(Ops) /\ Len(Ops) \in Nat
             /\ call.txn \in TxnIds /\ IsOpen(call.txn) /\ call.k \in Nat /\ ~GuessedIds
             /\ FreshFrom(Ops, call.k, gen)
             /\ \A i \in DOMAIN Ops : Ops[i].id \in Nat
             /\ disk.buf.open => Spared(Ops, call.k, disk.buf)
  <2>1. call.txn \in TxnIds /\ call.k \in Nat
    BY <1>5, CallShape, DbAssumption DEF TxnIds, NoCall
  <2>2. IsOpen(call.txn) /\ FreshFrom(Ops, call.k, gen)
    BY <1>5, <2>1 DEF CommitInv, ExclusiveInv, Reached, Ops
  <2> QED BY <1>5, <2>1, <2>2, OpsType, OpIdNat DEF Careful, Ops, SparedInv, Buffering, InTxn
<1>6. CASE DirectStep
  <2>1. call'.txn = 0
    BY <1>6, IdleNoTxn
       DEF DirectStep, InsertNode, InsertNodeFails, InsertEdge, InsertEdgeFails,
           DirectDeleteEdge, GetEdge, DirectDeleteNode, Deleting, GetNode, Compact
  <2> QED BY <1>1, <2>1
<1>7. CASE StagingStep
  <2>1. ASSUME NEW t \in TxnIds, CommitStart(t), Markers PROVE SparedInv'
    <3>1. disk'.buf = FreshBuffer(TRUE, t)
      BY <2>1 DEF CommitStart, BeginTxn, TypeOK, Disk
    <3> QED BY <3>1 DEF SparedInv, Spared, FreshBuffer
  <2>2. CASE UNCHANGED call /\ Idle
    BY <1>1, <2>2, IdleNoTxn
  <2> QED
    BY <1>2, <1>7, <2>1, <2>2
       DEF StagingStep, BeginTransaction, StageInsertNode, StageInsertEdge,
           StageDeleteNode, StageDeleteEdge, Stage, RollbackTransaction, CommitStartFails
<1>8. CASE CallStep /\ Markers /\ call'.txn # 0
  <2> SUFFICES ASSUME disk'.buf.open, CallStep PROVE Spared(Ops', call'.k, disk'.buf)
    BY <1>8 DEF SparedInv, Buffering
  <2>0. disk \in Disk
    BY DEF TypeOK
  <2>1. ASSUME NEW id \in EdgeIds, DeleteIncidentEdge(id)
        PROVE Spared(Ops', call'.k, disk'.buf)
    <3>1. call'.txn = call.txn /\ call'.k = call.k /\ UNCHANGED txns /\ call.txn # 0
      BY <1>8, <2>1 DEF DeleteIncidentEdge, TypeOK, Call, NoCall, handles
    <3>2. disk.buf.open /\ disk'.buf.nDel = disk.buf.nDel
          /\ disk'.buf.eDel = disk.buf.eDel \cup {id}
      BY <2>0, <2>1, RecordsKeepBuffer, RecordTombstones DEF DeleteIncidentEdge
    <3>3. id < gen.edge /\ gen.edge \in Nat /\ id \in Nat
      BY <2>1, GeneratorNat DEF DeleteIncidentEdge, IncidentInv, TypeOK, EdgeIds
    <3> SUFFICES ASSUME NEW i \in DOMAIN Ops, i >= call.k
                 PROVE  /\ Ops[i].kind = "InsertNode" => Ops[i].id \notin disk'.buf.nDel
                        /\ Ops[i].kind = "InsertEdge" => Ops[i].id \notin disk'.buf.eDel
      BY <1>5, <1>8, <3>1 DEF Spared
    <3>4. Ops[i].kind = "InsertEdge" => Ops[i].id # id
      BY <1>5, <1>8, <3>1, <3>3 DEF FreshFrom
    <3> QED BY <1>5, <1>8, <3>1, <3>2, <3>4 DEF Spared
  <2>2. ASSUME DeleteNodeFinish PROVE Spared(Ops', call'.k, disk'.buf)
    <3>1. /\ call'.txn = call.txn /\ call'.k = call.k + 1 /\ UNCHANGED txns /\ call.txn # 0
          /\ call.pc = "deleting"
      BY <1>8, <2>2 DEF DeleteNodeFinish, Committing, NoCall, handles
    <3>2. call.node \in NodeIds
      BY <3>1, CallShape
    <3>3. PICK c : OnWrite(DeleteNode(disk, call.node), c)
      BY <2>2 DEF DeleteNodeFinish
    <3>4. disk.buf.open /\ disk'.buf.nDel = disk.buf.nDel \cup {call.node}
          /\ disk'.buf.eDel = disk.buf.eDel
      BY <1>4, <2>0, <3>2, <3>3, DeleteNodeType, RecordsKeepBuffer, RecordTombstones
    <3>5. call.k \in DOMAIN Ops /\ Ops[call.k].kind = "DeleteNode" /\ Ops[call.k].id = call.node
      BY <3>1 DEF CommitInv, Op
    <3> SUFFICES ASSUME NEW i \in DOMAIN Ops, i >= call.k + 1
                 PROVE  /\ Ops[i].kind = "InsertNode" => Ops[i].id \notin disk'.buf.nDel
                        /\ Ops[i].kind = "InsertEdge" => Ops[i].id \notin disk'.buf.eDel
      BY <1>5, <1>8, <3>1 DEF Spared
    <3>6. i >= call.k /\ call.k < i
      BY <1>5, <1>8, <3>1
    <3>7. Ops[i].kind = "InsertNode" => Ops[i].id # call.node
      BY <1>5, <1>8, <3>1, <3>5, <3>6, DeletedForGood DEF Ops
    <3> QED BY <1>5, <1>8, <3>1, <3>4, <3>6, <3>7 DEF Spared
  <2>3. ASSUME NEW kind, AtOp(kind), NextOp, UNCHANGED handles, disk.buf.open,
               \A i \in DOMAIN Ops : call.k < i =>
                  /\ Ops[i].kind = "InsertNode" /\ Ops[i].id \notin disk.buf.nDel
                        => Ops[i].id \notin disk'.buf.nDel
                  /\ Ops[i].kind = "InsertEdge" /\ Ops[i].id \notin disk.buf.eDel
                        => Ops[i].id \notin disk'.buf.eDel
        PROVE Spared(Ops', call'.k, disk'.buf)
    <3>1. /\ call'.txn = call.txn /\ call'.k = call.k + 1 /\ UNCHANGED txns /\ call.txn # 0
      BY <2>3, AtOpFacts DEF handles
    <3> SUFFICES ASSUME NEW i \in DOMAIN Ops, i >= call.k + 1
                 PROVE  /\ Ops[i].kind = "InsertNode" => Ops[i].id \notin disk'.buf.nDel
                        /\ Ops[i].kind = "InsertEdge" => Ops[i].id \notin disk'.buf.eDel
      BY <1>5, <1>8, <3>1 DEF Spared
    <3>2. i >= call.k /\ call.k < i
      BY <1>5, <1>8, <3>1
    <3> QED BY <1>5, <1>8, <2>3, <3>1, <3>2 DEF Spared
  <2>4. ASSUME CommitInsertNode PROVE Spared(Ops', call'.k, disk'.buf)
    <3>1. Op.id \in NodeIds /\ Op.node \in NodeData
      BY <2>4, OpType, StagedOpType DEF CommitInsertNode
    <3>2. disk.buf.open /\ disk'.buf.nDel = disk.buf.nDel /\ disk'.buf.eDel = disk.buf.eDel
      BY <2>0, <2>4, <3>1, RecordsKeepBuffer, RecordTombstones DEF CommitInsertNode
    <3> QED BY <2>3, <2>4, <3>2 DEF CommitInsertNode
  <2>5. ASSUME CommitInsertEdge PROVE Spared(Ops', call'.k, disk'.buf)
    <3>1. Op.id \in EdgeIds /\ Op.edge \in EdgeData
      BY <2>5, OpType, StagedOpType DEF CommitInsertEdge
    <3>2. disk.buf.open /\ disk'.buf.nDel = disk.buf.nDel /\ disk'.buf.eDel = disk.buf.eDel
      BY <2>0, <2>5, <3>1, RecordsKeepBuffer, RecordTombstones DEF CommitInsertEdge
    <3> QED BY <2>3, <2>5, <3>2 DEF CommitInsertEdge
  <2>6. ASSUME CommitDeleteNode PROVE Spared(Ops', call'.k, disk'.buf)
    <3>1. call'.txn = call.txn /\ call'.k = call.k /\ UNCHANGED <<disk, txns>>
          /\ call.txn # 0
      BY <2>6, AtOpFacts DEF CommitDeleteNode, Deleting, handles
    <3> QED BY <1>5, <1>8, <3>1
  <2>7. ASSUME CommitDeleteEdge PROVE Spared(Ops', call'.k, disk'.buf)
    <3>1. Op.id \in EdgeIds /\ Op.kind = "DeleteEdge" /\ call.k \in DOMAIN Ops
          /\ call.txn # 0 /\ call'.txn = call.txn
      BY <2>7, OpType, StagedOpType, AtOpFacts DEF CommitDeleteEdge
    <3>2. disk.buf.open /\ disk'.buf.nDel = disk.buf.nDel
          /\ disk'.buf.eDel = disk.buf.eDel \cup {Op.id}
      BY <1>4, <2>0, <2>7, <3>1, DeleteEdgeType, RecordsKeepBuffer, RecordTombstones
         DEF CommitDeleteEdge, RemoveEdge
    <3>3. UNCHANGED txns
      BY <2>7 DEF CommitDeleteEdge, handles
    <3>4. ASSUME NEW i \in DOMAIN Ops, call.k < i, Ops[i].kind = "InsertEdge"
          PROVE  Ops[i].id # Op.id
      BY <1>5, <1>8, <3>1, <3>3, <3>4, DeletedForGood DEF Ops, Op
    <3> QED BY <2>3, <2>7, <3>2, <3>4 DEF CommitDeleteEdge
  <2>8. ASSUME CommitRejectEdge \/ CommitFinish PROVE FALSE
    BY <1>8, <2>8 DEF CommitRejectEdge, CommitFinish, ReturnError, NoCall
  <2> QED
    BY <2>1, <2>2, <2>4, <2>5, <2>6, <2>7, <2>8 DEF CallStep
<1>9. CASE CallFails \/ CrashAndReopen
  <2>1. call'.txn = 0
    BY <1>9 DEF CallFails, DeleteNodeFailsEarly, DeleteNodeFailsLate, CommitFails,
                ReturnError, NoCall, CrashAndReopen
  <2> QED BY <1>1, <2>1
<1> QED
  BY <1>1, <1>2, <1>3, <1>6, <1>7, <1>8, <1>9 DEF Next, vars

-----------------------------------------------------------------------------
(* The steps of the program, told by what they do to the graph and to the  *)
(* memory.  As long as there is no damage, a step does one of these things. *)

Sound ==
    /\ TypeOK /\ GeneratorInv /\ CommitInv /\ HandleInv /\ ExclusiveInv
    /\ BufferInv /\ IncidentInv /\ SparedInv

LEMMA AlwaysSound ==
    ASSUME Careful
    PROVE  Spec => []Sound
<1>1. Init => BufferInv /\ IncidentInv /\ SparedInv
  BY BufferInit, IncidentInit, SparedInit
<1>2. (TypeOK /\ GeneratorInv /\ CommitInv /\ HandleInv /\ ExclusiveInv)
        /\ BufferInv /\ IncidentInv /\ SparedInv /\ [Next]_vars
        => BufferInv' /\ IncidentInv' /\ SparedInv'
  BY BufferNext, IncidentNext, SparedNext
<1>3. Spec => [](TypeOK /\ GeneratorInv /\ CommitInv /\ HandleInv /\ ExclusiveInv)
  BY HandlesCorrect DEF Careful
<1> QED
  BY <1>1, <1>2, <1>3, PTL DEF Spec, Sound

SameGraph == SeenNodes' = SeenNodes /\ SeenEdges' = SeenEdges

SameIndexes == labels' = labels /\ props' = props

\* No delete_node is under way before the step or after it.
NotDeleting == call.pc # "deleting" /\ call'.pc # "deleting"

\* A write leaves the cache c, or none when it ends in a compaction.
CacheBecomes(c) == cache' = c \/ (cache' = EmptyCache /\ ~Buffering')

AddsNode(id, node, fields) ==
    /\ NotDeleting
    /\ SeenNodes[id] = Absent
    /\ SeenNodes' = [SeenNodes EXCEPT ![id] = node] /\ SeenEdges' = SeenEdges
    /\ IndexNode(id, node, fields)
    /\ \E c \in PutNode(cache, id, node) : CacheBecomes(c)

AddsEdge(id, edge) ==
    /\ NotDeleting
    /\ SeenEdges[id] = Absent
    /\ ContainsNode(engine, edge.src) /\ ContainsNode(engine, edge.tgt)
    /\ SeenEdges' = [SeenEdges EXCEPT ![id] = edge] /\ SeenNodes' = SeenNodes
    /\ engine' = EngineInsertEdge(engine, id, edge) /\ SameIndexes
    /\ \E c \in PutEdge(cache, id, edge) : CacheBecomes(c)

DropsEdge(id) ==
    /\ NotDeleting
    /\ SeenEdges' = [SeenEdges EXCEPT ![id] = Absent] /\ SeenNodes' = SeenNodes
    /\ engine' = EngineRemoveEdge(engine, id) /\ SameIndexes
    /\ CacheBecomes(InvalidateEdge(cache, id))

BeginsDelete(id) ==
    /\ call.pc # "deleting"
    /\ \E t, k : call' = Deleting(id, t, k)
    /\ SameGraph /\ engine' = engine /\ SameIndexes /\ cache' = cache

Tombstones(id) ==
    /\ call.pc = "deleting" /\ id \in call.incident
    /\ call' = [call EXCEPT !.incident = @ \ {id}]
    /\ SeenEdges' = [SeenEdges EXCEPT ![id] = Absent] /\ SeenNodes' = SeenNodes
    /\ engine' = engine /\ SameIndexes
    /\ cache' = InvalidateEdge(cache, id)

DropsNode(id) ==
    /\ call.pc = "deleting" /\ call.node = id /\ call.incident = {}
    /\ call'.pc # "deleting"
    /\ SeenNodes' = [SeenNodes EXCEPT ![id] = Absent] /\ SeenEdges' = SeenEdges
    /\ engine' = EngineRemoveNode(engine, id)
    /\ \E r \in NodeReads(id) :
          UnindexNode(id, r.value) /\ CacheBecomes(InvalidateNode(r.cache, id))

\* A value is fetched from the log into the cache, by a get between calls.
Fetches ==
    /\ ~Buffering'
    /\ \/ \E id \in NodeIds :
             SeenNodes[id] # Absent /\ cache' \in PutNode(cache, id, SeenNodes[id])
       \/ \E id \in EdgeIds :
             SeenEdges[id] # Absent /\ cache' \in PutEdge(cache, id, SeenEdges[id])

KeepsGraph ==
    /\ NotDeleting
    /\ SameGraph /\ engine' = engine /\ SameIndexes
    /\ CacheBecomes(cache) \/ Fetches

Effect ==
    \/ \E id \in NodeIds, node \in NodeData :
          \/ AddsNode(id, node, Indexable(node))
          \/ MaxTxns # 0 /\ AddsNode(id, node, node.fields)
    \/ \E id \in EdgeIds, edge \in EdgeData : AddsEdge(id, edge)
    \/ \E id \in EdgeIds : DropsEdge(id) \/ Tombstones(id)
    \/ \E id \in NodeIds : BeginsDelete(id) \/ DropsNode(id)
    \/ KeepsGraph

\* In a buffer the live maps of the log stay as they are.
BufferHides == Buffering' => disk'.nodes = disk.nodes /\ disk'.edges = disk.edges

\* on_write changes nothing of what is seen.
LEMMA OnWriteSeen ==
    ASSUME TypeOK, NEW d \in Disk, NEW c, OnWrite(d, c), damage' = "none", NEW b
    PROVE  /\ NodesSeen(disk', b) = NodesSeen(d, b)
           /\ EdgesSeen(disk', b) = EdgesSeen(d, b)
           /\ damage = "none" /\ (disk.buf.open => call.txn # 0)
           /\ CacheBecomes(c)
           /\ disk'.nodes = d.nodes /\ disk'.edges = d.edges
           /\ disk'.buf.open => d.buf.open
<1>1. /\ disk'.nodes = d.nodes /\ disk'.edges = d.edges
      /\ damage = "none" /\ (disk.buf.open => call.txn # 0)
      /\ \/ disk' = d /\ cache' = c
         \/ disk'.buf = NoBuffer /\ ~d.buf.open /\ cache' = EmptyCache
  BY OnWriteSound
<1>2. CASE disk' = d /\ cache' = c
  BY <1>1, <1>2 DEF CacheBecomes
<1>3. CASE disk'.buf = NoBuffer /\ ~d.buf.open /\ cache' = EmptyCache
  <2>1. ~disk'.buf.open
    BY <1>3 DEF NoBuffer, FreshBuffer
  <2> QED BY <1>1, <1>3, <2>1 DEF NodesSeen, EdgesSeen, CacheBecomes, Buffering
<1> QED
  BY <1>1, <1>2, <1>3

\* What an operation of a commit inserts is not in the graph yet, nor does a
\* tombstone of its buffer wait for it.
LEMMA OpUnseen ==
    ASSUME Careful, Sound, damage = "none"
    PROVE  /\ AtOp("InsertNode") => SeenNodes[Op.id] = Absent
                                    /\ (disk.buf.open => Op.id \notin disk.buf.nDel)
           /\ AtOp("InsertEdge") => SeenEdges[Op.id] = Absent
                                    /\ (disk.buf.open => Op.id \notin disk.buf.eDel)
<1>1. /\ AtOp("InsertNode") => disk.nodes[Op.id] = Absent
      /\ AtOp("InsertEdge") => disk.edges[Op.id] = Absent
  BY OpIsNew DEF Careful, Sound
<1>2. TypeOK /\ disk \in Disk /\ (disk.buf.open => Markers)
  BY DEF Sound, BufferInv, TypeOK
<1>3. ASSUME NEW kind, AtOp(kind)
      PROVE  /\ Op \in StagedOp /\ Op.kind = kind
             /\ kind = "InsertNode" => Op.id >= gen.node
             /\ kind = "InsertEdge" => Op.id >= gen.edge
             /\ disk.buf.open /\ kind = "InsertNode" => Op.id \notin disk.buf.nDel
             /\ disk.buf.open /\ kind = "InsertEdge" => Op.id \notin disk.buf.eDel
             /\ disk.buf.open => PendingBelow(disk, gen)
  <2>1. /\ call.txn \in TxnIds /\ call.txn # 0 /\ call.k \in DOMAIN Ops /\ call.k \in Nat
        /\ Op.kind = kind /\ Op \in StagedOp
    BY <1>2, <1>3, AtOpFacts, OpType
  <2>2. FreshFrom(Ops, call.k, gen)
    BY <2>1 DEF CommitInv, ExclusiveInv, Reached, Ops, Sound
  <2>3. call.k >= call.k
    BY <2>1
  <2>4. disk.buf.open => Spared(Ops, call.k, disk.buf) /\ PendingBelow(disk, gen)
    BY <1>2, <2>1 DEF Sound, SparedInv, Buffering, InTxn, GeneratorInv
  <2> QED BY <2>1, <2>2, <2>3, <2>4 DEF FreshFrom, Spared, Op
<1>4. gen.node \in Nat /\ gen.edge \in Nat
  BY <1>2, GeneratorNat DEF TypeOK
<1>5. ASSUME AtOp("InsertNode") PROVE SeenNodes[Op.id] = Absent
  <2>1. Op.id \in NodeIds /\ Op.id \in Nat /\ Op.id >= gen.node
    BY <1>3, <1>5, StagedOpType, OpIdNat
  <2>2. disk.buf.open => disk.buf.nIns[Op.id] = Absent
    BY <1>3, <1>4, <1>5, <2>1 DEF PendingBelow
  <2> QED BY <1>1, <1>5, <2>1, <2>2 DEF SeenNodes, NodesSeen, AppliedNodes
<1>6. ASSUME AtOp("InsertEdge") PROVE SeenEdges[Op.id] = Absent
  <2>1. Op.id \in EdgeIds /\ Op.id \in Nat /\ Op.id >= gen.edge
    BY <1>3, <1>6, StagedOpType, OpIdNat
  <2>2. disk.buf.open => disk.buf.eIns[Op.id] = Absent
    BY <1>3, <1>4, <1>6, <2>1 DEF PendingBelow
  <2> QED BY <1>1, <1>6, <2>1, <2>2 DEF SeenEdges, EdgesSeen, AppliedEdges
<1> QED
  BY <1>3, <1>5, <1>6

\* The four direct writes, and what between calls changes nothing.
LEMMA DirectEffect ==
    ASSUME Careful, Sound, DirectStep, damage' = "none"
    PROVE  Effect /\ BufferHides /\ damage = "none"
<1>1. TypeOK /\ disk \in Disk /\ gen \in Generator
  BY DEF Sound, TypeOK
<1>2. call' = call \/ \E id \in NodeIds : DirectDeleteNode(id)
  BY DEF DirectStep, InsertNode, InsertNodeFails, InsertEdge, InsertEdgeFails,
         DirectDeleteEdge, GetEdge, GetNode, Compact
<1>3. Idle
  BY DEF DirectStep, InsertNode, InsertNodeFails, InsertEdge, InsertEdgeFails,
         DirectDeleteEdge, GetEdge, DirectDeleteNode, GetNode, Compact
<1>4. call.txn = 0 /\ call.pc # "deleting" /\ call'.txn = 0
  BY <1>1, <1>2, <1>3, IdleNoTxn DEF Idle, DirectDeleteNode, Deleting
<1>5. ~InTxn /\ ~InTxn' /\ ~Buffering /\ ~Buffering' /\ BufferHides
  BY <1>4 DEF InTxn, Buffering, BufferHides
<1>6. InTxn = FALSE /\ InTxn' = FALSE
  BY <1>5 DEF InTxn
<1>7. /\ SeenNodes = NodesSeen(disk, FALSE) /\ SeenEdges = EdgesSeen(disk, FALSE)
      /\ SeenNodes' = NodesSeen(disk', FALSE) /\ SeenEdges' = EdgesSeen(disk', FALSE)
      /\ SeenNodes = disk.nodes /\ SeenEdges = disk.edges
      /\ SeenNodes' = disk'.nodes /\ SeenEdges' = disk'.edges
  BY <1>6 DEF SeenNodes, SeenEdges, NodesSeen, EdgesSeen
<1>8. ASSUME NEW node \in NodeData, InsertNode(node) PROVE Effect /\ damage = "none"
  <2> DEFINE id == gen.node
             d == SaveNode(disk, id, node)
  <2>1. id \in NodeIds /\ d \in Disk
    BY <1>1, <1>8, SaveNodeType, StorageAssumption DEF InsertNode, Generator, NodeIds
  <2>2. PICK c \in PutNode(cache, id, node) : OnWrite(d, c)
    BY <1>8 DEF InsertNode
  <2>3. /\ NodesSeen(disk', FALSE) = NodesSeen(d, FALSE)
        /\ EdgesSeen(disk', FALSE) = EdgesSeen(d, FALSE)
        /\ damage = "none" /\ ~disk.buf.open /\ CacheBecomes(c)
    BY <1>1, <1>4, <2>1, <2>2, OnWriteSeen
  <2>4. /\ SeenNodes' = [SeenNodes EXCEPT ![id] = node] /\ SeenEdges' = SeenEdges
    <3>1. disk.buf.open => FALSE /\ id \notin disk.buf.nDel
      BY <2>3
    <3>2. /\ NodesSeen(d, FALSE) = [NodesSeen(disk, FALSE) EXCEPT ![id] = node]
          /\ EdgesSeen(d, FALSE) = EdgesSeen(disk, FALSE)
      BY <1>1, <2>1, <3>1, SaveNodeSeen
    <3> QED BY <1>7, <2>3, <3>2
  <2>5. disk.nodes[id] = Absent
    BY <2>1, <1>1, GeneratorNat DEF Sound, GeneratorInv, LiveBelow
  <2>6. NotDeleting /\ IndexNode(id, node, Indexable(node))
    BY <1>4, <1>8 DEF InsertNode, NotDeleting
  <2>7. AddsNode(id, node, Indexable(node))
    BY <1>7, <2>2, <2>3, <2>4, <2>5, <2>6 DEF AddsNode
  <2> QED BY <2>1, <2>3, <2>7 DEF Effect
<1>9. ASSUME NEW edge \in EdgeData, InsertEdge(edge) PROVE Effect /\ damage = "none"
  <2> DEFINE id == gen.edge
             d == SaveEdge(disk, id, edge)
  <2>1. id \in EdgeIds /\ d \in Disk
    BY <1>1, <1>9, SaveEdgeType, StorageAssumption DEF InsertEdge, Generator, EdgeIds
  <2>2. PICK c \in PutEdge(cache, id, edge) : OnWrite(d, c)
    BY <1>9 DEF InsertEdge
  <2>3. /\ NodesSeen(disk', FALSE) = NodesSeen(d, FALSE)
        /\ EdgesSeen(disk', FALSE) = EdgesSeen(d, FALSE)
        /\ damage = "none" /\ ~disk.buf.open /\ CacheBecomes(c)
    BY <1>1, <1>4, <2>1, <2>2, OnWriteSeen
  <2>4. /\ SeenEdges' = [SeenEdges EXCEPT ![id] = edge] /\ SeenNodes' = SeenNodes
    <3>1. disk.buf.open => FALSE /\ id \notin disk.buf.eDel
      BY <2>3
    <3>2. /\ EdgesSeen(d, FALSE) = [EdgesSeen(disk, FALSE) EXCEPT ![id] = edge]
          /\ NodesSeen(d, FALSE) = NodesSeen(disk, FALSE)
      BY <1>1, <2>1, <3>1, SaveEdgeSeen
    <3> QED BY <1>7, <2>3, <3>2
  <2>5. disk.edges[id] = Absent
    BY <2>1, <1>1, GeneratorNat DEF Sound, GeneratorInv, LiveBelow
  <2>6. /\ NotDeleting /\ SameIndexes /\ engine' = EngineInsertEdge(engine, id, edge)
        /\ ContainsNode(engine, edge.src) /\ ContainsNode(engine, edge.tgt)
    BY <1>4, <1>9 DEF InsertEdge, NotDeleting, SameIndexes
  <2>7. AddsEdge(id, edge)
    BY <1>7, <2>2, <2>3, <2>4, <2>5, <2>6 DEF AddsEdge
  <2> QED BY <2>1, <2>3, <2>7 DEF Effect
<1>10. ASSUME NEW id \in EdgeIds, DirectDeleteEdge(id) PROVE Effect /\ damage = "none"
  <2> DEFINE d == DeleteEdge(disk, id)
  <2>1. d \in Disk
    BY <1>1, DeleteEdgeType
  <2>2. OnWrite(d, InvalidateEdge(cache, id))
    BY <1>10 DEF DirectDeleteEdge, RemoveEdge
  <2>3. /\ NodesSeen(disk', FALSE) = NodesSeen(d, FALSE)
        /\ EdgesSeen(disk', FALSE) = EdgesSeen(d, FALSE)
        /\ damage = "none" /\ ~disk.buf.open /\ CacheBecomes(InvalidateEdge(cache, id))
    BY <1>1, <1>4, <2>1, <2>2, OnWriteSeen
  <2>4. /\ SeenEdges' = [SeenEdges EXCEPT ![id] = Absent] /\ SeenNodes' = SeenNodes
    BY <1>1, <1>7, <2>3, DeleteEdgeSeen
  <2>5. NotDeleting /\ SameIndexes /\ engine' = EngineRemoveEdge(engine, id)
    BY <1>4, <1>10 DEF DirectDeleteEdge, RemoveEdge, NotDeleting, SameIndexes
  <2>6. DropsEdge(id)
    BY <2>3, <2>4, <2>5 DEF DropsEdge
  <2> QED BY <2>3, <2>6 DEF Effect
<1>11. ASSUME NEW id \in NodeIds, DirectDeleteNode(id) PROVE Effect /\ damage = "none"
  <2>1. BeginsDelete(id)
    BY <1>4, <1>7, <1>11 DEF DirectDeleteNode, BeginsDelete, memory, SameGraph, SameIndexes
  <2> QED BY <1>11, <2>1 DEF Effect, DirectDeleteNode
<1>12. ASSUME disk'.nodes = disk.nodes, disk'.edges = disk.edges, call' = call,
              engine' = engine, SameIndexes, CacheBecomes(cache) \/ Fetches, damage' = damage
       PROVE  Effect /\ damage = "none"
  <2>1. KeepsGraph
    BY <1>4, <1>7, <1>12 DEF KeepsGraph, NotDeleting, SameGraph
  <2> QED BY <1>12, <2>1 DEF Effect
<1>13. ASSUME InsertNodeFails \/ (\E edge \in EdgeData : InsertEdgeFails(edge))
       PROVE  Effect /\ damage = "none"
  BY <1>12, <1>13 DEF InsertNodeFails, InsertEdgeFails, SameIndexes, CacheBecomes
<1>14. ASSUME NEW id \in EdgeIds, GetEdge(id) PROVE Effect /\ damage = "none"
  <2>1. Fetches
    BY <1>5, <1>7, <1>14 DEF GetEdge, Fetches
  <2> QED BY <1>12, <1>14, <2>1 DEF GetEdge, SameIndexes
<1>15. ASSUME NEW id \in NodeIds, GetNode(id) PROVE Effect /\ damage = "none"
  <2>1. CacheBecomes(cache) \/ Fetches
    <3>1. PICK r \in NodeReads(id) : cache' = r.cache
      BY <1>15 DEF GetNode
    <3>2. \/ r.cache = cache
          \/ disk.nodes[id] # Absent /\ r.cache \in PutNode(cache, id, disk.nodes[id])
      BY <3>1 DEF NodeReads
    <3> QED BY <1>5, <1>7, <3>1, <3>2 DEF Fetches, CacheBecomes
  <2> QED BY <1>12, <1>15, <2>1 DEF GetNode, SameIndexes
<1>16. ASSUME Compact PROVE Effect /\ damage = "none"
  <2>1. disk'.nodes = disk.nodes /\ disk'.edges = disk.edges
    BY <1>1, <1>16 DEF Compact, CompactLog, Disk
  <2> QED BY <1>5, <1>12, <1>16, <2>1 DEF Compact, SameIndexes, CacheBecomes
<1> QED
  BY <1>5, <1>8, <1>9, <1>10, <1>11, <1>13, <1>14, <1>15, <1>16 DEF DirectStep

\* Staging leaves the graph alone, and BEGIN_TXN opens a buffer with nothing in it.
LEMMA StagingEffect ==
    ASSUME Careful, Sound, StagingStep, damage' = "none"
    PROVE  Effect /\ BufferHides /\ damage = "none"
<1>1. TypeOK /\ disk \in Disk /\ Idle /\ damage' = damage
  BY DEF Sound, TypeOK, StagingStep, BeginTransaction, StageInsertNode, StageInsertEdge,
         StageDeleteNode, StageDeleteEdge, Stage, RollbackTransaction, CommitStart,
         CommitStartFails
<1>2. call.txn = 0 /\ call.pc # "deleting"
  BY <1>1, IdleNoTxn DEF Idle
<1>3. InTxn = FALSE /\ SeenNodes = disk.nodes /\ SeenEdges = disk.edges
  BY <1>2 DEF InTxn, SeenNodes, SeenEdges, NodesSeen, EdgesSeen
<1>4. UNCHANGED <<engine, labels, props, cache>>
  BY DEF StagingStep, BeginTransaction, StageInsertNode, StageInsertEdge,
         StageDeleteNode, StageDeleteEdge, Stage, RollbackTransaction, CommitStart,
         CommitStartFails, memory
<1>5. CASE UNCHANGED <<disk, call>>
  <2>1. InTxn' = FALSE /\ ~Buffering'
    BY <1>2, <1>5 DEF InTxn, Buffering
  <2>2. SameGraph
    BY <1>3, <1>5, <2>1 DEF SameGraph, SeenNodes, SeenEdges, NodesSeen, EdgesSeen
  <2>3. KeepsGraph
    BY <1>2, <1>4, <1>5, <2>2 DEF KeepsGraph, NotDeleting, SameIndexes, CacheBecomes
  <2> QED BY <1>1, <2>1, <2>3 DEF Effect, BufferHides
<1>6. ASSUME NEW t \in TxnIds, CommitStart(t) PROVE Effect /\ BufferHides
  <2>1. /\ disk' = BeginTxn(disk, t) /\ t \in Nat
        /\ call'.txn = t /\ call'.pc = "committing"
    BY <1>6 DEF CommitStart, Committing, NoCall, TxnIds
  <2>2. disk'.nodes = disk.nodes /\ disk'.edges = disk.edges
    BY <1>1, <2>1, MarkersSeen
  <2>3. CASE Markers
    <3>1. disk'.buf = FreshBuffer(TRUE, t) /\ disk' \in Disk
      BY <1>1, <2>1, <2>3, MarkerTypes DEF BeginTxn, Disk
    <3>2. AppliedNodes(disk') = disk'.nodes /\ AppliedEdges(disk') = disk'.edges
      BY <2>1, <3>1, MarkersSeen
    <3>3. SameGraph
      BY <1>3, <2>2, <3>2 DEF SameGraph, SeenNodes, SeenEdges, NodesSeen, EdgesSeen
    <3> QED
      BY <1>2, <1>4, <2>1, <2>2, <3>3
         DEF Effect, KeepsGraph, NotDeleting, SameIndexes, CacheBecomes, BufferHides
  <2>4. CASE ~Markers
    <3>1. ~disk'.buf.open
      BY <2>1, <2>4 DEF BeginTxn, Sound, BufferInv
    <3>2. SameGraph
      BY <1>3, <2>2, <3>1 DEF SameGraph, SeenNodes, SeenEdges, NodesSeen, EdgesSeen
    <3> QED
      BY <1>2, <1>4, <2>1, <2>2, <3>2
         DEF Effect, KeepsGraph, NotDeleting, SameIndexes, CacheBecomes, BufferHides
  <2> QED BY <2>3, <2>4
<1> QED
  BY <1>1, <1>5, <1>6
     DEF StagingStep, BeginTransaction, StageInsertNode, StageInsertEdge,
         StageDeleteNode, StageDeleteEdge, Stage, RollbackTransaction, CommitStartFails

\* A record that a commit appends without on_write.
LEMMA AppendSound ==
    ASSUME damage' = AfterAppend, damage' = "none"
    PROVE  damage = "none" /\ (disk.buf.open => InTxn)
BY DEF AfterAppend, InTxn

\* What is seen when the call stays in its transaction, and when it ends.
LEMMA SeenAcross ==
    /\ call'.txn = call.txn =>
         SeenNodes' = NodesSeen(disk', InTxn) /\ SeenEdges' = EdgesSeen(disk', InTxn)
    /\ call'.txn = 0 =>
         /\ SeenNodes' = disk'.nodes /\ SeenEdges' = disk'.edges
         /\ ~Buffering'
BY DEF SeenNodes, SeenEdges, NodesSeen, EdgesSeen, InTxn, Buffering

\* A commit that has not run its first operation, or whose records went to no
\* buffer, sees the live maps.
LEMMA NothingYet ==
    ASSUME Sound, damage = "none", call.pc = "committing", ~(Markers /\ call.k > 1)
    PROVE  SeenNodes = disk.nodes /\ SeenEdges = disk.edges
<1>1. TypeOK /\ disk \in Disk /\ call.txn \in TxnIds /\ call.k \in Nat \ {0}
  BY CallShape DEF Sound, TypeOK
<1>2. CASE ~disk.buf.open
  BY <1>2 DEF SeenNodes, SeenEdges, NodesSeen, EdgesSeen
<1>3. CASE disk.buf.open
  <2>1. Markers /\ InTxn /\ call.k = 1 /\ call.txn \in Nat
    BY <1>1, <1>3 DEF Sound, BufferInv, InTxn, TxnIds
  <2>2. disk.buf = FreshBuffer(TRUE, call.txn)
    BY <2>1 DEF Sound, BufferInv
  <2>3. AppliedNodes(disk) = disk.nodes /\ AppliedEdges(disk) = disk.edges
    BY <1>1, <2>1, <2>2, MarkersSeen
  <2> QED BY <2>3 DEF SeenNodes, SeenEdges, NodesSeen, EdgesSeen
<1> QED
  BY <1>2, <1>3

\* What each step of a call does.
CallDoes ==
    /\ \A id \in EdgeIds : DeleteIncidentEdge(id) => Tombstones(id)
    /\ DeleteNodeFinish => DropsNode(call.node)
    /\ CommitInsertNode => AddsNode(Op.id, Op.node, Op.node.fields)
    /\ CommitInsertEdge => AddsEdge(Op.id, Op.edge)
    /\ CommitDeleteNode => BeginsDelete(Op.id)
    /\ CommitDeleteEdge => DropsEdge(Op.id)
    /\ CommitFinish => disk'.nodes = SeenNodes /\ disk'.edges = SeenEdges

LEMMA CallEffect ==
    ASSUME Careful, Sound, CallStep, damage' = "none"
    PROVE  Effect /\ BufferHides /\ damage = "none" /\ CallDoes
<1>1. TypeOK /\ disk \in Disk /\ gen \in Generator /\ InTxn \in BOOLEAN
  BY DEF Sound, TypeOK, InTxn
<1>2. SeenNodes = NodesSeen(disk, InTxn) /\ SeenEdges = EdgesSeen(disk, InTxn)
  BY DEF SeenNodes, SeenEdges
<1>3. ASSUME NEW id \in EdgeIds, DeleteIncidentEdge(id)
      PROVE  Effect /\ BufferHides /\ damage = "none" /\ Tombstones(id)
  <2> DEFINE d == DeleteEdge(disk, id)
  <2>1. /\ disk' = d /\ damage = "none" /\ (disk.buf.open => InTxn)
    BY <1>3, AppendSound DEF DeleteIncidentEdge
  <2>2. call'.txn = call.txn
    BY <1>1, <1>3 DEF DeleteIncidentEdge, TypeOK, Call, NoCall
  <2>3. /\ SeenEdges' = [SeenEdges EXCEPT ![id] = Absent] /\ SeenNodes' = SeenNodes
    BY <1>1, <1>2, <2>1, <2>2, SeenAcross, DeleteEdgeSeen
  <2>4. Tombstones(id)
    BY <1>3, <2>3 DEF Tombstones, DeleteIncidentEdge, SameIndexes
  <2>5. BufferHides
    BY <1>1, <2>1, BufferedRecords, RecordsKeepBuffer DEF BufferHides, Buffering
  <2> QED BY <2>1, <2>4, <2>5 DEF Effect
<1>4. ASSUME DeleteNodeFinish
      PROVE  /\ Effect /\ BufferHides /\ damage = "none"
             /\ DropsNode(call.node)
  <2> DEFINE id == call.node
             d == DeleteNode(disk, id)
  <2>1. id \in NodeIds /\ d \in Disk
    BY <1>1, <1>4, CallShape, DeleteNodeType DEF DeleteNodeFinish
  <2>2. PICK r \in NodeReads(id) :
           UnindexNode(id, r.value) /\ OnWrite(d, InvalidateNode(r.cache, id))
    BY <1>4 DEF DeleteNodeFinish
  <2> HIDE DEF d
  <2>3. /\ NodesSeen(disk', InTxn) = NodesSeen(d, InTxn)
        /\ EdgesSeen(disk', InTxn) = EdgesSeen(d, InTxn)
        /\ damage = "none" /\ (disk.buf.open => InTxn)
        /\ CacheBecomes(InvalidateNode(r.cache, id))
        /\ disk'.nodes = d.nodes /\ disk'.edges = d.edges
        /\ disk'.buf.open => d.buf.open
    BY <1>1, <2>1, <2>2, OnWriteSeen DEF InTxn
  <2>4. call'.txn = call.txn /\ call'.pc # "deleting"
    BY <1>4 DEF DeleteNodeFinish, Committing, NoCall
  <2>5. /\ SeenNodes' = [SeenNodes EXCEPT ![id] = Absent] /\ SeenEdges' = SeenEdges
    BY <1>1, <1>2, <2>1, <2>3, <2>4, SeenAcross, DeleteNodeSeen DEF d
  <2>6. DropsNode(id)
    BY <1>4, <2>2, <2>3, <2>4, <2>5 DEF DropsNode, DeleteNodeFinish
  <2>7. BufferHides
    BY <1>1, <2>1, <2>3, BufferedRecords, RecordsKeepBuffer DEF BufferHides, Buffering, d
  <2> QED BY <2>1, <2>3, <2>6, <2>7 DEF Effect
<1>5. ASSUME NEW kind, AtOp(kind), NextOp
      PROVE  /\ call'.txn = call.txn /\ NotDeleting /\ MaxTxns # 0
             /\ Op \in StagedOp /\ Op.kind = kind
  <2>1. call.txn \in TxnIds /\ call'.txn = call.txn /\ call'.pc = "committing"
    BY <1>1, <1>5, AtOpFacts
  <2> QED BY <1>1, <1>5, <2>1, OpType, DbAssumption DEF AtOp, NotDeleting, TxnIds
<1>6. ASSUME CommitInsertNode
      PROVE  /\ Effect /\ BufferHides /\ damage = "none"
             /\ AddsNode(Op.id, Op.node, Op.node.fields)
  <2> DEFINE id == Op.id
             node == Op.node
             d == SaveNode(disk, id, node)
  <2>1. AtOp("InsertNode") /\ NextOp /\ id \in NodeIds /\ node \in NodeData
    BY <1>5, <1>6, StagedOpType DEF CommitInsertNode
  <2>2. disk' = d /\ damage = "none" /\ (disk.buf.open => InTxn)
    BY <1>6, AppendSound DEF CommitInsertNode
  <2>3. SeenNodes[id] = Absent /\ (disk.buf.open => id \notin disk.buf.nDel)
    BY <2>1, <2>2, OpUnseen
  <2>4. /\ NodesSeen(d, InTxn) = [NodesSeen(disk, InTxn) EXCEPT ![id] = node]
        /\ EdgesSeen(d, InTxn) = EdgesSeen(disk, InTxn)
    BY <1>1, <2>1, <2>2, <2>3, SaveNodeSeen
  <2>5. /\ SeenNodes' = [SeenNodes EXCEPT ![id] = node] /\ SeenEdges' = SeenEdges
    BY <1>2, <1>5, <2>1, <2>2, <2>4, SeenAcross
  <2>6. AddsNode(id, node, node.fields) /\ MaxTxns # 0
    BY <1>5, <1>6, <2>1, <2>3, <2>5 DEF CommitInsertNode, AddsNode, CacheBecomes
  <2>7. BufferHides
    BY <1>1, <2>1, <2>2, BufferedRecords, RecordsKeepBuffer DEF BufferHides, Buffering
  <2> QED BY <2>1, <2>2, <2>6, <2>7 DEF Effect
<1>7. ASSUME CommitInsertEdge
      PROVE  /\ Effect /\ BufferHides /\ damage = "none"
             /\ AddsEdge(Op.id, Op.edge)
  <2> DEFINE id == Op.id
             edge == Op.edge
             d == SaveEdge(disk, id, edge)
  <2>1. AtOp("InsertEdge") /\ NextOp /\ id \in EdgeIds /\ edge \in EdgeData
    BY <1>5, <1>7, StagedOpType DEF CommitInsertEdge
  <2>2. disk' = d /\ damage = "none" /\ (disk.buf.open => InTxn)
    BY <1>7, AppendSound DEF CommitInsertEdge
  <2>3. SeenEdges[id] = Absent /\ (disk.buf.open => id \notin disk.buf.eDel)
    BY <2>1, <2>2, OpUnseen
  <2>4. /\ EdgesSeen(d, InTxn) = [EdgesSeen(disk, InTxn) EXCEPT ![id] = edge]
        /\ NodesSeen(d, InTxn) = NodesSeen(disk, InTxn)
    BY <1>1, <2>1, <2>2, <2>3, SaveEdgeSeen
  <2>5. /\ SeenEdges' = [SeenEdges EXCEPT ![id] = edge] /\ SeenNodes' = SeenNodes
    BY <1>2, <1>5, <2>1, <2>2, <2>4, SeenAcross
  <2>6. AddsEdge(id, edge)
    BY <1>5, <1>7, <2>1, <2>3, <2>5
       DEF CommitInsertEdge, EndpointsKnown, AddsEdge, CacheBecomes, SameIndexes
  <2>7. BufferHides
    BY <1>1, <2>1, <2>2, BufferedRecords, RecordsKeepBuffer DEF BufferHides, Buffering
  <2> QED BY <2>1, <2>2, <2>6, <2>7 DEF Effect
<1>8. ASSUME CommitDeleteNode
      PROVE  /\ Effect /\ BufferHides /\ damage = "none"
             /\ BeginsDelete(Op.id)
  <2>1. /\ Op.id \in NodeIds /\ call.pc # "deleting"
        /\ call' = Deleting(Op.id, call.txn, call.k) /\ call'.txn = call.txn
    BY <1>1, <1>8, OpType, StagedOpType DEF CommitDeleteNode, AtOp, Deleting
  <2>2. UNCHANGED <<disk, engine, labels, props, cache, damage>>
    BY <1>8 DEF CommitDeleteNode, memory
  <2>3. BeginsDelete(Op.id)
    BY <1>2, <2>1, <2>2, SeenAcross DEF BeginsDelete, SameGraph, SameIndexes
  <2> QED BY <2>1, <2>2, <2>3 DEF Effect, BufferHides
<1>9. ASSUME CommitDeleteEdge
      PROVE  /\ Effect /\ BufferHides /\ damage = "none"
             /\ DropsEdge(Op.id)
  <2> DEFINE id == Op.id
             d == DeleteEdge(disk, id)
  <2>1. AtOp("DeleteEdge") /\ NextOp /\ id \in EdgeIds /\ d \in Disk
    BY <1>1, <1>5, <1>9, StagedOpType, DeleteEdgeType DEF CommitDeleteEdge
  <2>2. OnWrite(d, InvalidateEdge(cache, id))
    BY <1>9 DEF CommitDeleteEdge, RemoveEdge
  <2> HIDE DEF d
  <2>3. /\ NodesSeen(disk', InTxn) = NodesSeen(d, InTxn)
        /\ EdgesSeen(disk', InTxn) = EdgesSeen(d, InTxn)
        /\ damage = "none" /\ (disk.buf.open => InTxn)
        /\ CacheBecomes(InvalidateEdge(cache, id))
        /\ disk'.nodes = d.nodes /\ disk'.edges = d.edges
        /\ disk'.buf.open => d.buf.open
    BY <1>1, <2>1, <2>2, OnWriteSeen DEF InTxn
  <2>4. /\ SeenEdges' = [SeenEdges EXCEPT ![id] = Absent] /\ SeenNodes' = SeenNodes
    BY <1>1, <1>2, <1>5, <2>1, <2>3, SeenAcross, DeleteEdgeSeen DEF d
  <2>5. DropsEdge(id)
    BY <1>5, <1>9, <2>1, <2>3, <2>4 DEF CommitDeleteEdge, RemoveEdge, DropsEdge, SameIndexes
  <2>6. BufferHides
    BY <1>1, <2>1, <2>3, BufferedRecords, RecordsKeepBuffer DEF BufferHides, Buffering, d
  <2> QED BY <2>1, <2>3, <2>5, <2>6 DEF Effect
  \* A commit ends: on COMMIT_TXN, or in an error before it has done anything.
<1>10. ASSUME call.pc = "committing", call' = NoCall, UNCHANGED <<engine, labels, props>>,
              CacheBecomes(cache), disk'.nodes = SeenNodes, disk'.edges = SeenEdges
       PROVE  Effect /\ BufferHides
  <2>1. SameGraph /\ ~Buffering' /\ NotDeleting
    BY <1>10, SeenAcross DEF SameGraph, NotDeleting, NoCall
  <2> QED BY <1>10, <2>1 DEF Effect, KeepsGraph, SameIndexes, BufferHides
<1>11. ASSUME CommitRejectEdge PROVE Effect /\ BufferHides /\ damage = "none"
  <2>1. damage = "none" /\ ~(Markers /\ call.k > 1) /\ call.pc = "committing"
    BY <1>11 DEF CommitRejectEdge, FailedCommitDamage, MemoryDamaged, AtOp
  <2>2. SeenNodes = disk.nodes /\ SeenEdges = disk.edges
    BY <1>1, <2>1, NothingYet
  <2>3. disk'.nodes = disk.nodes /\ disk'.edges = disk.edges
    BY <1>1, <1>11 DEF CommitRejectEdge, RollbackTxn, Disk
  <2>4. call' = NoCall /\ UNCHANGED <<engine, labels, props, cache>>
    BY <1>11 DEF CommitRejectEdge, ReturnError, memory
  <2> QED BY <1>10, <2>1, <2>2, <2>3, <2>4 DEF CacheBecomes
<1>12. ASSUME CommitFinish
       PROVE  /\ Effect /\ BufferHides /\ damage = "none"
              /\ disk'.nodes = SeenNodes /\ disk'.edges = SeenEdges
  <2> DEFINE d == CommitTxn(disk, call.txn)
  <2>1. /\ call.pc = "committing" /\ call.txn \in TxnIds /\ call.txn \in Nat /\ call.txn # 0
        /\ d \in Disk /\ call' = NoCall
    <3>1. call.pc = "committing" /\ call' = NoCall
      BY <1>12 DEF CommitFinish
    <3>2. call.txn \in TxnIds /\ call.txn \in Nat /\ call.txn # 0
      BY <1>1, <3>1, CallShape DEF TxnIds
    <3> QED BY <1>1, <3>1, <3>2, MarkerTypes
  <2>2. OnWrite(d, cache)
    BY <1>12 DEF CommitFinish
  <2> HIDE DEF d
  <2>3. damage = "none" /\ CacheBecomes(cache) /\ disk'.nodes = d.nodes /\ disk'.edges = d.edges
    BY <1>1, <2>1, <2>2, OnWriteSeen
  <2>4. InTxn = TRUE /\ (Markers => disk.buf.open /\ disk.buf.txn = call.txn)
        /\ (~Markers => ~disk.buf.open)
    BY <2>1, <2>3 DEF InTxn, Sound, BufferInv
  <2>5. d.nodes = SeenNodes /\ d.edges = SeenEdges
    BY <1>1, <1>2, <2>1, <2>4, MarkersSeen DEF d
  <2>6. UNCHANGED <<engine, labels, props>>
    BY <1>12 DEF CommitFinish
  <2> QED BY <1>10, <2>1, <2>3, <2>5, <2>6
<1>13. CallDoes
  BY <1>3, <1>4, <1>6, <1>7, <1>8, <1>9, <1>12 DEF CallDoes
<1> QED
  BY <1>3, <1>4, <1>6, <1>7, <1>8, <1>9, <1>11, <1>12, <1>13 DEF CallStep

\* A call that fails without damage is a commit that has left nothing in memory.
LEMMA FailedEffect ==
    ASSUME Careful, Sound, CallFails, damage' = "none"
    PROVE  Effect /\ BufferHides /\ damage = "none"
<1>1. CommitFails /\ damage = "none" /\ ~(Markers /\ call.k > 1)
  BY DEF CallFails, DeleteNodeFailsEarly, DeleteNodeFailsLate, MemoryDamaged,
         CommitFails, FailedCommitDamage
<1>2. /\ call.pc = "committing" /\ call' = NoCall /\ call'.txn = 0 /\ call'.pc = "idle"
      /\ UNCHANGED <<disk, engine, labels, props, cache>>
  BY <1>1 DEF CommitFails, ReturnError, NoCall, memory
<1>3. SeenNodes = disk.nodes /\ SeenEdges = disk.edges
  BY <1>1, <1>2, NothingYet
<1>4. SameGraph /\ ~Buffering'
  BY <1>2, <1>3, SeenAcross DEF SameGraph
<1> QED
  BY <1>1, <1>2, <1>4
     DEF Effect, KeepsGraph, NotDeleting, SameIndexes, CacheBecomes, BufferHides

LEMMA StepEffect ==
    ASSUME Careful, Sound, Next, ~CrashAndReopen, damage' = "none"
    PROVE  Effect /\ BufferHides /\ damage = "none"
BY DirectEffect, StagingEffect, CallEffect, FailedEffect DEF Next

\* A new process: everything in memory comes from the log.
LEMMA ReopenEffect ==
    ASSUME CrashAndReopen
    PROVE  /\ SeenNodes' = disk.nodes /\ SeenEdges' = disk.edges
           /\ disk' = disk /\ cache' = EmptyCache /\ call' = NoCall /\ ~Buffering'
           /\ engine' = EngineOf(disk) /\ labels' = LabelIndexOf(disk)
           /\ props' = PropertyIndexOf(disk)
           /\ damage' # "log" => damage # "log"
<1>1. /\ call' = NoCall /\ call'.txn = 0 /\ disk' = disk
  BY DEF CrashAndReopen, NoCall
<1> QED
  BY <1>1, SeenAcross DEF CrashAndReopen

\* A step that leaves the memory damaged, but not the log, appends nothing that
\* changes what a replay yields.
LEMMA MemoryDamage ==
    ASSUME TypeOK, Next, damage' # "log"
    PROVE  /\ damage # "log"
           /\ damage' = "memory" => disk'.nodes = disk.nodes /\ disk'.edges = disk.edges
<1>1. disk \in Disk
  BY DEF TypeOK
<1>2. damage' = AfterAppend => damage' = "none" /\ damage = "none"
  BY DEF AfterAppend
<1>3. ASSUME NEW d \in Disk, NEW c, OnWrite(d, c) PROVE damage' = "none" /\ damage = "none"
  BY <1>2, <1>3 DEF OnWrite
<1>4. ASSUME DirectStep
      PROVE  \/ damage' = damage /\ disk'.nodes = disk.nodes /\ disk'.edges = disk.edges
             \/ damage' = "none" /\ damage = "none"
  <2>1. ASSUME NEW node \in NodeData, InsertNode(node) PROVE damage' = "none" /\ damage = "none"
    <3>1. gen.node \in NodeIds
      BY <2>1, StorageAssumption DEF InsertNode, TypeOK, Generator, NodeIds
    <3> QED BY <1>1, <1>3, <2>1, <3>1, SaveNodeType DEF InsertNode
  <2>2. ASSUME NEW edge \in EdgeData, InsertEdge(edge) PROVE damage' = "none" /\ damage = "none"
    <3>1. gen.edge \in EdgeIds
      BY <2>2, StorageAssumption DEF InsertEdge, TypeOK, Generator, EdgeIds
    <3> QED BY <1>1, <1>3, <2>2, <3>1, SaveEdgeType DEF InsertEdge
  <2>3. ASSUME NEW id \in EdgeIds, DirectDeleteEdge(id) PROVE damage' = "none" /\ damage = "none"
    BY <1>1, <1>3, <2>3, DeleteEdgeType DEF DirectDeleteEdge, RemoveEdge
  <2>4. CASE Compact
    BY <1>1, <2>4 DEF Compact, CompactLog, Disk
  <2>5. CASE UNCHANGED <<disk, damage>>
    BY <2>5
  <2> QED
    BY <1>4, <2>1, <2>2, <2>3, <2>4, <2>5
       DEF DirectStep, InsertNodeFails, InsertEdgeFails, DirectDeleteNode, GetEdge, GetNode
<1>5. ASSUME StagingStep
      PROVE  damage' = damage /\ disk'.nodes = disk.nodes /\ disk'.edges = disk.edges
  <2>1. ASSUME NEW t \in TxnIds, CommitStart(t)
        PROVE  damage' = damage /\ disk'.nodes = disk.nodes /\ disk'.edges = disk.edges
    <3>1. t \in Nat /\ disk' = BeginTxn(disk, t) /\ damage' = damage
      BY <2>1 DEF CommitStart, TxnIds
    <3> QED BY <1>1, <3>1, MarkersSeen
  <2> QED
    BY <1>5, <2>1
       DEF StagingStep, BeginTransaction, StageInsertNode, StageInsertEdge, StageDeleteNode,
           StageDeleteEdge, Stage, RollbackTransaction, CommitStartFails
<1>6. ASSUME CallStep
      PROVE  \/ damage' = "none" /\ damage = "none"
             \/ damage # "log" /\ disk'.nodes = disk.nodes /\ disk'.edges = disk.edges
  <2>1. ASSUME DeleteNodeFinish PROVE damage' = "none" /\ damage = "none"
    <3>1. call.node \in NodeIds
      BY <2>1, CallShape DEF DeleteNodeFinish
    <3> QED BY <1>1, <1>3, <2>1, <3>1, DeleteNodeType DEF DeleteNodeFinish
  <2>2. ASSUME CommitDeleteEdge PROVE damage' = "none" /\ damage = "none"
    <3>1. Op.id \in EdgeIds
      BY <2>2, OpType, StagedOpType DEF CommitDeleteEdge
    <3> QED BY <1>1, <1>3, <2>2, <3>1, DeleteEdgeType DEF CommitDeleteEdge, RemoveEdge
  <2>3. ASSUME CommitFinish PROVE damage' = "none" /\ damage = "none"
    <3>1. call.txn \in Nat
      BY <2>3, CallShape DEF CommitFinish, TxnIds
    <3> QED BY <1>1, <1>3, <2>3, <3>1, MarkerTypes DEF CommitFinish
  <2>4. ASSUME CommitRejectEdge
        PROVE  damage # "log" /\ disk'.nodes = disk.nodes /\ disk'.edges = disk.edges
    BY <1>1, <2>4
       DEF CommitRejectEdge, RollbackTxn, Disk, FailedCommitDamage, MemoryDamaged
  <2>5. ASSUME CommitDeleteNode
        PROVE  damage # "log" /\ disk'.nodes = disk.nodes /\ disk'.edges = disk.edges
    BY <2>5 DEF CommitDeleteNode
  <2> QED
    BY <1>2, <1>6, <2>1, <2>2, <2>3, <2>4, <2>5
       DEF CallStep, DeleteIncidentEdge, CommitInsertNode, CommitInsertEdge
<1>7. ASSUME CallFails \/ CrashAndReopen PROVE damage # "log" /\ disk' = disk
  BY <1>7 DEF CallFails, DeleteNodeFailsEarly, DeleteNodeFailsLate, CommitFails,
              CrashAndReopen, FailedCommitDamage, MemoryDamaged
<1> QED
  BY <1>4, <1>5, <1>6, <1>7 DEF Next

-----------------------------------------------------------------------------
(* The engine.  Its endpoint table is what is seen, but for a delete_node   *)
(* under way: the engine then still has the edges that have a tombstone,    *)
(* all of which touch the node.                                             *)

EngineInv ==
    damage = "none" =>
        /\ WellFormed(engine)
        /\ engine.outKeys = {id \in NodeIds : SeenNodes[id] # Absent}
        /\ call.pc # "deleting" => engine.ends = SeenEdges
        /\ call.pc = "deleting" =>
              /\ \A e \in call.incident : Touches(engine.ends[e], call.node)
              /\ SeenEdges = [e \in EdgeIds |->
                    IF Touches(engine.ends[e], call.node) /\ e \notin call.incident
                    THEN Absent ELSE engine.ends[e]]

EndpointsInv == damage # "log" => EndpointsLive(disk.nodes, disk.edges)

LEMMA SeenTypes ==
    ASSUME TypeOK
    PROVE  SeenNodes \in NodeMap /\ SeenEdges \in EdgeMap
BY SeenType DEF TypeOK, SeenNodes, SeenEdges

LEMMA EngineInit == Init => EngineInv /\ EndpointsInv
<1> SUFFICES ASSUME Init PROVE EngineInv /\ EndpointsInv
  OBVIOUS
<1>1. SeenNodes = NoNodes /\ SeenEdges = NoEdges
  BY DEF Init, SeenNodes, SeenEdges, NodesSeen, EdgesSeen, EmptyDisk, NoBuffer, FreshBuffer
<1>2. WellFormed(EmptyEngine)
  BY ArcParts DEF WellFormed, EmptyEngine, NoEdges, IsArc, IsBackArc
<1>3. EndpointsInv
  BY DEF Init, EndpointsInv, EndpointsLive, EmptyDisk, NoEdges
<1>4. EngineInv
  BY <1>1, <1>2 DEF Init, EngineInv, NoNodes, EmptyEngine, NoCall
<1> QED
  BY <1>3, <1>4

\* The engine keeps up with whatever a step does to the graph.
LEMMA EngineFollows ==
    ASSUME TypeOK, EngineInv, Effect, damage = "none"
    PROVE  EngineInv'
<1>1. /\ engine \in Engine /\ SeenNodes \in NodeMap /\ SeenEdges \in EdgeMap
      /\ WellFormed(engine)
      /\ engine.outKeys = {id \in NodeIds : SeenNodes[id] # Absent}
      /\ call.pc # "deleting" => engine.ends = SeenEdges
  BY SeenTypes DEF EngineInv, TypeOK
<1>2. ASSUME call'.pc # "deleting", WellFormed(engine'),
             engine'.outKeys = {id \in NodeIds : SeenNodes'[id] # Absent},
             engine'.ends = SeenEdges'
      PROVE  EngineInv'
  BY <1>2 DEF EngineInv
<1>3. ASSUME NEW id \in NodeIds, NEW node \in NodeData, NEW fields, AddsNode(id, node, fields)
      PROVE  EngineInv'
  <2>1. engine' = EngineInsertNode(engine, id) /\ node # Absent
    BY <1>3, StorageAssumption DEF AddsNode, IndexNode
  <2>2. WellFormed(engine') /\ engine'.outKeys = engine.outKeys \cup {id}
        /\ engine'.ends = engine.ends
    BY <1>1, <2>1, InsertNodeWellFormed
  <2>3. engine'.outKeys = {x \in NodeIds : SeenNodes'[x] # Absent}
    BY <1>1, <1>3, <2>1, <2>2 DEF AddsNode, NodeMap
  <2> QED BY <1>1, <1>2, <1>3, <2>2, <2>3 DEF AddsNode, NotDeleting
<1>4. ASSUME NEW id \in EdgeIds, NEW edge \in EdgeData, AddsEdge(id, edge) PROVE EngineInv'
  <2>1. engine.ends[id] = Absent /\ edge.src \in engine.outKeys /\ edge.tgt \in engine.outKeys
    BY <1>1, <1>4 DEF AddsEdge, NotDeleting, ContainsNode
  <2>2. WellFormed(engine') /\ engine'.outKeys = engine.outKeys
        /\ engine'.ends = [engine.ends EXCEPT ![id] = edge]
    BY <1>1, <1>4, <2>1, InsertEdgeWellFormed DEF AddsEdge
  <2> QED BY <1>1, <1>2, <1>4, <2>2 DEF AddsEdge, NotDeleting
<1>5. ASSUME NEW id \in EdgeIds, DropsEdge(id) PROVE EngineInv'
  <2>1. WellFormed(engine') /\ engine'.outKeys = engine.outKeys
        /\ engine'.ends = [engine.ends EXCEPT ![id] = Absent]
    BY <1>1, <1>5, RemoveEdgeWellFormed DEF DropsEdge
  <2> QED BY <1>1, <1>2, <1>5, <2>1 DEF DropsEdge, NotDeleting
<1>6. ASSUME NEW id \in NodeIds, BeginsDelete(id) PROVE EngineInv'
  <2>1. /\ call'.pc = "deleting" /\ call'.node = id
        /\ call'.incident = {e \in EdgeIds : Touches(engine.ends[e], id)}
    BY <1>1, <1>6, IncidentTouches DEF BeginsDelete, Deleting
  <2>2. /\ engine' = engine /\ SeenNodes' = SeenNodes /\ SeenEdges' = engine.ends
    BY <1>1, <1>6 DEF BeginsDelete, SameGraph
  <2>3. SeenEdges' = [e \in EdgeIds |->
              IF Touches(engine.ends[e], id) /\ e \notin call'.incident
              THEN Absent ELSE engine.ends[e]]
    BY <1>1, <2>1, <2>2 DEF Engine, EdgeMap
  <2> QED BY <1>1, <2>1, <2>2, <2>3 DEF EngineInv
<1>7. ASSUME NEW id \in EdgeIds, Tombstones(id) PROVE EngineInv'
  <2>1. /\ call'.pc = "deleting" /\ call'.node = call.node /\ call.pc = "deleting"
        /\ call'.incident = call.incident \ {id} /\ id \in call.incident
    BY <1>7 DEF Tombstones, TypeOK, Call, NoCall
  <2>2. engine' = engine /\ SeenNodes' = SeenNodes /\ SeenEdges' = [SeenEdges EXCEPT ![id] = Absent]
    BY <1>7 DEF Tombstones
  <2>3. /\ \A e \in call.incident : Touches(engine.ends[e], call.node)
        /\ SeenEdges = [e \in EdgeIds |->
              IF Touches(engine.ends[e], call.node) /\ e \notin call.incident
              THEN Absent ELSE engine.ends[e]]
    BY <2>1, damage = "none" DEF EngineInv
  <2>4. SeenEdges' = [e \in EdgeIds |->
              IF Touches(engine.ends[e], call.node) /\ e \notin call'.incident
              THEN Absent ELSE engine.ends[e]]
    BY <1>1, <2>1, <2>2, <2>3 DEF EdgeMap
  <2> QED BY <1>1, <2>1, <2>2, <2>3, <2>4 DEF EngineInv
<1>8. ASSUME NEW id \in NodeIds, DropsNode(id) PROVE EngineInv'
  <2>1. /\ call.pc = "deleting" /\ call.node = id /\ call.incident = {}
        /\ call'.pc # "deleting"
        /\ SeenNodes' = [SeenNodes EXCEPT ![id] = Absent] /\ SeenEdges' = SeenEdges
        /\ engine' = EngineRemoveNode(engine, id)
    BY <1>8 DEF DropsNode
  <2>2. /\ WellFormed(engine') /\ engine'.outKeys = engine.outKeys \ {id}
        /\ engine'.ends = [e \in EdgeIds |->
               IF Touches(engine.ends[e], id) THEN Absent ELSE engine.ends[e]]
    BY <1>1, <2>1, RemoveNodeWellFormed
  <2>3. SeenEdges = [e \in EdgeIds |->
              IF Touches(engine.ends[e], id) THEN Absent ELSE engine.ends[e]]
    BY <2>1, damage = "none" DEF EngineInv
  <2>4. engine'.outKeys = {x \in NodeIds : SeenNodes'[x] # Absent}
    BY <1>1, <2>1, <2>2 DEF NodeMap
  <2> QED BY <1>2, <2>1, <2>2, <2>3, <2>4
<1>9. ASSUME KeepsGraph PROVE EngineInv'
  BY <1>1, <1>2, <1>9 DEF KeepsGraph, NotDeleting, SameGraph
<1> QED
  BY <1>3, <1>4, <1>5, <1>6, <1>7, <1>8, <1>9 DEF Effect

LEMMA EngineNext ==
    ASSUME Careful
    PROVE  Sound /\ EngineInv /\ EndpointsInv /\ [Next]_vars => EngineInv' /\ EndpointsInv'
<1> SUFFICES ASSUME Sound, EngineInv, EndpointsInv, [Next]_vars
             PROVE  EngineInv' /\ EndpointsInv'
  OBVIOUS
<1>1. TypeOK /\ TypeOK'
  BY NextType DEF Sound
<1>2. CASE UNCHANGED vars
  BY <1>2 DEF vars, EngineInv, EndpointsInv, SeenNodes, SeenEdges, InTxn
<1>3. CASE CrashAndReopen
  <2>1. EndpointsInv'
    BY <1>3, ReopenEffect DEF EndpointsInv
  <2>2. ASSUME damage' = "none" PROVE EngineInv'
    <3>1. disk \in Disk /\ EndpointsLive(disk.nodes, disk.edges)
      BY <1>1, <1>3, <2>2, ReopenEffect DEF TypeOK, EndpointsInv
    <3>2. WellFormed(engine') /\ engine'.outKeys = LiveNodes(disk) /\ engine'.ends = disk.edges
      BY <1>3, <3>1, ReopenEffect, EngineOfIsWellFormed
    <3> QED BY <1>3, <3>2, ReopenEffect DEF EngineInv, NoCall, LiveNodes
  <2> QED BY <2>1, <2>2 DEF EngineInv
<1>4. CASE Next /\ ~CrashAndReopen
  <2>1. EngineInv'
    <3>1. ASSUME damage' = "none" PROVE EngineInv'
      BY <1>1, <1>4, <3>1, StepEffect, EngineFollows
    <3> QED BY <3>1 DEF EngineInv
  <2>2. ASSUME damage' # "log" PROVE EndpointsLive(disk'.nodes, disk'.edges)
    <3>1. /\ damage # "log" /\ EndpointsLive(disk.nodes, disk.edges)
          /\ damage' = "memory" => disk'.nodes = disk.nodes /\ disk'.edges = disk.edges
      BY <1>1, <1>4, <2>2, MemoryDamage DEF EndpointsInv
    <3>2. CASE damage' = "memory"
      BY <3>1, <3>2
    <3>3. CASE damage' = "none" /\ Buffering'
      BY <1>4, <3>1, <3>3, StepEffect DEF BufferHides
    <3>4. CASE damage' = "none" /\ ~Buffering'
      <4>1. /\ WellFormed(engine')
            /\ engine'.outKeys = {id \in NodeIds : SeenNodes'[id] # Absent}
            /\ \A e \in EdgeIds : SeenEdges'[e] \in {engine'.ends[e], Absent}
        BY <2>1, <3>4 DEF EngineInv
      <4>2. SeenNodes' = disk'.nodes /\ SeenEdges' = disk'.edges
        BY <3>4 DEF Buffering, SeenNodes, SeenEdges, NodesSeen, EdgesSeen
      <4> QED BY <4>1, <4>2 DEF WellFormed, EndpointsLive
    <3> QED BY <1>1, <2>2, <3>2, <3>3, <3>4 DEF TypeOK
  <2> QED BY <2>1, <2>2 DEF EndpointsInv
<1> QED
  BY <1>2, <1>3, <1>4

LEMMA EngineCorrect ==
    ASSUME Careful
    PROVE  Spec => [](Sound /\ EngineInv /\ EndpointsInv)
<1>1. Init => EngineInv /\ EndpointsInv
  BY EngineInit
<1>2. Sound /\ EngineInv /\ EndpointsInv /\ [Next]_vars => EngineInv' /\ EndpointsInv'
  BY EngineNext
<1>3. Spec => []Sound
  BY AlwaysSound
<1> QED
  BY <1>1, <1>2, <1>3, PTL DEF Spec

\* Between calls what is seen is the log.
LEMMA SettledSees ==
    ASSUME TypeOK, Settled
    PROVE  /\ damage = "none" /\ call.pc = "idle" /\ disk \in Disk
           /\ SeenNodes = disk.nodes /\ SeenEdges = disk.edges
<1>1. call.txn = 0
  BY IdleNoTxn DEF Settled
<1> QED
  BY <1>1 DEF Settled, Idle, TypeOK, SeenNodes, SeenEdges, NodesSeen, EdgesSeen, InTxn

\* Between calls the engine is the one that opening the log would build,
\* through every direct operation, commit, compaction and restart, and whatever
\* of this a failing append or a crash cuts short.
THEOREM EngineStaysInStep ==
    ASSUME Careful
    PROVE  Spec => []EngineMirrorsLog
<1>1. Sound /\ EngineInv => EngineMirrorsLog
  <2> SUFFICES ASSUME Sound, EngineInv, Settled PROVE engine = EngineOf(disk)
    BY DEF EngineMirrorsLog
  <2>1. TypeOK /\ engine \in Engine
    BY DEF Sound, TypeOK
  <2>2. /\ disk \in Disk /\ WellFormed(engine)
        /\ engine.outKeys = LiveNodes(disk) /\ engine.ends = disk.edges
    BY <2>1, SettledSees DEF EngineInv, LiveNodes
  <2> QED BY <2>1, <2>2, WellFormedIsEngineOf
<1> QED
  BY <1>1, EngineCorrect, PTL

\* A replay of the log never yields an edge without its endpoints, at whatever
\* record the log ends.
THEOREM NoDanglingEdges ==
    ASSUME Careful
    PROVE  Spec => []ReferentialIntegrity
<1>1. Sound /\ EndpointsInv => ReferentialIntegrity
  <2> SUFFICES ASSUME Sound, EndpointsInv, damage # "log", NEW e \in LiveEdges(disk)
               PROVE  /\ disk.edges[e].src \in LiveNodes(disk)
                      /\ disk.edges[e].tgt \in LiveNodes(disk)
    BY DEF ReferentialIntegrity
  <2>1. disk.edges \in EdgeMap /\ e \in EdgeIds /\ disk.edges[e] # Absent
    BY DEF Sound, TypeOK, Disk, LiveEdges
  <2>2. disk.edges[e].src \in NodeIds /\ disk.edges[e].tgt \in NodeIds
    BY <2>1, EdgeEnds
  <2> QED BY <2>1, <2>2 DEF EndpointsInv, EndpointsLive, LiveNodes
<1> QED
  BY <1>1, EngineCorrect, PTL

-----------------------------------------------------------------------------
(* The cache.                                                               *)

CacheInv ==
    damage = "none" =>
        /\ \A id \in NodeIds : cache.nodes[id] \in {SeenNodes[id], Absent}
        /\ \A id \in EdgeIds : cache.edges[id] \in {SeenEdges[id], Absent}

LEMMA PutNodeFacts ==
    ASSUME NEW c \in Cache, NEW id \in NodeIds, NEW node \in NodeData,
           NEW r \in PutNode(c, id, node)
    PROVE  /\ r.edges = c.edges
           /\ \A x \in NodeIds \ {id} : r.nodes[x] \in {c.nodes[x], Absent}
           /\ r.nodes[id] \in {c.nodes[id], node}
<1>1. PICK m \in PutResults(c.nodes, id, node) : r = [c EXCEPT !.nodes = m]
  BY DEF PutNode
<1>2. r.edges = c.edges /\ r.nodes = m
  BY <1>1 DEF Cache
<1>3. \A v \in Present(c.nodes) : v \in NodeIds
  BY DEF Present, Cache, NodeMap
<1>4. /\ \A x \in NodeIds \ {id} : m[x] \in {c.nodes[x], Absent}
      /\ m[id] \in {c.nodes[id], node}
  BY <1>3 DEF PutResults, Cache, NodeMap
<1> QED
  BY <1>2, <1>4

LEMMA PutEdgeFacts ==
    ASSUME NEW c \in Cache, NEW id \in EdgeIds, NEW edge \in EdgeData,
           NEW r \in PutEdge(c, id, edge)
    PROVE  /\ r.nodes = c.nodes
           /\ \A x \in EdgeIds \ {id} : r.edges[x] \in {c.edges[x], Absent}
           /\ r.edges[id] \in {c.edges[id], edge}
<1>1. PICK m \in PutResults(c.edges, id, edge) : r = [c EXCEPT !.edges = m]
  BY DEF PutEdge
<1>2. r.nodes = c.nodes /\ r.edges = m
  BY <1>1 DEF Cache
<1>3. \A v \in Present(c.edges) : v \in EdgeIds
  BY DEF Present, Cache, EdgeMap
<1>4. /\ \A x \in EdgeIds \ {id} : m[x] \in {c.edges[x], Absent}
      /\ m[id] \in {c.edges[id], edge}
  BY <1>3 DEF PutResults, Cache, EdgeMap
<1> QED
  BY <1>2, <1>4

\* get_node finds a value in the cache or in the log, and may put it there.
LEMMA NodeReadsFacts ==
    ASSUME TypeOK, NEW id \in NodeIds, NEW r \in NodeReads(id)
    PROVE  /\ r.value = IF cache.nodes[id] # Absent THEN cache.nodes[id] ELSE disk.nodes[id]
           /\ r.cache.edges = cache.edges
           /\ \A x \in NodeIds \ {id} : r.cache.nodes[x] \in {cache.nodes[x], Absent}
<1>1. CASE r.cache = cache
  BY <1>1 DEF NodeReads
<1>2. CASE r.cache # cache
  <2>1. /\ cache.nodes[id] = Absent /\ disk.nodes[id] # Absent /\ r.value = disk.nodes[id]
        /\ r.cache \in PutNode(cache, id, disk.nodes[id])
    BY <1>2 DEF NodeReads
  <2>2. cache \in Cache /\ disk.nodes[id] \in NodeData
    BY <2>1 DEF TypeOK, Disk, NodeMap
  <2> QED BY <2>1, <2>2, PutNodeFacts
<1> QED
  BY <1>1, <1>2

LEMMA CacheInit == Init => CacheInv
BY DEF Init, CacheInv, EmptyCache, NoNodes, NoEdges

LEMMA CacheFollows ==
    ASSUME TypeOK, CacheInv, Effect, damage = "none"
    PROVE  CacheInv'
<1>1. /\ cache \in Cache /\ SeenNodes \in NodeMap /\ SeenEdges \in EdgeMap
      /\ \A id \in NodeIds : cache.nodes[id] \in {SeenNodes[id], Absent}
      /\ \A id \in EdgeIds : cache.edges[id] \in {SeenEdges[id], Absent}
  BY SeenTypes DEF CacheInv, TypeOK
<1>2. ASSUME NEW c, CacheBecomes(c),
             \A id \in NodeIds : c.nodes[id] \in {SeenNodes'[id], Absent},
             \A id \in EdgeIds : c.edges[id] \in {SeenEdges'[id], Absent}
      PROVE  CacheInv'
  BY <1>2 DEF CacheInv, CacheBecomes, EmptyCache, NoNodes, NoEdges
<1>3. ASSUME NEW id \in NodeIds, NEW node \in NodeData, NEW fields, AddsNode(id, node, fields)
      PROVE  CacheInv'
  <2>1. PICK c \in PutNode(cache, id, node) : CacheBecomes(c)
    BY <1>3 DEF AddsNode
  <2>2. /\ SeenNodes[id] = Absent
        /\ SeenNodes' = [SeenNodes EXCEPT ![id] = node] /\ SeenEdges' = SeenEdges
    BY <1>3 DEF AddsNode
  <2>3. \A x \in NodeIds : c.nodes[x] \in {SeenNodes'[x], Absent}
    BY <1>1, <2>1, <2>2, PutNodeFacts DEF NodeMap
  <2>4. \A x \in EdgeIds : c.edges[x] \in {SeenEdges'[x], Absent}
    BY <1>1, <2>1, <2>2, PutNodeFacts
  <2> QED BY <1>2, <2>1, <2>3, <2>4
<1>4. ASSUME NEW id \in EdgeIds, NEW edge \in EdgeData, AddsEdge(id, edge) PROVE CacheInv'
  <2>1. PICK c \in PutEdge(cache, id, edge) : CacheBecomes(c)
    BY <1>4 DEF AddsEdge
  <2>2. /\ SeenEdges[id] = Absent
        /\ SeenEdges' = [SeenEdges EXCEPT ![id] = edge] /\ SeenNodes' = SeenNodes
    BY <1>4 DEF AddsEdge
  <2>3. \A x \in EdgeIds : c.edges[x] \in {SeenEdges'[x], Absent}
    BY <1>1, <2>1, <2>2, PutEdgeFacts DEF EdgeMap
  <2>4. \A x \in NodeIds : c.nodes[x] \in {SeenNodes'[x], Absent}
    BY <1>1, <2>1, <2>2, PutEdgeFacts
  <2> QED BY <1>2, <2>1, <2>3, <2>4
<1>5. ASSUME NEW id \in EdgeIds, DropsEdge(id) \/ Tombstones(id) PROVE CacheInv'
  <2> DEFINE c == InvalidateEdge(cache, id)
  <2>1. /\ CacheBecomes(c) /\ SeenEdges' = [SeenEdges EXCEPT ![id] = Absent]
        /\ SeenNodes' = SeenNodes
    BY <1>5 DEF DropsEdge, Tombstones, CacheBecomes
  <2>2. /\ \A x \in NodeIds : c.nodes[x] \in {SeenNodes'[x], Absent}
        /\ \A x \in EdgeIds : c.edges[x] \in {SeenEdges'[x], Absent}
    BY <1>1, <2>1 DEF InvalidateEdge, Cache, EdgeMap
  <2> QED BY <1>2, <2>1, <2>2
<1>6. ASSUME NEW id \in NodeIds, BeginsDelete(id) PROVE CacheInv'
  BY <1>1, <1>6 DEF BeginsDelete, SameGraph, CacheInv
<1>7. ASSUME NEW id \in NodeIds, DropsNode(id) PROVE CacheInv'
  <2>1. PICK r \in NodeReads(id) : CacheBecomes(InvalidateNode(r.cache, id))
    BY <1>7 DEF DropsNode
  <2> DEFINE c == InvalidateNode(r.cache, id)
  <2>2. SeenNodes' = [SeenNodes EXCEPT ![id] = Absent] /\ SeenEdges' = SeenEdges
    BY <1>7 DEF DropsNode
  <2>3. /\ r.cache \in Cache /\ r.cache.edges = cache.edges
        /\ \A x \in NodeIds \ {id} : r.cache.nodes[x] \in {cache.nodes[x], Absent}
    BY <2>1, NodeReadsFacts, NodeReadsType
  <2>4. c.edges = cache.edges /\ c.nodes = [r.cache.nodes EXCEPT ![id] = Absent]
    BY <2>3 DEF InvalidateNode, Cache
  <2>5. \A x \in NodeIds : c.nodes[x] \in {SeenNodes'[x], Absent}
    BY <1>1, <2>2, <2>3, <2>4 DEF Cache, NodeMap
  <2>6. \A x \in EdgeIds : c.edges[x] \in {SeenEdges'[x], Absent}
    BY <1>1, <2>2, <2>4
  <2> QED BY <1>2, <2>1, <2>5, <2>6
<1>8. ASSUME KeepsGraph PROVE CacheInv'
  <2>1. SeenNodes' = SeenNodes /\ SeenEdges' = SeenEdges
    BY <1>8 DEF KeepsGraph, SameGraph
  <2>2. ASSUME NEW id \in NodeIds, SeenNodes[id] # Absent,
               cache' \in PutNode(cache, id, SeenNodes[id])
        PROVE  CacheInv'
    <3>1. SeenNodes[id] \in NodeData
      BY <1>1, <2>2 DEF NodeMap
    <3>2. /\ \A x \in NodeIds : cache'.nodes[x] \in {SeenNodes'[x], Absent}
          /\ cache'.edges = cache.edges
      BY <1>1, <2>1, <2>2, <3>1, PutNodeFacts
    <3> QED BY <1>1, <2>1, <3>2 DEF CacheInv
  <2>3. ASSUME NEW id \in EdgeIds, SeenEdges[id] # Absent,
               cache' \in PutEdge(cache, id, SeenEdges[id])
        PROVE  CacheInv'
    <3>1. SeenEdges[id] \in EdgeData
      BY <1>1, <2>3 DEF EdgeMap
    <3>2. /\ \A x \in EdgeIds : cache'.edges[x] \in {SeenEdges'[x], Absent}
          /\ cache'.nodes = cache.nodes
      BY <1>1, <2>1, <2>3, <3>1, PutEdgeFacts
    <3> QED BY <1>1, <2>1, <3>2 DEF CacheInv
  <2>4. CASE CacheBecomes(cache)
    BY <1>1, <1>2, <2>1, <2>4
  <2> QED BY <1>8, <2>2, <2>3, <2>4 DEF KeepsGraph, Fetches
<1> QED
  BY <1>3, <1>4, <1>5, <1>6, <1>7, <1>8 DEF Effect

LEMMA CacheNext ==
    ASSUME Careful
    PROVE  Sound /\ CacheInv /\ [Next]_vars => CacheInv'
<1> SUFFICES ASSUME Sound, CacheInv, [Next]_vars, damage' = "none" PROVE CacheInv'
  BY DEF CacheInv
<1>1. CASE UNCHANGED vars
  BY <1>1 DEF vars, CacheInv, SeenNodes, SeenEdges, InTxn
<1>2. CASE CrashAndReopen
  BY <1>2, ReopenEffect DEF CacheInv, EmptyCache, NoNodes, NoEdges
<1>3. CASE Next /\ ~CrashAndReopen
  BY <1>3, StepEffect, CacheFollows DEF Sound
<1> QED
  BY <1>1, <1>2, <1>3

\* Between calls every cached node and edge is the one in the log, whatever the
\* cache evicts: nothing that a delete, a rollback or a compaction has taken
\* away is served from RAM.
THEOREM CacheStaysCoherent ==
    ASSUME Careful
    PROVE  Spec => []CacheCoherent
<1>1. Sound /\ CacheInv => CacheCoherent
  <2> SUFFICES ASSUME Sound, CacheInv, Settled PROVE
        /\ \A id \in Present(cache.nodes) : cache.nodes[id] = disk.nodes[id]
        /\ \A id \in Present(cache.edges) : cache.edges[id] = disk.edges[id]
    BY DEF CacheCoherent
  <2>1. TypeOK /\ DOMAIN cache.nodes = NodeIds /\ DOMAIN cache.edges = EdgeIds
    BY DEF Sound, TypeOK, Cache, NodeMap, EdgeMap
  <2> QED BY <2>1, SettledSees DEF CacheInv, Present
<1>2. Init => CacheInv
  BY CacheInit
<1>3. Sound /\ CacheInv /\ [Next]_vars => CacheInv'
  BY CacheNext
<1> QED
  BY <1>1, <1>2, <1>3, AlwaysSound, PTL DEF Spec

-----------------------------------------------------------------------------
(* The indexes.  delete_node takes a node's entries away with the node at  *)
(* hand, so it must find it: in the cache or among the live nodes of the   *)
(* log.  A node that was inserted by the same commit is in the buffer,     *)
(* where get_node does not look, and in the cache unless it was evicted.   *)

Findable == MaxTxns = 0 \/ ~Markers \/ CacheCapacity >= MaxNodes

FoundInv ==
    damage = "none" =>
        \A id \in NodeIds : SeenNodes[id] \in {disk.nodes[id], cache.nodes[id], Absent}

\* Nothing is evicted from a cache with room for every node.
LEMMA PutNodeKeeps ==
    ASSUME CacheCapacity >= MaxNodes, NEW c \in Cache, NEW id \in NodeIds,
           NEW node \in NodeData, NEW r \in PutNode(c, id, node)
    PROVE  r.nodes = [c.nodes EXCEPT ![id] = node]
<1>1. PICK m \in PutResults(c.nodes, id, node) : r = [c EXCEPT !.nodes = m]
  BY DEF PutNode
<1>2. r.nodes = m
  BY <1>1 DEF Cache
<1>3. MaxNodes \in Nat /\ CacheCapacity \in Nat /\ MaxNodes > 0
  BY StorageAssumption, CacheAssumption DEF NodeIds
<1>4. ASSUME c.nodes[id] = Absent PROVE Cardinality(Present(c.nodes)) < CacheCapacity
  <2>1. /\ IsFiniteSet(NodeIds) /\ Cardinality(NodeIds) = MaxNodes
    BY <1>3, FS_Interval DEF NodeIds
  <2>2. Present(c.nodes) \subseteq NodeIds /\ Present(c.nodes) # NodeIds
    BY <1>4 DEF Present, Cache, NodeMap
  <2>3. /\ IsFiniteSet(Present(c.nodes))
        /\ Cardinality(Present(c.nodes)) =< Cardinality(NodeIds)
        /\ Cardinality(Present(c.nodes)) # Cardinality(NodeIds)
    BY <2>1, <2>2, FS_Subset, Zenon
  <2>4. Cardinality(Present(c.nodes)) \in Nat
    BY <2>3, FS_CardinalityType
  <2> QED BY <1>3, <2>1, <2>3, <2>4
<1> QED
  BY <1>1, <1>2, <1>3, <1>4 DEF PutResults

LEMMA FoundInit == Init => FoundInv
BY DEF Init, FoundInv, SeenNodes, NodesSeen, EmptyDisk, NoBuffer, FreshBuffer

LEMMA FoundNext ==
    ASSUME Careful, Findable
    PROVE  Sound /\ FoundInv /\ [Next]_vars => FoundInv'
<1> SUFFICES ASSUME Sound, FoundInv, [Next]_vars, damage' = "none" PROVE FoundInv'
  BY DEF FoundInv
<1>1. TypeOK /\ TypeOK' /\ cache \in Cache /\ SeenNodes \in NodeMap
  BY NextType, SeenTypes DEF Sound, TypeOK
<1>2. CASE UNCHANGED vars
  BY <1>2 DEF vars, FoundInv, SeenNodes, InTxn
<1>3. CASE ~Buffering'
  BY <1>3 DEF FoundInv, Buffering, SeenNodes, NodesSeen
<1>4. CASE Next /\ Buffering'
  <2>1. ~CrashAndReopen
    BY <1>4, ReopenEffect
  <2>2. Effect /\ damage = "none" /\ disk'.nodes = disk.nodes
    BY <1>4, <2>1, StepEffect DEF BufferHides
  <2>3. Markers /\ MaxTxns # 0
    <3>1. Markers
      BY <1>1, <1>4, BufferNext DEF Sound, BufferInv, Buffering, TypeOK
    <3>2. call'.txn # 0 /\ call'.txn \in 0 .. MaxTxns
      BY <1>1, <1>4 DEF Buffering, InTxn, TypeOK, Call, NoCall, TxnIds
    <3> QED BY <3>1, <3>2, DbAssumption
  <2>4. CacheCapacity >= MaxNodes
    BY <2>3 DEF Findable
  <2>5. \A id \in NodeIds : SeenNodes[id] \in {disk.nodes[id], cache.nodes[id], Absent}
    BY <2>2 DEF FoundInv
  <2>6. ASSUME SeenNodes' = SeenNodes, cache'.nodes = cache.nodes PROVE FoundInv'
    BY <2>2, <2>5, <2>6 DEF FoundInv
  <2>7. ASSUME NEW id \in NodeIds, NEW node \in NodeData, NEW fields,
               AddsNode(id, node, fields)
        PROVE  FoundInv'
    <3>1. cache' \in PutNode(cache, id, node) /\ SeenNodes' = [SeenNodes EXCEPT ![id] = node]
      BY <1>4, <2>7 DEF AddsNode, CacheBecomes
    <3>2. cache'.nodes = [cache.nodes EXCEPT ![id] = node]
      BY <1>1, <2>4, <3>1, PutNodeKeeps
    <3> QED BY <1>1, <2>2, <2>5, <3>1, <3>2 DEF FoundInv, NodeMap, Cache
  <2>8. ASSUME NEW id \in EdgeIds, NEW edge \in EdgeData, AddsEdge(id, edge) PROVE FoundInv'
    <3>1. cache' \in PutEdge(cache, id, edge) /\ SeenNodes' = SeenNodes
      BY <1>4, <2>8 DEF AddsEdge, CacheBecomes
    <3> QED BY <1>1, <2>6, <2>8, <3>1, PutEdgeFacts
  <2>9. ASSUME NEW id \in EdgeIds, DropsEdge(id) \/ Tombstones(id) PROVE FoundInv'
    <3>1. cache' = InvalidateEdge(cache, id) /\ SeenNodes' = SeenNodes
      BY <1>4, <2>9 DEF DropsEdge, Tombstones, CacheBecomes
    <3> QED BY <1>1, <2>6, <3>1 DEF InvalidateEdge, Cache
  <2>10. ASSUME NEW id \in NodeIds, BeginsDelete(id) PROVE FoundInv'
    BY <2>6, <2>10 DEF BeginsDelete, SameGraph
  <2>11. ASSUME NEW id \in NodeIds, DropsNode(id) PROVE FoundInv'
    <3>1. PICK r \in NodeReads(id) : cache' = InvalidateNode(r.cache, id)
      BY <1>4, <2>11 DEF DropsNode, CacheBecomes
    <3>2. SeenNodes' = [SeenNodes EXCEPT ![id] = Absent]
      BY <2>11 DEF DropsNode
    <3>3. \A x \in NodeIds \ {id} : r.cache.nodes[x] = cache.nodes[x]
      <4>1. CASE r.cache = cache
        BY <4>1
      <4>2. CASE r.cache # cache
        <5>1. /\ disk.nodes[id] \in NodeData /\ r.cache \in PutNode(cache, id, disk.nodes[id])
          BY <1>1, <3>1, <4>2 DEF NodeReads, TypeOK, Disk, NodeMap
        <5>2. r.cache.nodes = [cache.nodes EXCEPT ![id] = disk.nodes[id]]
          BY <1>1, <2>4, <5>1, PutNodeKeeps
        <5> QED BY <1>1, <5>2 DEF Cache, NodeMap
      <4> QED BY <4>1, <4>2
    <3>4. \A x \in NodeIds \ {id} : cache'.nodes[x] = cache.nodes[x]
      BY <1>1, <3>1, <3>3, NodeReadsType DEF InvalidateNode, Cache, NodeMap
    <3> QED BY <1>1, <2>2, <2>5, <3>2, <3>4 DEF FoundInv, NodeMap
  <2>12. ASSUME KeepsGraph PROVE FoundInv'
    BY <1>4, <2>6, <2>12 DEF KeepsGraph, SameGraph, CacheBecomes, Fetches
  <2> QED BY <2>2, <2>7, <2>8, <2>9, <2>10, <2>11, <2>12 DEF Effect
<1> QED
  BY <1>2, <1>3, <1>4

\* What delete_node finds of a node that is there is the node.
LEMMA DeleteFinds ==
    ASSUME TypeOK, CacheInv, FoundInv, damage = "none",
           NEW id \in NodeIds, NEW r \in NodeReads(id), SeenNodes[id] # Absent
    PROVE  r.value = SeenNodes[id]
BY NodeReadsFacts DEF CacheInv, FoundInv

LabelInv ==
    damage = "none" =>
        \A l \in Labels, id \in NodeIds :
            labels[l][id] =
                IF SeenNodes[id] # Absent /\ SeenNodes[id].label = l THEN 1 ELSE 0

LEMMA LabelInit == Init => LabelInv
BY DEF Init, LabelInv, EmptyLabelIndex, SeenNodes, NodesSeen, EmptyDisk, NoBuffer,
       FreshBuffer, NoNodes

LEMMA LabelFollows ==
    ASSUME TypeOK, CacheInv, FoundInv, LabelInv, Effect, damage = "none"
    PROVE  LabelInv'
<1>1. labels \in LabelIndex /\ SeenNodes \in NodeMap
  BY SeenTypes DEF TypeOK
<1>2. \A l \in Labels, id \in NodeIds :
         labels[l][id] = IF SeenNodes[id] # Absent /\ SeenNodes[id].label = l THEN 1 ELSE 0
  BY DEF LabelInv
<1>3. ASSUME SeenNodes' = SeenNodes, labels' = labels PROVE LabelInv'
  BY <1>2, <1>3 DEF LabelInv
<1>4. ASSUME NEW id \in NodeIds, NEW node \in NodeData, NEW fields, AddsNode(id, node, fields)
      PROVE  LabelInv'
  <2>1. /\ labels' = [labels EXCEPT ![node.label][id] = @ + 1] /\ SeenNodes[id] = Absent
        /\ SeenNodes' = [SeenNodes EXCEPT ![id] = node]
    BY <1>4 DEF AddsNode, IndexNode, LabelInsert
  <2>2. node # Absent /\ node.label \in Labels
    BY NodeDataTypes, StorageAssumption
  <2>3. ASSUME NEW l \in Labels, NEW x \in NodeIds
        PROVE  labels'[l][x] =
                  IF SeenNodes'[x] # Absent /\ SeenNodes'[x].label = l THEN 1 ELSE 0
    <3>1. labels'[l][x] = IF l = node.label /\ x = id THEN labels[l][x] + 1 ELSE labels[l][x]
      BY <1>1, <2>1, <2>2 DEF LabelIndex
    <3>2. SeenNodes'[x] = IF x = id THEN node ELSE SeenNodes[x]
      BY <1>1, <2>1 DEF NodeMap
    <3> QED BY <1>2, <2>1, <2>2, <3>1, <3>2
  <2> QED BY <2>3 DEF LabelInv
<1>5. ASSUME NEW id \in NodeIds, DropsNode(id) PROVE LabelInv'
  <2>1. PICK r \in NodeReads(id) : UnindexNode(id, r.value)
    BY <1>5 DEF DropsNode
  <2>2. /\ SeenNodes' = [SeenNodes EXCEPT ![id] = Absent]
        /\ SeenNodes[id] # Absent => r.value = SeenNodes[id]
        /\ r.value \in NodeData \cup {Absent}
    BY <1>5, <2>1, DeleteFinds, NodeReadsType DEF DropsNode
  <2>3. \A x \in NodeIds : SeenNodes'[x] = IF x = id THEN Absent ELSE SeenNodes[x]
    BY <1>1, <2>2 DEF NodeMap
  <2>4. CASE r.value = Absent
    <3>1. labels' = labels /\ SeenNodes[id] = Absent
      BY <2>1, <2>2, <2>4 DEF UnindexNode
    <3> QED BY <1>2, <2>3, <3>1 DEF LabelInv
  <2>5. CASE r.value # Absent
    <3>1. /\ r.value \in NodeData /\ r.value.label \in Labels
          /\ labels' = [labels EXCEPT ![r.value.label][id] = 0]
      BY <2>1, <2>2, <2>5, NodeDataTypes DEF UnindexNode, LabelRemove
    <3>2. ASSUME NEW l \in Labels, NEW x \in NodeIds
          PROVE  labels'[l][x] =
                    IF SeenNodes'[x] # Absent /\ SeenNodes'[x].label = l THEN 1 ELSE 0
      <4>1. labels'[l][x] = IF l = r.value.label /\ x = id THEN 0 ELSE labels[l][x]
        BY <1>1, <3>1 DEF LabelIndex
      <4> QED BY <1>2, <2>2, <2>3, <4>1
    <3> QED BY <3>2 DEF LabelInv
  <2> QED BY <2>4, <2>5
<1>6. ASSUME NEW id \in EdgeIds, NEW edge \in EdgeData, AddsEdge(id, edge) PROVE LabelInv'
  BY <1>3, <1>6 DEF AddsEdge, SameIndexes
<1>7. ASSUME NEW id \in EdgeIds, DropsEdge(id) \/ Tombstones(id) PROVE LabelInv'
  BY <1>3, <1>7 DEF DropsEdge, Tombstones, SameIndexes
<1>8. ASSUME NEW id \in NodeIds, BeginsDelete(id) PROVE LabelInv'
  BY <1>3, <1>8 DEF BeginsDelete, SameGraph, SameIndexes
<1>9. ASSUME KeepsGraph PROVE LabelInv'
  BY <1>3, <1>9 DEF KeepsGraph, SameGraph, SameIndexes
<1> QED
  BY <1>4, <1>5, <1>6, <1>7, <1>8, <1>9 DEF Effect

LEMMA LabelNext ==
    ASSUME Careful
    PROVE  Sound /\ CacheInv /\ FoundInv /\ LabelInv /\ [Next]_vars => LabelInv'
<1> SUFFICES ASSUME Sound, CacheInv, FoundInv, LabelInv, [Next]_vars, damage' = "none"
             PROVE  LabelInv'
  BY DEF LabelInv
<1>1. CASE UNCHANGED vars
  BY <1>1 DEF vars, LabelInv, SeenNodes, InTxn
<1>2. CASE CrashAndReopen
  BY <1>2, ReopenEffect DEF LabelInv, LabelIndexOf
<1>3. CASE Next /\ ~CrashAndReopen
  BY <1>3, StepEffect, LabelFollows DEF Sound
<1> QED
  BY <1>1, <1>2, <1>3

LEMMA IndexesFound ==
    ASSUME Careful, Findable
    PROVE  Spec => [](Sound /\ CacheInv /\ FoundInv)
<1>1. Init => CacheInv /\ FoundInv
  BY CacheInit, FoundInit
<1>2. Sound /\ CacheInv /\ FoundInv /\ [Next]_vars => CacheInv' /\ FoundInv'
  BY CacheNext, FoundNext
<1> QED
  BY <1>1, <1>2, AlwaysSound, PTL DEF Spec

\* Between calls the label index lists every live node once, under its label,
\* and nothing else.
THEOREM LabelIndexStaysExact ==
    ASSUME Careful, Findable
    PROVE  Spec => []LabelIndexExact
<1>1. Sound /\ LabelInv => LabelIndexExact
  <2> SUFFICES ASSUME Sound, LabelInv, Settled PROVE labels = LabelIndexOf(disk)
    BY DEF LabelIndexExact
  <2>1. TypeOK /\ labels \in LabelIndex /\ damage = "none" /\ SeenNodes = disk.nodes
    BY SettledSees DEF Sound, TypeOK
  <2>2. \A l \in Labels, id \in NodeIds : labels[l][id] = LabelIndexOf(disk)[l][id]
    BY <2>1 DEF LabelInv, LabelIndexOf
  <2>3. LabelIndexOf(disk) \in LabelIndex
    BY <2>1, IndexOfTypes DEF TypeOK
  <2>4. \A l \in Labels : labels[l] = LabelIndexOf(disk)[l]
    BY <2>1, <2>2, <2>3 DEF LabelIndex
  <2> QED BY <2>1, <2>3, <2>4 DEF LabelIndex
<1>2. Init => LabelInv
  BY LabelInit
<1>3. Sound /\ CacheInv /\ FoundInv /\ LabelInv /\ [Next]_vars => LabelInv'
  BY LabelNext
<1> QED
  BY <1>1, <1>2, <1>3, IndexesFound, PTL DEF Spec

-----------------------------------------------------------------------------
(* The property index.  A commit indexes every field of a node, the other  *)
(* writers only the fields the configuration names.                        *)

AllIndexed == MaxTxns = 0 \/ \A node \in NodeData : node.fields \subseteq IndexedFields

PropertyInv ==
    damage = "none" =>
        /\ props.known \subseteq IndexedFields
        /\ \A id \in NodeIds :
              SeenNodes[id] # Absent => Indexable(SeenNodes[id]) \subseteq props.known
        /\ \A f \in Fields :
              props.entries[f] =
                  {id \in NodeIds : SeenNodes[id] # Absent /\ f \in Indexable(SeenNodes[id])}

LEMMA PropertyInit == Init => PropertyInv
BY DEF Init, PropertyInv, EmptyPropertyIndex, SeenNodes, NodesSeen, EmptyDisk, NoBuffer,
       FreshBuffer, NoNodes

LEMMA PropertyFollows ==
    ASSUME AllIndexed, TypeOK, CacheInv, FoundInv, PropertyInv, Effect, damage = "none"
    PROVE  PropertyInv'
<1>1. props \in PropertyIndex /\ SeenNodes \in NodeMap
  BY SeenTypes DEF TypeOK
<1>2. /\ props.known \subseteq IndexedFields
      /\ \A id \in NodeIds :
            SeenNodes[id] # Absent => Indexable(SeenNodes[id]) \subseteq props.known
      /\ \A f \in Fields, id \in NodeIds :
            id \in props.entries[f]
               <=> SeenNodes[id] # Absent /\ f \in Indexable(SeenNodes[id])
  BY DEF PropertyInv
<1>3. ASSUME SeenNodes' = SeenNodes, props' = props PROVE PropertyInv'
  BY <1>3 DEF PropertyInv
<1>4. ASSUME props'.known \subseteq IndexedFields, props' \in PropertyIndex,
             \A id \in NodeIds :
                SeenNodes'[id] # Absent => Indexable(SeenNodes'[id]) \subseteq props'.known,
             \A f \in Fields, id \in NodeIds :
                id \in props'.entries[f]
                   <=> SeenNodes'[id] # Absent /\ f \in Indexable(SeenNodes'[id])
      PROVE  PropertyInv'
  BY <1>4 DEF PropertyInv, PropertyIndex
<1>5. ASSUME NEW id \in NodeIds, NEW node \in NodeData, AddsNode(id, node, Indexable(node))
      PROVE  PropertyInv'
  <2>1. /\ props' = PropertyInsert(props, id, Indexable(node)) /\ SeenNodes[id] = Absent
        /\ SeenNodes' = [SeenNodes EXCEPT ![id] = node]
    BY <1>5 DEF AddsNode, IndexNode
  <2>2. /\ node # Absent /\ props' \in PropertyIndex
        /\ Indexable(node) \subseteq IndexedFields
    BY <1>1, <2>1, NodeDataTypes, PropertyTypes, StorageAssumption DEF Indexable
  <2>3. /\ props'.known = props.known \cup Indexable(node)
        /\ \A f \in Fields : props'.entries[f] =
              IF f \in Indexable(node) THEN props.entries[f] \cup {id} ELSE props.entries[f]
    BY <2>1 DEF PropertyInsert
  <2>4. \A x \in NodeIds : SeenNodes'[x] = IF x = id THEN node ELSE SeenNodes[x]
    BY <1>1, <2>1 DEF NodeMap
  <2>5. \A x \in NodeIds :
           SeenNodes'[x] # Absent => Indexable(SeenNodes'[x]) \subseteq props'.known
    BY <1>2, <2>3, <2>4
  <2>6. \A f \in Fields, x \in NodeIds :
           x \in props'.entries[f]
              <=> SeenNodes'[x] # Absent /\ f \in Indexable(SeenNodes'[x])
    <3> SUFFICES ASSUME NEW f \in Fields, NEW x \in NodeIds
                 PROVE  x \in props'.entries[f]
                           <=> SeenNodes'[x] # Absent /\ f \in Indexable(SeenNodes'[x])
      OBVIOUS
    <3>1. CASE x # id
      <4>1. SeenNodes'[x] = SeenNodes[x]
        BY <2>4, <3>1
      <4>2. x \in props'.entries[f] <=> x \in props.entries[f]
        BY <2>3, <3>1
      <4> QED BY <1>2, <4>1, <4>2
    <3>2. CASE x = id
      <4>1. id \notin props.entries[f]
        BY <1>2, <2>1
      <4> QED BY <2>2, <2>3, <2>4, <3>2, <4>1
    <3> QED BY <3>1, <3>2
  <2> QED BY <1>2, <1>4, <2>2, <2>3, <2>5, <2>6
<1>6. ASSUME NEW id \in NodeIds, NEW node \in NodeData, MaxTxns # 0,
             AddsNode(id, node, node.fields)
      PROVE  PropertyInv'
  <2>1. Indexable(node) = node.fields
    BY <1>6 DEF AllIndexed, Indexable
  <2> QED BY <1>5, <1>6, <2>1
<1>7. ASSUME NEW id \in NodeIds, DropsNode(id) PROVE PropertyInv'
  <2>1. PICK r \in NodeReads(id) : UnindexNode(id, r.value)
    BY <1>7 DEF DropsNode
  <2>2. /\ SeenNodes' = [SeenNodes EXCEPT ![id] = Absent]
        /\ SeenNodes[id] # Absent => r.value = SeenNodes[id]
        /\ r.value \in NodeData \cup {Absent}
    BY <1>7, <2>1, DeleteFinds, NodeReadsType DEF DropsNode
  <2>3. \A x \in NodeIds : SeenNodes'[x] = IF x = id THEN Absent ELSE SeenNodes[x]
    BY <1>1, <2>2 DEF NodeMap
  <2>4. CASE r.value = Absent
    <3>1. props' = props /\ SeenNodes[id] = Absent
      BY <2>1, <2>2, <2>4 DEF UnindexNode
    <3> QED BY <1>1, <1>2, <1>4, <2>3, <3>1
  <2>5. CASE r.value # Absent
    <3>1. /\ r.value \in NodeData /\ props' = PropertyRemove(props, id, r.value.fields)
      BY <2>1, <2>2, <2>5 DEF UnindexNode
    <3>2. /\ props' \in PropertyIndex /\ props'.known = props.known
          /\ \A f \in Fields : props'.entries[f] =
                IF f \in r.value.fields \cap props.known
                THEN props.entries[f] \ {id} ELSE props.entries[f]
      BY <1>1, <3>1, PropertyTypes, NodeDataTypes DEF PropertyRemove
    <3>3. ASSUME NEW f \in Fields, NEW x \in NodeIds
          PROVE  x \in props'.entries[f]
                    <=> SeenNodes'[x] # Absent /\ f \in Indexable(SeenNodes'[x])
      <4>1. CASE x # id
        <5>1. SeenNodes'[x] = SeenNodes[x]
          BY <2>3, <4>1
        <5>2. x \in props'.entries[f] <=> x \in props.entries[f]
          BY <3>2, <4>1
        <5> QED BY <1>2, <5>1, <5>2
      <4>2. CASE x = id /\ f \in r.value.fields \cap props.known
        BY <2>3, <3>2, <4>2
      <4>3. CASE x = id /\ f \notin r.value.fields \cap props.known
        <5>1. ASSUME SeenNodes[id] # Absent PROVE f \notin Indexable(SeenNodes[id])
          BY <1>2, <2>2, <4>3, <5>1 DEF Indexable
        <5> QED BY <1>2, <2>3, <3>2, <4>3, <5>1
      <4> QED BY <4>1, <4>2, <4>3
    <3>4. \A x \in NodeIds :
             SeenNodes'[x] # Absent => Indexable(SeenNodes'[x]) \subseteq props'.known
      BY <1>2, <2>3, <3>2
    <3> QED BY <1>2, <1>4, <3>2, <3>3, <3>4
  <2> QED BY <2>4, <2>5
<1>8. ASSUME NEW id \in EdgeIds, NEW edge \in EdgeData, AddsEdge(id, edge) PROVE PropertyInv'
  BY <1>3, <1>8 DEF AddsEdge, SameIndexes
<1>9. ASSUME NEW id \in EdgeIds, DropsEdge(id) \/ Tombstones(id) PROVE PropertyInv'
  BY <1>3, <1>9 DEF DropsEdge, Tombstones, SameIndexes
<1>10. ASSUME NEW id \in NodeIds, BeginsDelete(id) PROVE PropertyInv'
  BY <1>3, <1>10 DEF BeginsDelete, SameGraph, SameIndexes
<1>11. ASSUME KeepsGraph PROVE PropertyInv'
  BY <1>3, <1>11 DEF KeepsGraph, SameGraph, SameIndexes
<1> QED
  BY <1>5, <1>6, <1>7, <1>8, <1>9, <1>10, <1>11 DEF Effect

LEMMA PropertyNext ==
    ASSUME Careful, AllIndexed
    PROVE  Sound /\ CacheInv /\ FoundInv /\ PropertyInv /\ [Next]_vars => PropertyInv'
<1> SUFFICES ASSUME Sound, CacheInv, FoundInv, PropertyInv, [Next]_vars, damage' = "none"
             PROVE  PropertyInv'
  BY DEF PropertyInv
<1>1. CASE UNCHANGED vars
  BY <1>1 DEF vars, PropertyInv, SeenNodes, InTxn
<1>2. CASE CrashAndReopen
  <2>1. SeenNodes' = disk.nodes /\ props' = PropertyIndexOf(disk)
    BY <1>2, ReopenEffect
  <2>2. /\ props'.known = UNION {Indexable(disk.nodes[id]) : id \in LiveNodes(disk)}
        /\ \A f \in Fields :
              props'.entries[f] = {id \in LiveNodes(disk) : f \in Indexable(disk.nodes[id])}
    BY <2>1 DEF PropertyIndexOf
  <2>3. props'.known \subseteq IndexedFields
    BY <2>2 DEF Indexable
  <2> QED BY <2>1, <2>2, <2>3 DEF PropertyInv, LiveNodes
<1>3. CASE Next /\ ~CrashAndReopen
  BY <1>3, StepEffect, PropertyFollows DEF Sound
<1> QED
  BY <1>1, <1>2, <1>3

\* Between calls an index scan of a field the property index knows finds the
\* nodes a full scan would find.
THEOREM PropertyIndexStaysExact ==
    ASSUME Careful, Findable, AllIndexed
    PROVE  Spec => []PropertyIndexExact
<1>1. Sound /\ PropertyInv => PropertyIndexExact
  <2> SUFFICES ASSUME Sound, PropertyInv, Settled, NEW f \in props.known
               PROVE  props.entries[f] = {id \in LiveNodes(disk) : f \in disk.nodes[id].fields}
    BY DEF PropertyIndexExact
  <2>1. TypeOK /\ damage = "none" /\ SeenNodes = disk.nodes
    BY SettledSees DEF Sound
  <2>2. f \in IndexedFields /\ f \in Fields
    BY <2>1, IndexAssumption DEF PropertyInv
  <2> QED BY <2>1, <2>2 DEF PropertyInv, Indexable, LiveNodes
<1>2. Init => PropertyInv
  BY PropertyInit
<1>3. Sound /\ CacheInv /\ FoundInv /\ PropertyInv /\ [Next]_vars => PropertyInv'
  BY PropertyNext
<1> QED
  BY <1>1, <1>2, <1>3, IndexesFound, PTL DEF Spec

-----------------------------------------------------------------------------
(* A list of operations has a graph after each of them.                    *)

\* A set of numbers has a least one.
LEMMA LeastNumber ==
    ASSUME NEW S, S \subseteq Nat, S # {}
    PROVE  \E m \in S : \A n \in S : m =< n
<1>1. PICK R : IsWellFoundedOn(R, Nat) /\ \A m, n \in Nat : n < m => <<n, m>> \in R
  <2>1. \A m, n \in Nat : n < m => <<n, m>> \in OpToRel(<, Nat)
    BY DEF OpToRel
  <2> QED BY <2>1, NatLessThanWellFounded
<1>2. PICK m \in S : \A n \in S : <<n, m>> \notin R
  BY <1>1, WFMin
<1>3. ASSUME NEW n \in S PROVE m =< n
  <2>1. ~(n < m)
    BY <1>1, <1>2
  <2> QED BY <2>1
<1> QED
  BY <1>3

\* g lists the graphs after the first m of ops, beginning with `graph`.
Lists(g, graph, m, ops) ==
    g = [n \in 0 .. m |-> IF n = 0 THEN graph ELSE Store!Apply(g[n - 1], ops[n])]

LEMMA ListExists ==
    ASSUME NEW graph, NEW ops, NEW m \in Nat
    PROVE  \E g : Lists(g, graph, m, ops)
<1> DEFINE without == {k \in Nat : ~\E g : Lists(g, graph, k, ops)}
<1>1. ASSUME without # {} PROVE FALSE
  <2>1. PICK k \in without : \A n \in without : k =< n
    BY <1>1, LeastNumber
  <2>2. CASE k = 0
    <3> DEFINE g == [n \in 0 .. 0 |-> graph]
    <3>1. g = [n \in 0 .. 0 |-> IF n = 0 THEN graph ELSE Store!Apply(g[n - 1], ops[n])]
      OBVIOUS
    <3> QED BY <2>1, <2>2, <3>1 DEF Lists
  <2>3. CASE k # 0
    <3>1. k - 1 \in Nat /\ k - 1 \notin without
      BY <2>1, <2>3
    <3>2. PICK f : Lists(f, graph, k - 1, ops)
      BY <3>1
    <3> DEFINE g == [n \in 0 .. k |-> IF n = k THEN Store!Apply(f[k - 1], ops[k]) ELSE f[n]]
    <3>3. ASSUME NEW n \in 0 .. k
          PROVE  g[n] = IF n = 0 THEN graph ELSE Store!Apply(g[n - 1], ops[n])
      <4>1. CASE n = k
        BY <2>1, <2>3, <4>1
      <4>2. CASE n # k
        <5>1. /\ n \in 0 .. (k - 1) /\ g[n] = f[n]
              /\ n # 0 => n - 1 \in 0 .. (k - 1) /\ g[n - 1] = f[n - 1]
          BY <2>1, <4>2
        <5>2. f[n] = IF n = 0 THEN graph ELSE Store!Apply(f[n - 1], ops[n])
          BY <3>2, <5>1 DEF Lists
        <5> QED BY <5>1, <5>2
      <4> QED BY <4>1, <4>2
    <3>4. Lists(g, graph, k, ops)
      BY <3>3 DEF Lists
    <3> QED BY <2>1, <3>4
  <2> QED BY <2>2, <2>3
<1> QED
  BY <1>1

\* What GraphStore computes, with the graph it begins with as a parameter.
Graphs(graph, ops) == CHOOSE g : Lists(g, graph, Len(ops), ops)

LEMMA GraphAfterIs ==
    /\ Store!ApplyAll(Ops) = Graphs(Store!Graph, Ops)[Len(Ops)]
    /\ \A t \in TxnIds :
          Store!ApplyAll(txns[t].ops) = Graphs(Store!Graph, txns[t].ops)[Len(txns[t].ops)]
BY DEF Store!ApplyAll, Store!GraphAfter, Graphs, Lists

\* The graph after no operation, and after one more.
LEMMA OneByOne ==
    ASSUME NEW graph, NEW ops, Len(ops) \in Nat
    PROVE  /\ Graphs(graph, ops)[0] = graph
           /\ \A n \in 1 .. Len(ops) :
                 Graphs(graph, ops)[n] = Store!Apply(Graphs(graph, ops)[n - 1], ops[n])
<1>1. Lists(Graphs(graph, ops), graph, Len(ops), ops)
  BY ListExists DEF Graphs
<1> QED
  BY <1>1 DEF Lists

GraphOf(nodes, edges) == [nodes |-> nodes, edges |-> edges, valid |-> TRUE]

\* What each kind of operation does.
LEMMA AppliedInsertNode ==
    ASSUME NEW nodes, NEW edges, NEW op, op.kind = "InsertNode"
    PROVE  Store!Apply(GraphOf(nodes, edges), op)
               = GraphOf([nodes EXCEPT ![op.id] = op.node], edges)
BY DEF Store!Apply, GraphOf

LEMMA AppliedInsertEdge ==
    ASSUME NEW nodes, NEW edges, NEW op, op.kind = "InsertEdge",
           nodes[op.edge.src] # Absent, nodes[op.edge.tgt] # Absent
    PROVE  Store!Apply(GraphOf(nodes, edges), op)
               = GraphOf(nodes, [edges EXCEPT ![op.id] = op.edge])
BY DEF Store!Apply, GraphOf

LEMMA AppliedDeleteNode ==
    ASSUME NEW nodes, NEW edges, NEW op, op.kind = "DeleteNode"
    PROVE  Store!Apply(GraphOf(nodes, edges), op)
               = GraphOf([nodes EXCEPT ![op.id] = Absent],
                         [e \in EdgeIds |-> IF Touches(edges[e], op.id) THEN Absent ELSE edges[e]])
<1>1. \A e \in EdgeIds : Store!TouchesNode(edges[e], op.id) <=> Touches(edges[e], op.id)
  BY DEF Store!TouchesNode, Touches
<1> QED
  BY <1>1 DEF Store!Apply, GraphOf

LEMMA AppliedDeleteEdge ==
    ASSUME NEW nodes, NEW edges, NEW op, op.kind = "DeleteEdge"
    PROVE  Store!Apply(GraphOf(nodes, edges), op)
               = GraphOf(nodes, [edges EXCEPT ![op.id] = Absent])
BY DEF Store!Apply, GraphOf

-----------------------------------------------------------------------------
(* A handle that has not been given out is unused.                         *)

UnusedInv == \A t \in TxnIds : t >= nextTxn => txns[t] = NoHandle("unused")

LEMMA UnusedInit == Init => UnusedInv
BY DEF Init, UnusedInv, NoHandle

LEMMA UnusedNext == TypeOK /\ CommitInv /\ UnusedInv /\ [Next]_vars => UnusedInv'
<1> SUFFICES ASSUME TypeOK, CommitInv, UnusedInv, [Next]_vars PROVE UnusedInv'
  OBVIOUS
<1>1. txns \in [TxnIds -> Handle] /\ nextTxn \in Nat
  BY DEF TypeOK
<1>2. ASSUME UNCHANGED handles PROVE UnusedInv'
  BY <1>2 DEF handles, UnusedInv
<1>3. ASSUME NEW t \in TxnIds, IsOpen(t), nextTxn' = nextTxn,
             \A u \in TxnIds : u # t => txns'[u] = txns[u]
      PROVE  UnusedInv'
  BY <1>3 DEF UnusedInv, IsOpen, NoHandle
<1>4. ASSUME ReturnError, nextTxn' = nextTxn PROVE UnusedInv'
  <2>1. CASE call.txn = 0
    BY <1>2, <1>4, <2>1 DEF ReturnError, handles
  <2>2. CASE call.txn # 0
    <3>1. call.txn \in TxnIds /\ IsOpen(call.txn)
      BY <2>2, CallShape DEF CommitInv, NoCall, TxnIds
    <3> QED BY <1>1, <1>3, <1>4, <2>2, <3>1 DEF ReturnError
  <2> QED BY <2>1, <2>2
<1>5. CASE UNCHANGED vars
  BY <1>2, <1>5 DEF vars, handles
<1>6. CASE DirectStep
  BY <1>2, <1>6 DEF DirectStep, InsertNode, InsertNodeFails, InsertEdge, InsertEdgeFails,
     DirectDeleteEdge, GetEdge, DirectDeleteNode, GetNode, Compact, handles
<1>7. CASE StagingStep
  <2>1. ASSUME BeginTransaction PROVE UnusedInv'
    <3>1. nextTxn' = nextTxn + 1 /\ \A u \in TxnIds : u # nextTxn => txns'[u] = txns[u]
      BY <1>1, <2>1 DEF BeginTransaction
    <3>2. \A u \in TxnIds : u >= nextTxn' => u >= nextTxn /\ u # nextTxn
      BY <1>1, <3>1 DEF TxnIds
    <3> QED BY <3>1, <3>2 DEF UnusedInv
  <2>2. ASSUME NEW t \in TxnIds, NEW op, NEW idGen, Stage(t, op, idGen) PROVE UnusedInv'
    <3>1. \A u \in TxnIds : u # t => txns'[u] = txns[u]
      BY <1>1, <2>2 DEF Stage
    <3> QED BY <1>3, <2>2, <3>1 DEF Stage
  <2>3. ASSUME NEW t \in TxnIds, RollbackTransaction(t) \/ CommitStartFails(t)
        PROVE  UnusedInv'
    <3>1. \A u \in TxnIds : u # t => txns'[u] = txns[u]
      BY <1>1, <2>3 DEF RollbackTransaction, CommitStartFails
    <3> QED BY <1>3, <2>3, <3>1 DEF RollbackTransaction, CommitStartFails
  <2>4. ASSUME NEW t \in TxnIds, CommitStart(t) PROVE UnusedInv'
    BY <1>2, <2>4 DEF CommitStart
  <2> QED
    BY <1>7, <2>1, <2>2, <2>3, <2>4
       DEF StagingStep, StageInsertNode, StageInsertEdge, StageDeleteNode, StageDeleteEdge
<1>8. CASE CallStep
  <2>1. ASSUME CommitFinish PROVE UnusedInv'
    <3>1. call.txn \in TxnIds /\ IsOpen(call.txn)
      BY <2>1, CallShape DEF CommitFinish, CommitInv, TxnIds
    <3>2. \A u \in TxnIds : u # call.txn => txns'[u] = txns[u]
      BY <1>1, <2>1 DEF CommitFinish
    <3> QED BY <1>3, <2>1, <3>1, <3>2 DEF CommitFinish
  <2>2. ASSUME CommitRejectEdge PROVE UnusedInv'
    BY <1>4, <2>2 DEF CommitRejectEdge
  <2> QED
    BY <1>2, <1>8, <2>1, <2>2
       DEF CallStep, DeleteIncidentEdge, DeleteNodeFinish, CommitInsertNode,
           CommitInsertEdge, CommitDeleteNode, CommitDeleteEdge, handles
<1>9. CASE CallFails
  BY <1>4, <1>9 DEF CallFails, DeleteNodeFailsEarly, DeleteNodeFailsLate, CommitFails
<1>10. CASE CrashAndReopen
  BY <1>10 DEF CrashAndReopen, UnusedInv, NoHandle
<1> QED
  BY <1>5, <1>6, <1>7, <1>8, <1>9, <1>10 DEF Next

-----------------------------------------------------------------------------
(* A commit that is before operation k sees the graph that the store has   *)
(* after the k - 1 before it.  (The endpoint table of the engine, and not  *)
(* the log, has the edges at that point while a delete_node is under way.) *)

ReplayInv ==
    damage = "none" /\ InTxn =>
        Graphs(GraphOf(disk.nodes, disk.edges), Ops)[call.k - 1]
            = GraphOf(SeenNodes, engine.ends)

\* One operation more.
LEMMA ReplayOne ==
    ASSUME TypeOK, NEW kind, AtOp(kind), NEW nodes, NEW edges,
           Graphs(GraphOf(disk.nodes, disk.edges), Ops)[call.k - 1] = GraphOf(SeenNodes, engine.ends),
           Store!Apply(GraphOf(SeenNodes, engine.ends), Op) = GraphOf(nodes, edges)
    PROVE  Graphs(GraphOf(disk.nodes, disk.edges), Ops)[call.k] = GraphOf(nodes, edges)
<1>1. call.k \in 1 .. Len(Ops) /\ Len(Ops) \in Nat
  BY AtOpFacts
<1> QED
  BY <1>1, OneByOne DEF Op

LEMMA ReplayInit == Init => ReplayInv
BY DEF Init, ReplayInv, InTxn, NoCall

\* A step of a commit goes on with it, or is its last.
LEMMA GoesOn ==
    ASSUME TypeOK, CallStep, InTxn
    PROVE  CommitRejectEdge \/ CommitFinish \/ (call'.txn = call.txn /\ txns' = txns)
<1>1. call \in Call
  BY DEF TypeOK
<1>2. ASSUME NEW id \in EdgeIds, DeleteIncidentEdge(id)
      PROVE  call'.txn = call.txn /\ txns' = txns
  BY <1>1, <1>2 DEF DeleteIncidentEdge, handles, Call, NoCall
<1>3. ASSUME DeleteNodeFinish PROVE call'.txn = call.txn /\ txns' = txns
  BY <1>3 DEF DeleteNodeFinish, handles, Committing, NoCall, InTxn
<1>4. ASSUME CommitInsertNode \/ CommitInsertEdge \/ CommitDeleteEdge
      PROVE  call'.txn = call.txn /\ txns' = txns
  BY <1>4, AtOpFacts DEF CommitInsertNode, CommitInsertEdge, CommitDeleteEdge, handles
<1>5. ASSUME CommitDeleteNode PROVE call'.txn = call.txn /\ txns' = txns
  BY <1>5 DEF CommitDeleteNode, Deleting, handles
<1> QED
  BY <1>2, <1>3, <1>4, <1>5 DEF CallStep

LEMMA InsideCommit ==
    ASSUME TypeOK, Next, InTxn, InTxn'
    PROVE  CallStep /\ call'.txn = call.txn /\ txns' = txns
<1>1. ~CallFails /\ ~CrashAndReopen
  BY DEF CallFails, DeleteNodeFailsEarly, DeleteNodeFailsLate, CommitFails, ReturnError,
         CrashAndReopen, NoCall, InTxn
<1>2. CallStep
  BY <1>1, DuringCommit DEF InTxn
<1>3. ~CommitRejectEdge /\ ~CommitFinish
  BY DEF CommitRejectEdge, ReturnError, CommitFinish, NoCall, InTxn
<1> QED
  BY <1>2, <1>3, GoesOn

\* A step into a commit is its BEGIN_TXN.
LEMMA IntoCommit ==
    ASSUME TypeOK, Next, ~InTxn, InTxn'
    PROVE  \E t \in TxnIds : CommitStart(t)
<1>1. call \in Call /\ call.txn = 0 /\ call.pc # "committing"
  BY CallShape DEF InTxn, TypeOK, TxnIds
<1>2. ~DirectStep
  BY <1>1 DEF DirectStep, InsertNode, InsertNodeFails, InsertEdge, InsertEdgeFails,
     DirectDeleteEdge, GetEdge, DirectDeleteNode, GetNode, Compact, Deleting, InTxn
<1>3. ~CallFails /\ ~CrashAndReopen
  BY DEF CallFails, DeleteNodeFailsEarly, DeleteNodeFailsLate, CommitFails, ReturnError,
         CrashAndReopen, NoCall, InTxn
<1>4. ~CallStep
  <2>1. ASSUME NEW id \in EdgeIds, DeleteIncidentEdge(id) PROVE FALSE
    BY <1>1, <2>1 DEF DeleteIncidentEdge, Call, NoCall, InTxn
  <2> QED
    BY <1>1, <2>1
       DEF CallStep, DeleteNodeFinish, CommitInsertNode, CommitInsertEdge, CommitRejectEdge,
           CommitDeleteNode, CommitDeleteEdge, CommitFinish, AtOp, NoCall, InTxn
<1>5. StagingStep
  BY <1>2, <1>3, <1>4 DEF Next
<1> QED
  BY <1>1, <1>5
     DEF StagingStep, BeginTransaction, StageInsertNode, StageInsertEdge, StageDeleteNode,
         StageDeleteEdge, Stage, RollbackTransaction, CommitStartFails, InTxn

\* With markers a commit is inside a buffer as long as there is no damage.
LEMMA CommitHidden ==
    ASSUME Careful, Markers, Sound, BufferInv', Next, damage' = "none", InTxn'
    PROVE  /\ damage = "none" /\ BufferHides /\ Effect
           /\ disk'.nodes = disk.nodes /\ disk'.edges = disk.edges
<1>1. ~CrashAndReopen
  BY DEF CrashAndReopen, NoCall, InTxn
<1>2. Buffering'
  BY DEF BufferInv, Buffering
<1> QED
  BY <1>1, <1>2, StepEffect DEF BufferHides

LEMMA ReplayNext ==
    ASSUME Careful, Markers
    PROVE  Sound /\ EngineInv /\ ReplayInv /\ Sound' /\ EngineInv' /\ [Next]_vars => ReplayInv'
<1> SUFFICES ASSUME Sound, EngineInv, ReplayInv, Sound', EngineInv', [Next]_vars,
                    damage' = "none", InTxn'
             PROVE  Graphs(GraphOf(disk'.nodes, disk'.edges), Ops')[call'.k - 1]
                        = GraphOf(SeenNodes', engine'.ends)
  BY DEF ReplayInv
<1>1. CASE UNCHANGED vars
  BY <1>1 DEF vars, ReplayInv, InTxn, Ops, SeenNodes
<1>2. CASE Next /\ ~InTxn
  <2>1. PICK t \in TxnIds : CommitStart(t)
    BY <1>2, IntoCommit DEF Sound
  <2>2. /\ damage = "none" /\ disk'.nodes = disk.nodes /\ disk'.edges = disk.edges
    BY <1>2, CommitHidden DEF Sound
  <2>3. /\ call'.pc = "committing" /\ call'.k = 1 /\ call'.txn = t /\ t \in Nat
        /\ engine' = engine /\ txns' = txns /\ call.pc # "deleting"
    BY <2>1 DEF CommitStart, Committing, NoCall, memory, handles, TxnIds, Idle
  <2>4. disk' \in Disk /\ disk'.buf = FreshBuffer(TRUE, t)
    BY <2>3 DEF Sound, BufferInv, TypeOK
  <2>5. SeenNodes' = disk.nodes
    BY <2>2, <2>3, <2>4, MarkersSeen DEF SeenNodes, NodesSeen
  <2>6. engine'.ends = disk.edges
    BY <1>2, <2>2, <2>3 DEF EngineInv, SeenEdges, EdgesSeen
  <2>7. Ops' = txns[t].ops /\ Len(txns[t].ops) \in Nat
    BY <2>3, OpsType DEF Ops, Sound
  <2> QED BY <2>2, <2>3, <2>5, <2>6, <2>7, OneByOne
<1>3. CASE Next /\ InTxn
  <2>1. /\ CallStep /\ call'.txn = call.txn /\ txns' = txns /\ TypeOK
        /\ Ops' = Ops
    BY <1>3, InsideCommit DEF Sound, Ops
  <2>2. /\ damage = "none" /\ disk'.nodes = disk.nodes /\ disk'.edges = disk.edges
    BY <1>3, CommitHidden DEF Sound
  <2>3. CallDoes
    BY <2>1, CallEffect
  <2> DEFINE after == Graphs(GraphOf(disk.nodes, disk.edges), Ops)
  <2>4. after[call.k - 1] = GraphOf(SeenNodes, engine.ends)
    BY <1>3, <2>2 DEF ReplayInv
  <2> HIDE DEF after
  <2> SUFFICES after[call'.k - 1] = GraphOf(SeenNodes', engine'.ends)
    BY <2>1, <2>2 DEF after
  <2>5. /\ SeenNodes \in NodeMap /\ SeenEdges \in EdgeMap /\ call \in Call
        /\ engine.outKeys = {id \in NodeIds : SeenNodes[id] # Absent}
        /\ call.pc # "deleting" => engine.ends = SeenEdges
        /\ call'.pc # "deleting" => engine'.ends = SeenEdges'
    BY <2>1, <2>2, SeenTypes DEF EngineInv, TypeOK
  \* The operation is done.
  <2>6. ASSUME NEW kind, AtOp(kind), NextOp,
               Store!Apply(GraphOf(SeenNodes, engine.ends), Op) = GraphOf(SeenNodes', SeenEdges')
        PROVE  after[call'.k - 1] = GraphOf(SeenNodes', engine'.ends)
    <3>1. after[call.k] = GraphOf(SeenNodes', SeenEdges')
      BY <2>1, <2>4, <2>6, ReplayOne DEF after
    <3>2. call.k \in Nat /\ call'.k = call.k + 1 /\ call'.pc = "committing"
      BY <2>1, <2>6, AtOpFacts
    <3>3. call'.k - 1 = call.k
      BY <3>2
    <3> QED BY <2>5, <3>1, <3>2, <3>3
  <2>7. ASSUME CommitInsertNode PROVE after[call'.k - 1] = GraphOf(SeenNodes', engine'.ends)
    <3>1. AtOp("InsertNode") /\ NextOp /\ Op.kind = "InsertNode" /\ call.pc = "committing"
      BY <2>7 DEF CommitInsertNode, AtOp, Op
    <3>2. SeenNodes' = [SeenNodes EXCEPT ![Op.id] = Op.node] /\ SeenEdges' = engine.ends
      BY <2>3, <2>5, <2>7, <3>1 DEF CallDoes, AddsNode
    <3> QED BY <2>6, <3>1, <3>2, AppliedInsertNode
  <2>8. ASSUME CommitInsertEdge PROVE after[call'.k - 1] = GraphOf(SeenNodes', engine'.ends)
    <3>1. AtOp("InsertEdge") /\ NextOp /\ Op.kind = "InsertEdge" /\ call.pc = "committing"
      BY <2>8 DEF CommitInsertEdge, AtOp, Op
    <3>2. /\ SeenNodes' = SeenNodes /\ SeenEdges' = [engine.ends EXCEPT ![Op.id] = Op.edge]
          /\ SeenNodes[Op.edge.src] # Absent /\ SeenNodes[Op.edge.tgt] # Absent
      BY <2>3, <2>5, <2>8, <3>1 DEF CallDoes, AddsEdge, ContainsNode
    <3> QED BY <2>6, <3>1, <3>2, AppliedInsertEdge
  <2>9. ASSUME CommitDeleteEdge PROVE after[call'.k - 1] = GraphOf(SeenNodes', engine'.ends)
    <3>1. AtOp("DeleteEdge") /\ NextOp /\ Op.kind = "DeleteEdge" /\ call.pc = "committing"
      BY <2>9 DEF CommitDeleteEdge, AtOp, Op
    <3>2. SeenNodes' = SeenNodes /\ SeenEdges' = [engine.ends EXCEPT ![Op.id] = Absent]
      BY <2>3, <2>5, <2>9, <3>1 DEF CallDoes, DropsEdge
    <3> QED BY <2>6, <3>1, <3>2, AppliedDeleteEdge
  <2>10. ASSUME CommitDeleteNode PROVE after[call'.k - 1] = GraphOf(SeenNodes', engine'.ends)
    <3>1. call'.k = call.k /\ SeenNodes' = SeenNodes /\ engine' = engine
      BY <2>3, <2>10 DEF CommitDeleteNode, Deleting, CallDoes, BeginsDelete, SameGraph
    <3> QED BY <2>4, <3>1
  <2>11. ASSUME NEW id \in EdgeIds, DeleteIncidentEdge(id)
         PROVE  after[call'.k - 1] = GraphOf(SeenNodes', engine'.ends)
    <3>1. call'.k = call.k
      BY <2>5, <2>11 DEF DeleteIncidentEdge, Call, NoCall
    <3>2. SeenNodes' = SeenNodes /\ engine' = engine
      BY <2>3, <2>11 DEF CallDoes, Tombstones
    <3> QED BY <2>4, <3>1, <3>2
  <2>12. ASSUME DeleteNodeFinish PROVE after[call'.k - 1] = GraphOf(SeenNodes', engine'.ends)
    <3>1. /\ call.pc = "deleting" /\ call.incident = {}
          /\ call.k \in DOMAIN Ops /\ Op.kind = "DeleteNode" /\ Op.id = call.node
      BY <1>3, <2>12 DEF DeleteNodeFinish, Sound, CommitInv, InTxn
    <3>2. /\ call.txn \in TxnIds /\ call'.k = call.k + 1 /\ call'.pc = "committing"
      BY <1>3, <2>1, <2>12, CallShape DEF DeleteNodeFinish, Committing, NoCall, InTxn, TxnIds
    <3>3. DOMAIN Ops = 1 .. Len(Ops) /\ Len(Ops) \in Nat
      BY <2>1, <3>2, OpsType DEF Ops
    <3>4. /\ SeenNodes' = [SeenNodes EXCEPT ![Op.id] = Absent]
          /\ SeenEdges' = SeenEdges
      BY <2>3, <2>12, <3>1 DEF CallDoes, DropsNode
    <3>5. SeenEdges = [e \in EdgeIds |-> IF Touches(engine.ends[e], Op.id) THEN Absent
                                         ELSE engine.ends[e]]
      BY <2>2, <3>1 DEF EngineInv
    <3>6. Store!Apply(GraphOf(SeenNodes, engine.ends), Op) = GraphOf(SeenNodes', SeenEdges')
      <4>1. Store!Apply(GraphOf(SeenNodes, engine.ends), Op)
                = GraphOf([SeenNodes EXCEPT ![Op.id] = Absent],
                          [e \in EdgeIds |-> IF Touches(engine.ends[e], Op.id) THEN Absent
                                             ELSE engine.ends[e]])
        BY <3>1, AppliedDeleteNode
      <4> QED BY <3>4, <3>5, <4>1
    <3>7. after[call.k] = Store!Apply(after[call.k - 1], Op)
      BY <3>1, <3>3, OneByOne DEF after, Op
    <3>8. call'.k - 1 = call.k
      BY <3>1, <3>2, <3>3
    <3> QED BY <2>4, <2>5, <3>2, <3>6, <3>7, <3>8
  <2>13. ~CommitRejectEdge /\ ~CommitFinish
    BY DEF CommitRejectEdge, ReturnError, CommitFinish, NoCall, InTxn
  <2> QED
    BY <2>1, <2>7, <2>8, <2>9, <2>10, <2>11, <2>12, <2>13 DEF CallStep
<1> QED
  BY <1>1, <1>2, <1>3

-----------------------------------------------------------------------------
(* The steps, told in terms of the store.                                  *)

\* A step that does damage leaves what a replay yields as it is.
LEMMA DamageKeepsLog ==
    ASSUME TypeOK, Next, damage = "none", damage' # "none"
    PROVE  disk'.nodes = disk.nodes /\ disk'.edges = disk.edges
<1>1. disk \in Disk
  BY DEF TypeOK
<1>2. AfterAppend = "none" \/ (disk.buf.open /\ call.txn = 0)
  BY DEF AfterAppend
<1>3. ASSUME NEW d \in Disk, NEW c, OnWrite(d, c), d.buf.open => disk.buf.open,
             disk.buf.open => d.nodes = disk.nodes /\ d.edges = disk.edges
      PROVE  disk'.nodes = disk.nodes /\ disk'.edges = disk.edges
  <2>1. d.buf.open \/ damage' = AfterAppend
    BY <1>3 DEF OnWrite
  <2> QED BY <1>2, <1>3, <2>1, OnWriteDisk
<1>4. CASE DirectStep
  <2>1. ASSUME NEW node \in NodeData, InsertNode(node)
        PROVE  disk'.nodes = disk.nodes /\ disk'.edges = disk.edges
    <3>1. gen.node \in NodeIds
      BY <2>1, StorageAssumption DEF InsertNode, TypeOK, Generator, NodeIds
    <3>2. PICK c : OnWrite(SaveNode(disk, gen.node, node), c)
      BY <2>1 DEF InsertNode
    <3> QED BY <1>1, <1>3, <3>1, <3>2, SaveNodeType, BufferedRecords, RecordsKeepBuffer
  <2>2. ASSUME NEW edge \in EdgeData, InsertEdge(edge)
        PROVE  disk'.nodes = disk.nodes /\ disk'.edges = disk.edges
    <3>1. gen.edge \in EdgeIds
      BY <2>2, StorageAssumption DEF InsertEdge, TypeOK, Generator, EdgeIds
    <3>2. PICK c : OnWrite(SaveEdge(disk, gen.edge, edge), c)
      BY <2>2 DEF InsertEdge
    <3> QED BY <1>1, <1>3, <3>1, <3>2, SaveEdgeType, BufferedRecords, RecordsKeepBuffer
  <2>3. ASSUME NEW id \in EdgeIds, DirectDeleteEdge(id)
        PROVE  disk'.nodes = disk.nodes /\ disk'.edges = disk.edges
    BY <1>1, <1>3, <2>3, DeleteEdgeType, BufferedRecords, RecordsKeepBuffer
       DEF DirectDeleteEdge, RemoveEdge
  <2>4. CASE Compact
    BY <1>1, <2>4 DEF Compact, CompactLog, Disk
  <2> QED
    BY <1>4, <2>1, <2>2, <2>3, <2>4
       DEF DirectStep, InsertNodeFails, InsertEdgeFails, DirectDeleteNode, GetEdge, GetNode
<1>5. CASE StagingStep
  BY <1>5 DEF StagingStep, BeginTransaction, StageInsertNode, StageInsertEdge,
     StageDeleteNode, StageDeleteEdge, Stage, RollbackTransaction, CommitStart, CommitStartFails
<1>6. CASE CallStep
  <2>1. ASSUME NEW id \in EdgeIds, DeleteIncidentEdge(id)
        PROVE  disk'.nodes = disk.nodes /\ disk'.edges = disk.edges
    BY <1>1, <1>2, <2>1, BufferedRecords DEF DeleteIncidentEdge
  <2>2. ASSUME DeleteNodeFinish PROVE disk'.nodes = disk.nodes /\ disk'.edges = disk.edges
    <3>1. call.node \in NodeIds
      BY <2>2, CallShape DEF DeleteNodeFinish
    <3>2. PICK c : OnWrite(DeleteNode(disk, call.node), c)
      BY <2>2 DEF DeleteNodeFinish
    <3> QED BY <1>1, <1>3, <3>1, <3>2, DeleteNodeType, BufferedRecords, RecordsKeepBuffer
  <2>3. ASSUME AtOp("InsertNode") \/ AtOp("InsertEdge") \/ AtOp("DeleteEdge")
        PROVE  call.txn # 0
    BY <2>3, AtOpFacts
  <2>4. ASSUME CommitDeleteEdge PROVE disk'.nodes = disk.nodes /\ disk'.edges = disk.edges
    <3>1. Op.id \in EdgeIds
      BY <2>4, OpType, StagedOpType DEF CommitDeleteEdge
    <3> QED
      BY <1>1, <1>3, <2>4, <3>1, DeleteEdgeType, BufferedRecords, RecordsKeepBuffer
         DEF CommitDeleteEdge, RemoveEdge
  <2>5. CASE CommitRejectEdge
    BY <1>1, <2>5 DEF CommitRejectEdge, RollbackTxn, Disk
  <2>6. ~CommitFinish
    <3>1. CommitFinish => call.txn \in Nat /\ call.txn # 0
      BY CallShape DEF CommitFinish, TxnIds
    <3>2. CommitFinish => ~CommitTxn(disk, call.txn).buf.open
      BY <1>1, ClosedBuffers
    <3> QED BY <1>2, <3>1, <3>2 DEF CommitFinish, OnWrite
  <2>7. ~CommitInsertNode /\ ~CommitInsertEdge
    BY <1>2, <2>3 DEF CommitInsertNode, CommitInsertEdge
  <2> QED
    BY <1>6, <2>1, <2>2, <2>4, <2>5, <2>6, <2>7 DEF CallStep, CommitDeleteNode
<1>7. CASE CallFails \/ CrashAndReopen
  BY <1>7 DEF CallFails, DeleteNodeFailsEarly, DeleteNodeFailsLate, CommitFails, CrashAndReopen
<1> QED
  BY <1>4, <1>5, <1>6, <1>7 DEF Next

\* What the store sees of the handles.
Staged == [t \in TxnIds |-> [status |-> txns[t].status, ops |-> txns[t].ops]]

StoreStutters ==
    disk'.nodes = disk.nodes /\ disk'.edges = disk.edges /\ Staged' = Staged

\* Outside a commit an effect on the graph is a step of the store.
LEMMA DirectImplements ==
    ASSUME TypeOK, EngineInv, Effect, damage = "none", damage' = "none", ~InTxn, ~InTxn',
           txns' = txns
    PROVE  Store!StoreStep \/ StoreStutters
<1>1. /\ SeenNodes = disk.nodes /\ SeenEdges = disk.edges
      /\ SeenNodes' = disk'.nodes /\ SeenEdges' = disk'.edges
  BY DEF SeenNodes, SeenEdges, NodesSeen, EdgesSeen
<1>2. Staged' = Staged
  BY DEF Staged
<1>3. engine.outKeys = {id \in NodeIds : SeenNodes[id] # Absent}
  BY DEF EngineInv
<1>4. ASSUME NEW id \in NodeIds, NEW node \in NodeData, NEW fields, AddsNode(id, node, fields)
      PROVE  Store!StoreStep
  <2>1. Store!AddNode(id)
    BY <1>1, <1>2, <1>4 DEF AddsNode, Store!AddNode, Staged
  <2> QED BY <2>1 DEF Store!StoreStep
<1>5. ASSUME NEW id \in EdgeIds, NEW edge \in EdgeData, AddsEdge(id, edge)
      PROVE  Store!StoreStep
  <2>1. Store!AddEdge(id)
    BY <1>1, <1>2, <1>3, <1>5 DEF AddsEdge, ContainsNode, Store!AddEdge, Staged
  <2> QED BY <2>1 DEF Store!StoreStep
<1>6. ASSUME NEW id \in EdgeIds, DropsEdge(id) \/ Tombstones(id) PROVE Store!StoreStep
  <2>1. Store!DropEdge(id)
    BY <1>1, <1>2, <1>6 DEF DropsEdge, Tombstones, Store!DropEdge, Staged
  <2> QED BY <2>1 DEF Store!StoreStep
<1>7. ASSUME NEW id \in NodeIds, DropsNode(id) PROVE Store!StoreStep
  <2>1. \A e \in EdgeIds : ~Store!TouchesNode(disk.edges[e], id)
    <3>1. SeenEdges = [e \in EdgeIds |->
              IF Touches(engine.ends[e], id) THEN Absent ELSE engine.ends[e]]
      BY <1>7, damage = "none" DEF DropsNode, EngineInv
    <3> QED BY <1>1, <3>1 DEF Store!TouchesNode, Touches
  <2>2. Store!DropNode(id)
    BY <1>1, <1>2, <1>7, <2>1 DEF DropsNode, Store!DropNode, Staged
  <2> QED BY <2>2 DEF Store!StoreStep
<1>8. ASSUME KeepsGraph \/ (\E id \in NodeIds : BeginsDelete(id)) PROVE StoreStutters
  BY <1>1, <1>2, <1>8 DEF KeepsGraph, BeginsDelete, SameGraph, StoreStutters
<1> QED
  BY <1>4, <1>5, <1>6, <1>7, <1>8 DEF Effect

\* A handle that ends so ends so in the store.
LEMMA EndsInStore ==
    ASSUME TypeOK, NEW t \in TxnIds, NEW status, txns' = [txns EXCEPT ![t] = NoHandle(status)]
    PROVE  Staged' = [Staged EXCEPT ![t] = [status |-> status, ops |-> <<>>]]
<1>1. \A u \in TxnIds : txns'[u] = IF u = t THEN NoHandle(status) ELSE txns[u]
  BY DEF TypeOK
<1>2. /\ NoHandle(status).status = status /\ NoHandle(status).ops = <<>>
  BY DEF NoHandle
<1> QED
  BY <1>1, <1>2 DEF Staged

LEMMA AbandonsInStore ==
    ASSUME TypeOK, NEW t \in TxnIds, IsOpen(t), NEW status \in {"failed", "rolledBack"},
           txns' = [txns EXCEPT ![t] = NoHandle(status)],
           disk'.nodes = disk.nodes, disk'.edges = disk.edges
    PROVE  Store!StoreStep
<1>1. Staged' = [Staged EXCEPT ![t] = [status |-> status, ops |-> <<>>]]
  BY EndsInStore
<1>2. Staged[t].status = "open"
  BY DEF Staged, IsOpen
<1>3. Store!Abandon(t)
  BY <1>1, <1>2 DEF Store!Abandon, Store!IsStaging, Store!Ends, Staged
<1> QED
  BY <1>3 DEF Store!StoreStep

\* Staging, in the store.
LEMMA StagingImplements ==
    ASSUME TypeOK, UnusedInv, StagingStep, damage = "none"
    PROVE  damage' = "none" /\ (Store!StoreStep \/ StoreStutters)
<1>1. txns \in [TxnIds -> Handle] /\ disk \in Disk
  BY DEF TypeOK
<1>2. damage' = "none"
  BY DEF StagingStep, BeginTransaction, StageInsertNode, StageInsertEdge, StageDeleteNode,
         StageDeleteEdge, Stage, RollbackTransaction, CommitStart, CommitStartFails
<1>3. ASSUME BeginTransaction PROVE Store!StoreStep
  <2>1. PICK t \in TxnIds : t = nextTxn
    BY <1>3 DEF BeginTransaction
  <2>2. txns[t].status = "unused" /\ txns[t].ops = <<>>
    BY <2>1 DEF UnusedInv, TxnIds, NoHandle
  <2>3. txns' = [txns EXCEPT ![t] = [status |-> "open", ops |-> <<>>, idGen |-> gen]]
    BY <1>3, <2>1 DEF BeginTransaction
  <2>4. Staged' = [Staged EXCEPT ![t].status = "open"]
    <3>1. \A u \in TxnIds : u # t => txns'[u] = txns[u]
      BY <1>1, <2>3
    <3>2. txns'[t].status = "open" /\ txns'[t].ops = <<>>
      BY <1>1, <2>3
    <3> QED BY <2>2, <3>1, <3>2 DEF Staged
  <2>5. disk' = disk
    BY <1>3 DEF BeginTransaction
  <2>6. Store!Begin(t)
    BY <1>2, <2>2, <2>4, <2>5 DEF Store!Begin, Staged
  <2> QED BY <2>6 DEF Store!StoreStep
<1>4. ASSUME NEW t \in TxnIds, IsStaging(t) PROVE Store!StoreStep
  <2>1. PICK op \in StagedOp, h \in Generator : Stage(t, op, h)
    BY <1>4, StagesNext
  <2>2. /\ txns'[t].ops = Append(txns[t].ops, op) /\ txns'[t].status = txns[t].status
        /\ \A u \in TxnIds : u # t => txns'[u] = txns[u]
    BY <2>1, StageHandle
  <2>3. txns[t].ops \in Seq(StagedOp)
    BY OpsType
  <2>4. Staged'[t].ops # <<>> /\ Staged'[t].ops[Len(Staged'[t].ops)] = op
    BY <2>2, <2>3 DEF Staged
  <2>5. Staged' = [Staged EXCEPT ![t].ops = Append(@, op)]
    BY <2>2 DEF Staged
  <2>6. Staged[t].status = "open" /\ disk' = disk
    BY <2>1 DEF Stage, IsOpen, Staged
  <2>7. Store!StageOne(t)
    BY <1>2, <2>4, <2>5, <2>6 DEF Store!StageOne, Store!IsStaging, Store!Last, Staged
  <2> QED BY <2>7 DEF Store!StoreStep
<1>5. ASSUME NEW t \in TxnIds, RollbackTransaction(t) PROVE Store!StoreStep
  BY <1>5, AbandonsInStore DEF RollbackTransaction
<1>6. ASSUME NEW t \in TxnIds, CommitStartFails(t) PROVE Store!StoreStep
  BY <1>6, AbandonsInStore DEF CommitStartFails
<1>7. ASSUME NEW t \in TxnIds, CommitStart(t) PROVE StoreStutters
  <2>1. disk' = BeginTxn(disk, t) /\ txns' = txns /\ t \in Nat
    BY <1>7 DEF CommitStart, handles, TxnIds
  <2>2. disk'.nodes = disk.nodes /\ disk'.edges = disk.edges
    BY <1>1, <2>1, MarkersSeen
  <2> QED BY <2>1, <2>2 DEF StoreStutters, Staged
<1> QED
  BY <1>2, <1>3, <1>4, <1>5, <1>6, <1>7 DEF StagingStep, IsStaging

\* Inside a commit nothing has happened in the store; with COMMIT_TXN all of it
\* has; and a commit that fails without damage has done nothing.
LEMMA CommitImplements ==
    ASSUME Careful, Markers, Sound, BufferInv', EngineInv, ReplayInv,
           CallStep \/ CallFails, damage = "none", damage' = "none", InTxn
    PROVE  Store!StoreStep \/ StoreStutters
<1>1. TypeOK /\ disk \in Disk /\ Next
  BY DEF Sound, TypeOK, Next
<1>2. PICK t \in TxnIds : t = call.txn
  BY <1>1, CallShape DEF InTxn, NoCall, TxnIds
<1>3. IsOpen(t)
  BY <1>2 DEF Sound, CommitInv, InTxn
<1>4. CASE InTxn'
  BY <1>1, <1>4, CommitHidden, InsideCommit DEF StoreStutters, Staged
<1>5. ASSUME ReturnError, disk'.nodes = disk.nodes, disk'.edges = disk.edges
      PROVE  Store!StoreStep
  <2>1. txns' = [txns EXCEPT ![t] = NoHandle("failed")]
    BY <1>2, <1>5 DEF ReturnError, InTxn
  <2> QED BY <1>1, <1>3, <1>5, <2>1, AbandonsInStore
<1>6. CASE CommitRejectEdge
  BY <1>1, <1>5, <1>6 DEF CommitRejectEdge, RollbackTxn, Disk
<1>7. CASE CallFails
  BY <1>5, <1>7 DEF CallFails, DeleteNodeFailsEarly, DeleteNodeFailsLate, CommitFails
<1>8. CASE CommitFinish
  <2>1. /\ call.pc = "committing" /\ call.k = Len(Ops) + 1 /\ Ops = txns[t].ops
        /\ txns' = [txns EXCEPT ![t] = NoHandle("committed")]
    BY <1>2, <1>8 DEF CommitFinish, Ops
  <2>2. disk'.nodes = SeenNodes /\ disk'.edges = SeenEdges
    BY <1>8, CallEffect DEF CallStep, CallDoes
  <2>3. engine.ends = SeenEdges
    BY <2>1 DEF EngineInv
  <2>4. call.k - 1 = Len(txns[t].ops)
    BY <1>1, <2>1, OpsType
  <2>5. Graphs(GraphOf(disk.nodes, disk.edges), txns[t].ops)[Len(txns[t].ops)]
            = GraphOf(disk'.nodes, disk'.edges)
    BY <2>1, <2>2, <2>3, <2>4 DEF ReplayInv
  <2>6. Store!ApplyAll(txns[t].ops) = GraphOf(disk'.nodes, disk'.edges)
    BY <2>5, GraphAfterIs DEF Store!Graph, GraphOf
  <2>7. Staged' = [Staged EXCEPT ![t] = [status |-> "committed", ops |-> <<>>]]
    BY <1>1, <2>1, EndsInStore
  <2>8. Staged[t].status = "open" /\ Staged[t].ops = txns[t].ops
    BY <1>3 DEF Staged, IsOpen
  <2>9. Store!Commit(t)
    BY <2>6, <2>7, <2>8 DEF Store!Commit, Store!IsStaging, Store!Ends, Staged, GraphOf
  <2> QED BY <2>9 DEF Store!StoreStep
<1> QED
  BY <1>1, <1>4, <1>6, <1>7, <1>8, GoesOn DEF InTxn

\* Outside a commit the handles change in staging only.
LEMMA OutsideCommit ==
    ASSUME TypeOK, DirectStep \/ CallStep \/ CallFails, ~InTxn
    PROVE  txns' = txns
<1>1. call.pc # "committing" /\ call.txn = 0
  BY CallShape DEF InTxn, TxnIds
<1>2. CASE DirectStep
  BY <1>2 DEF DirectStep, InsertNode, InsertNodeFails, InsertEdge, InsertEdgeFails,
     DirectDeleteEdge, GetEdge, DirectDeleteNode, GetNode, Compact, handles
<1>3. CASE CallStep
  BY <1>1, <1>3
     DEF CallStep, DeleteIncidentEdge, DeleteNodeFinish, CommitInsertNode, CommitInsertEdge,
         CommitRejectEdge, CommitDeleteNode, CommitDeleteEdge, CommitFinish, AtOp, handles
<1>4. CASE CallFails
  BY <1>1, <1>4 DEF CallFails, DeleteNodeFailsEarly, DeleteNodeFailsLate, CommitFails, ReturnError
<1> QED
  BY <1>2, <1>3, <1>4

LEMMA StepImplements ==
    ASSUME Careful, Markers
    PROVE  Sound /\ EngineInv /\ UnusedInv /\ ReplayInv /\ Sound' /\ [Next]_vars
               => [Store!StoreNext]_(Store!storeVars)
<1> SUFFICES ASSUME Sound, EngineInv, UnusedInv, ReplayInv, Sound', [Next]_vars, damage = "none"
             PROVE  Store!StoreStep \/ (StoreStutters /\ damage' = "none")
  BY DEF Store!StoreNext, Store!storeVars, StoreStutters, Staged
<1>1. TypeOK /\ BufferInv'
  BY DEF Sound
<1>2. CASE UNCHANGED vars
  BY <1>2 DEF vars, StoreStutters, Staged
<1>3. CASE Next /\ damage' # "none"
  <2>1. Store!EndOfPromise
    BY <1>1, <1>3, DamageKeepsLog DEF Store!EndOfPromise
  <2> QED BY <2>1 DEF Store!StoreStep
<1>4. CASE CrashAndReopen
  <2>1. disk' = disk /\ damage' = "none" /\ \A t \in TxnIds : txns'[t] = NoHandle("unused")
    BY <1>4 DEF CrashAndReopen
  <2>2. Store!CrashStore
    BY <2>1 DEF Store!CrashStore, NoHandle
  <2> QED BY <2>2 DEF Store!StoreStep
<1>5. CASE StagingStep
  BY <1>1, <1>5, StagingImplements
<1>6. CASE (CallStep \/ CallFails) /\ InTxn /\ damage' = "none"
  BY <1>1, <1>6, CommitImplements
<1>7. CASE (DirectStep \/ CallStep \/ CallFails) /\ ~InTxn /\ damage' = "none"
  <2>1. CASE InTxn'
    <3>1. PICK t \in TxnIds : CommitStart(t)
      BY <1>1, <1>7, <2>1, IntoCommit DEF Next
    <3> QED BY <1>5, <3>1 DEF StagingStep
  <2>2. CASE ~InTxn'
    <3>1. Effect
      BY <1>7, DirectEffect, CallEffect, FailedEffect
    <3>2. txns' = txns
      BY <1>1, <1>7, OutsideCommit
    <3> QED BY <1>1, <1>7, <2>2, <3>1, <3>2, DirectImplements
  <2> QED BY <2>1, <2>2
<1>8. Next /\ InTxn => CallStep \/ CallFails \/ CrashAndReopen
  BY <1>1, DuringCommit DEF InTxn
<1> QED
  BY <1>2, <1>3, <1>4, <1>5, <1>6, <1>7, <1>8 DEF Next

LEMMA InitImplements == Init => Store!StoreInit
BY DEF Init, Store!StoreInit, EmptyDisk, NoNodes, NoEdges, NoHandle

\* With BinaryFileStorage and a caller that has one transaction open at a time
\* and deletes what it knows to exist, the database is the store of GraphStore,
\* as far as it promises to be: what a replay of the log yields changes by whole
\* operations, and by a transaction in the order in which it was staged.
THEOREM ImplementsStore ==
    ASSUME Careful, Markers
    PROVE  Spec => ImplementsGraphStore
<1>1. Init => UnusedInv /\ ReplayInv
  BY UnusedInit, ReplayInit
<1>2. Sound /\ UnusedInv /\ [Next]_vars => UnusedInv'
  BY UnusedNext DEF Sound
<1>3. Sound /\ EngineInv /\ ReplayInv /\ Sound' /\ EngineInv' /\ [Next]_vars => ReplayInv'
  BY ReplayNext
<1>4. Sound /\ EngineInv /\ UnusedInv /\ ReplayInv /\ Sound' /\ [Next]_vars
        => [Store!StoreNext]_(Store!storeVars)
  BY StepImplements
<1> QED
  BY <1>1, <1>2, <1>3, <1>4, EngineCorrect, InitImplements, PTL
     DEF Spec, ImplementsGraphStore, Store!StoreSpec
=============================================================================
