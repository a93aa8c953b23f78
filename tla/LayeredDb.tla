----------------------------- MODULE LayeredDb -----------------------------
(***************************************************************************)
(* LayeredGraphDatabase: one process, its storage, cache, engine, indexes  *)
(* and id generator, and the transactions its caller holds.                *)
(*                                                                         *)
(* Every method takes &mut self, so calls do not overlap.  What can happen *)
(* in the middle of one is that the process dies or that an append fails.  *)
(* A call that appends one record is therefore one action; delete_node and *)
(* commit_transaction, which append several, are a chain of actions that   *)
(* `call` threads together, one append each.                               *)
(***************************************************************************)
EXTENDS AdjacencyListEngine, SecondaryIndexes, CachePort, Sequences

CONSTANTS
    AutoCompact,       \* auto_compact_after_writes is Some(AutoCompactAfter)
    AutoCompactAfter,
    MaxTxns,           \* transactions begun by one process
    MaxOps,            \* operations staged in one transaction
    MaxFaults,         \* failing appends and compactions in a behaviour
    MaxCrashes,        \* deaths of the process in a behaviour
    ExclusiveTxns,     \* the caller allocates ids through one handle at a time
    GuessedIds         \* the caller stages deletions of ids it was not given

ASSUME DbAssumption ==
    /\ AutoCompact \in BOOLEAN
    /\ AutoCompactAfter \in Nat
    /\ MaxTxns \in Nat
    /\ MaxOps \in Nat
    /\ MaxFaults \in Nat
    /\ MaxCrashes \in Nat
    /\ ExclusiveTxns \in BOOLEAN
    /\ GuessedIds \in BOOLEAN

VARIABLES
    disk,      \* the log, as replay() sees it
    cache,
    engine,
    labels,    \* label_index
    props,     \* property_index
    gen,       \* id_generator: the next node id and the next edge id
    writes,    \* writes_since_compact, no higher than the threshold it is
               \* compared with, and 0 when there is none
    txns,      \* transaction handles, by txn_id
    nextTxn,   \* TXN_COUNTER
    call,      \* the call in progress
    faults,    \* faults so far
    crashes,   \* crashes so far
    damage     \* what error paths have left behind; see below

memory == <<cache, engine, labels, props, gen>>
handles == <<txns, nextTxn>>
vars == <<disk, cache, engine, labels, props, gen, writes, txns, nextTxn, call,
          faults, crashes, damage>>

-----------------------------------------------------------------------------
(* Types.                                                                  *)

TxnIds == 1 .. MaxTxns

Generator == [node : 0 .. MaxNodes, edge : 0 .. MaxEdges]

InsertNodeOps == [kind : {"InsertNode"}, id : NodeIds, node : NodeData]
InsertEdgeOps == [kind : {"InsertEdge"}, id : EdgeIds, edge : EdgeData]
DeleteNodeOps == [kind : {"DeleteNode"}, id : NodeIds]
DeleteEdgeOps == [kind : {"DeleteEdge"}, id : EdgeIds]
StagedOp == InsertNodeOps \cup InsertEdgeOps \cup DeleteNodeOps \cup DeleteEdgeOps

\* A handle is unused until begin_transaction returns it, and consumed, its
\* operations with it, by the commit or rollback it is moved into.
Handle == [status : {"unused", "open", "committed", "failed", "rolledBack"},
           ops : Seq(StagedOp), idGen : Generator]

NoHandle(status) ==
    [status |-> status, ops |-> <<>>, idGen |-> [node |-> 0, edge |-> 0]]

\* pc tells how far the call is: "deleting" is inside delete_node, with the
\* incident edges still to be tombstoned; "committing" is before operation k
\* of transaction txn.  delete_node may itself run inside a commit (txn # 0).
NoCall == [pc |-> "idle", node |-> 0, incident |-> {}, txn |-> 0, k |-> 0]

Call ==
    {NoCall}
    \cup [pc : {"deleting"}, node : NodeIds, incident : SUBSET EdgeIds,
          txn : 0 .. MaxTxns, k : Nat]
    \cup [pc : {"committing"}, node : {0}, incident : {{}},
          txn : TxnIds, k : Nat \ {0}]

Idle == call.pc = "idle"

TypeOK ==
    /\ disk \in Disk
    /\ cache \in Cache
    /\ engine \in Engine
    /\ labels \in LabelIndex
    /\ props \in PropertyIndex
    /\ gen \in Generator
    /\ writes \in Nat
    /\ txns \in [TxnIds -> Handle]
    /\ nextTxn \in Nat
    /\ call \in Call
    /\ faults \in 0 .. MaxFaults
    /\ crashes \in 0 .. MaxCrashes
    /\ damage \in {"none", "memory", "log"}

-----------------------------------------------------------------------------
(* Damage, a history variable.  Some error paths return with part of their *)
(* work done.  "memory" says that this process may see a graph other than  *)
(* the one in the log, which opening the log again repairs; "log", that a  *)
(* record was then appended on the strength of such a memory, or was lost  *)
(* behind an unfinished BEGIN_TXN, which nothing repairs.                  *)

\* A record is being appended.
AfterAppend ==
    IF damage = "none" /\ (disk.buf.open => call.txn # 0) THEN "none" ELSE "log"

MemoryDamaged == IF damage = "log" THEN "log" ELSE "memory"

-----------------------------------------------------------------------------
(* Pieces shared by the actions.                                           *)

CanFault == faults < MaxFaults
Fault == CanFault /\ faults' = faults + 1

\* Mutants of Seeded: the id itself is the next one; the comparison is strict.
SeededToId(next, id) == IF id >= next THEN id ELSE next
SeededBeyond(next, id) == IF id > next THEN id + 1 ELSE next

Seeded(next, id) == IF id >= next THEN id + 1 ELSE next

\* on_write, run after a write that left the log d and the cache c: count it,
\* and at the threshold compact.  A failing compaction is only logged.
OnWrite(d, c) ==
    LET due == AutoCompact /\ writes + 1 >= AutoCompactAfter
        counted == IF AutoCompact /\ writes < AutoCompactAfter
                   THEN writes + 1 ELSE writes
    IN \/ /\ ~due
          /\ disk' = d /\ cache' = c /\ writes' = counted
          /\ damage' = AfterAppend
          /\ UNCHANGED faults
       \/ /\ due
          /\ disk' = CompactLog(d) /\ cache' = EmptyCache /\ writes' = 0
          /\ damage' = IF d.buf.open THEN "log" ELSE AfterAppend
          /\ UNCHANGED faults
       \/ /\ due
          /\ Fault
          /\ disk' = d /\ cache' = c /\ writes' = counted
          /\ damage' = AfterAppend

\* The in-memory half of inserting a node whose indexed fields are `fields`.
IndexNode(id, node, fields) ==
    /\ engine' = EngineInsertNode(engine, id)
    /\ labels' = LabelInsert(labels, id, node.label)
    /\ props' = PropertyInsert(props, id, fields)

NoOpenHandle == \A t \in TxnIds : txns[t].status # "open"

\* begin_transaction copies the generator, so ids are handed out by several
\* generators at once unless the caller sees to it that they are not.
MayAllocate == ExclusiveTxns => NoOpenHandle

-----------------------------------------------------------------------------
(* Direct operations.                                                      *)

InsertNode(node) ==
    LET id == gen.node IN
    /\ Idle /\ MayAllocate /\ id < MaxNodes
    /\ gen' = [gen EXCEPT !.node = id + 1]
    /\ IndexNode(id, node, Indexable(node))
    /\ \E c \in PutNode(cache, id, node) : OnWrite(SaveNode(disk, id, node), c)
    /\ UNCHANGED <<txns, nextTxn, call, crashes>>

\* save_node fails: the id is spent, nothing else has happened.
InsertNodeFails ==
    /\ Idle /\ MayAllocate /\ gen.node < MaxNodes
    /\ Fault
    /\ gen' = [gen EXCEPT !.node = @ + 1]
    /\ UNCHANGED <<disk, cache, engine, labels, props, writes, txns, nextTxn,
                   call, crashes, damage>>

InsertEdge(edge) ==
    LET id == gen.edge IN
    /\ Idle /\ MayAllocate /\ id < MaxEdges
    /\ ContainsNode(engine, edge.src) /\ ContainsNode(engine, edge.tgt)
    /\ gen' = [gen EXCEPT !.edge = id + 1]
    /\ engine' = EngineInsertEdge(engine, id, edge)
    /\ \E c \in PutEdge(cache, id, edge) : OnWrite(SaveEdge(disk, id, edge), c)
    /\ UNCHANGED <<labels, props, txns, nextTxn, call, crashes>>

InsertEdgeFails(edge) ==
    /\ Idle /\ MayAllocate /\ gen.edge < MaxEdges
    /\ ContainsNode(engine, edge.src) /\ ContainsNode(engine, edge.tgt)
    /\ Fault
    /\ gen' = [gen EXCEPT !.edge = @ + 1]
    /\ UNCHANGED <<disk, cache, engine, labels, props, writes, txns, nextTxn,
                   call, crashes, damage>>

\* delete_edge, which does not ask whether there is such an edge.
RemoveEdge(id) ==
    /\ engine' = EngineRemoveEdge(engine, id)
    /\ OnWrite(DeleteEdge(disk, id), InvalidateEdge(cache, id))

DirectDeleteEdge(id) ==
    /\ Idle
    /\ RemoveEdge(id)
    /\ UNCHANGED <<labels, props, gen, txns, nextTxn, call, crashes>>

\* Mutant of NodeReads: the node is looked for in the log alone.
LogReads(id) == {[value |-> disk.nodes[id], cache |-> cache]}

\* get_node: the value and the cache it leaves, for each victim of the put.
NodeReads(id) ==
    IF cache.nodes[id] # Absent
    THEN {[value |-> cache.nodes[id], cache |-> cache]}
    ELSE IF disk.nodes[id] # Absent
    THEN {[value |-> disk.nodes[id], cache |-> c] :
              c \in PutNode(cache, id, disk.nodes[id])}
    ELSE {[value |-> Absent, cache |-> cache]}

GetNode(id) ==
    /\ Idle
    /\ \E r \in NodeReads(id) : cache' = r.cache
    /\ UNCHANGED <<disk, engine, labels, props, gen, writes, txns, nextTxn, call,
                   faults, crashes, damage>>

\* get_edge; a hit changes nothing, nor does a miss in the log.
GetEdge(id) ==
    /\ Idle
    /\ cache.edges[id] = Absent /\ disk.edges[id] # Absent
    /\ cache' \in PutEdge(cache, id, disk.edges[id])
    /\ UNCHANGED <<disk, engine, labels, props, gen, writes, txns, nextTxn, call,
                   faults, crashes, damage>>

Compact ==
    /\ Idle
    /\ disk' = CompactLog(disk) /\ cache' = EmptyCache /\ writes' = 0
    /\ UNCHANGED <<engine, labels, props, gen, txns, nextTxn, call, faults,
                   crashes, damage>>

-----------------------------------------------------------------------------
(* delete_node, called directly or by a commit.                            *)

\* The call a delete_node begins, with the caller's transaction and operation.
Deleting(id, txn, k) ==
    [pc |-> "deleting", node |-> id, incident |-> IncidentEdges(engine, id),
     txn |-> txn, k |-> k]

\* Before operation k of transaction txn.
Committing(txn, k) == [NoCall EXCEPT !.pc = "committing", !.txn = txn, !.k = k]

DirectDeleteNode(id) ==
    /\ Idle
    /\ call' = Deleting(id, 0, 0)
    /\ UNCHANGED <<disk, memory, writes, handles, faults, crashes, damage>>

DeleteIncidentEdge(id) ==
    /\ call.pc = "deleting" /\ id \in call.incident
    /\ call' = [call EXCEPT !.incident = @ \ {id}]
    /\ disk' = DeleteEdge(disk, id)
    /\ cache' = InvalidateEdge(cache, id)
    /\ damage' = AfterAppend
    /\ UNCHANGED <<engine, labels, props, gen, writes, handles, faults, crashes>>

\* With the node at hand its index entries go; unless it is found, they stay.
UnindexNode(id, found) ==
    IF found = Absent THEN UNCHANGED <<labels, props>>
    ELSE /\ labels' = LabelRemove(labels, id, found.label)
         /\ props' = PropertyRemove(props, id, found.fields)

DeleteNodeFinish ==
    LET id == call.node IN
    /\ call.pc = "deleting" /\ call.incident = {}
    /\ engine' = EngineRemoveNode(engine, id)
    /\ \E r \in NodeReads(id) :
          /\ UnindexNode(id, r.value)
          /\ OnWrite(DeleteNode(disk, id), InvalidateNode(r.cache, id))
    /\ call' = IF call.txn = 0 THEN NoCall ELSE Committing(call.txn, call.k + 1)
    /\ UNCHANGED <<gen, handles, crashes>>

\* The error returns to the caller, through commit_transaction if that is who
\* called; the transaction is gone and no ROLLBACK_TXN is written.
ReturnError ==
    /\ call' = NoCall
    /\ IF call.txn = 0 THEN UNCHANGED txns
       ELSE txns' = [txns EXCEPT ![call.txn] = NoHandle("failed")]

\* A tombstone of an incident edge cannot be written, or the node not be read.
DeleteNodeFailsEarly ==
    /\ call.pc = "deleting"
    /\ Fault
    /\ ReturnError
    /\ damage' = MemoryDamaged
    /\ UNCHANGED <<disk, memory, writes, nextTxn, crashes>>

\* The tombstone of the node cannot be written: its index entries are gone.
DeleteNodeFailsLate ==
    /\ call.pc = "deleting" /\ call.incident = {}
    /\ Fault
    /\ \E r \in NodeReads(call.node) :
          UnindexNode(call.node, r.value) /\ cache' = r.cache
    /\ ReturnError
    /\ damage' = MemoryDamaged
    /\ UNCHANGED <<disk, engine, gen, writes, nextTxn, crashes>>

-----------------------------------------------------------------------------
(* Transactions: staging.                                                  *)

IsOpen(t) == txns[t].status = "open"

BeginTransaction ==
    /\ Idle /\ MayAllocate /\ nextTxn \in TxnIds
    /\ txns' = [txns EXCEPT ![nextTxn] =
                   [status |-> "open", ops |-> <<>>, idGen |-> gen]]
    /\ nextTxn' = nextTxn + 1
    /\ UNCHANGED <<disk, memory, writes, call, faults, crashes, damage>>

\* A staging method pushes op and leaves the handle's generator at idGen.
Stage(t, op, idGen) ==
    /\ Idle /\ IsOpen(t) /\ Len(txns[t].ops) < MaxOps
    /\ txns' = [txns EXCEPT ![t].ops = Append(@, op), ![t].idGen = idGen]
    /\ UNCHANGED <<disk, memory, writes, nextTxn, call, faults, crashes, damage>>

StageInsertNode(t, node) ==
    LET g == txns[t].idGen IN
    /\ g.node < MaxNodes
    /\ Stage(t, [kind |-> "InsertNode", id |-> g.node, node |-> node],
             [g EXCEPT !.node = @ + 1])

StageInsertEdge(t, edge) ==
    LET g == txns[t].idGen IN
    /\ g.edge < MaxEdges
    /\ Stage(t, [kind |-> "InsertEdge", id |-> g.edge, edge |-> edge],
             [g EXCEPT !.edge = @ + 1])

StageDeleteNode(t, id) ==
    /\ GuessedIds \/ id < txns[t].idGen.node
    /\ Stage(t, [kind |-> "DeleteNode", id |-> id], txns[t].idGen)

StageDeleteEdge(t, id) ==
    /\ GuessedIds \/ id < txns[t].idGen.edge
    /\ Stage(t, [kind |-> "DeleteEdge", id |-> id], txns[t].idGen)

StagedNodeIds(t) ==
    {txns[t].ops[i].id : i \in {j \in DOMAIN txns[t].ops :
                                  txns[t].ops[j].kind = "InsertNode"}}

StagedEdgeIds(t) ==
    {txns[t].ops[i].id : i \in {j \in DOMAIN txns[t].ops :
                                  txns[t].ops[j].kind = "InsertEdge"}}

\* Mutant of IsSeeded: nothing is seeded.
Unseeded(n, next, seen) == n = next

\* The least counter at or past `next` that is past every id of `seen`: what a
\* loop of seed_from_node or seed_from_edge over `seen` leaves.
IsSeeded(n, next, seen) ==
    /\ n >= next
    /\ \A id \in seen : id < n
    /\ n = next \/ (\E id \in seen : n = id + 1)

RollbackTransaction(t) ==
    /\ Idle /\ IsOpen(t)
    /\ \E n \in 0 .. MaxNodes, e \in 0 .. MaxEdges :
          /\ IsSeeded(n, gen.node, StagedNodeIds(t))
          /\ IsSeeded(e, gen.edge, StagedEdgeIds(t))
          /\ gen' = [node |-> n, edge |-> e]
    /\ txns' = [txns EXCEPT ![t] = NoHandle("rolledBack")]
    /\ UNCHANGED <<disk, cache, engine, labels, props, writes, nextTxn, call,
                   faults, crashes, damage>>

-----------------------------------------------------------------------------
(* Transactions: commit.                                                   *)

CommitStart(t) ==
    /\ Idle /\ IsOpen(t)
    /\ disk' = BeginTxn(disk, t)
    /\ call' = Committing(t, 1)
    /\ UNCHANGED <<memory, writes, handles, faults, crashes, damage>>

\* BEGIN_TXN cannot be written: the handle is consumed all the same.
CommitStartFails(t) ==
    /\ Markers /\ Idle /\ IsOpen(t)
    /\ Fault
    /\ txns' = [txns EXCEPT ![t] = NoHandle("failed")]
    /\ UNCHANGED <<disk, memory, writes, nextTxn, call, crashes, damage>>

Ops == txns[call.txn].ops

\* Operation k is next, and it is of this kind.
AtOp(kind) ==
    /\ call.pc = "committing" /\ call.k <= Len(Ops)
    /\ Ops[call.k].kind = kind

Op == Ops[call.k]

\* Mutant of NextOp: the operation is not consumed.
SameOp == UNCHANGED call

NextOp == call' = [call EXCEPT !.k = @ + 1]

\* The properties are indexed whatever the configuration says.
CommitInsertNode ==
    /\ AtOp("InsertNode")
    /\ disk' = SaveNode(disk, Op.id, Op.node)
    /\ cache' \in PutNode(cache, Op.id, Op.node)
    /\ IndexNode(Op.id, Op.node, Op.node.fields)
    /\ gen' = [gen EXCEPT !.node = Seeded(@, Op.id)]
    /\ damage' = AfterAppend
    /\ NextOp
    /\ UNCHANGED <<writes, handles, faults, crashes>>

\* Mutant of EndpointsKnown: the target is not looked up.
SourceKnown == ContainsNode(engine, Op.edge.src)

EndpointsKnown == ContainsNode(engine, Op.edge.src) /\ ContainsNode(engine, Op.edge.tgt)

CommitInsertEdge ==
    /\ AtOp("InsertEdge")
    /\ EndpointsKnown
    /\ disk' = SaveEdge(disk, Op.id, Op.edge)
    /\ cache' \in PutEdge(cache, Op.id, Op.edge)
    /\ engine' = EngineInsertEdge(engine, Op.id, Op.edge)
    /\ gen' = [gen EXCEPT !.edge = Seeded(@, Op.id)]
    /\ damage' = AfterAppend
    /\ NextOp
    /\ UNCHANGED <<labels, props, writes, handles, faults, crashes>>

\* A commit that fails after an operation has changed the memory leaves that
\* change there.  Without markers the log has it as well.
FailedCommitDamage ==
    IF Markers /\ call.k > 1 THEN MemoryDamaged ELSE damage

\* A missing endpoint: ROLLBACK_TXN is attempted, and its error ignored.
CommitRejectEdge ==
    /\ AtOp("InsertEdge")
    /\ ~EndpointsKnown
    /\ \/ disk' = RollbackTxn(disk) /\ UNCHANGED faults
       \/ disk' = disk /\ Fault
    /\ ReturnError
    /\ damage' = FailedCommitDamage
    /\ UNCHANGED <<memory, writes, nextTxn, crashes>>

CommitDeleteNode ==
    /\ AtOp("DeleteNode")
    /\ call' = Deleting(Op.id, call.txn, call.k)
    /\ UNCHANGED <<disk, memory, writes, handles, faults, crashes, damage>>

CommitDeleteEdge ==
    /\ AtOp("DeleteEdge")
    /\ RemoveEdge(Op.id)
    /\ NextOp
    /\ UNCHANGED <<labels, props, gen, handles, crashes>>

\* COMMIT_TXN after the last operation, then on_write.
CommitFinish ==
    /\ call.pc = "committing" /\ call.k = Len(Ops) + 1
    /\ OnWrite(CommitTxn(disk, call.txn), cache)
    /\ txns' = [txns EXCEPT ![call.txn] = NoHandle("committed")]
    /\ call' = NoCall
    /\ UNCHANGED <<engine, labels, props, gen, nextTxn, crashes>>

\* An append of the commit itself fails: an upsert, a tombstone of an edge, or
\* COMMIT_TXN.  The error is returned with BEGIN_TXN left open in the log.
CommitFails ==
    /\ call.pc = "committing"
    /\ ~AtOp("DeleteNode")
    /\ AtOp("InsertEdge") => EndpointsKnown
    /\ call.k = Len(Ops) + 1 => Markers
    /\ Fault
    /\ ReturnError
    /\ damage' = FailedCommitDamage
    /\ UNCHANGED <<disk, memory, writes, nextTxn, crashes>>

-----------------------------------------------------------------------------
(* The process dies, at any point, or is shut down, and the file is opened *)
(* again.  Opening writes nothing: it is the replay, and the rebuilding of *)
(* everything in memory from what the replay yields.                       *)

CrashAndReopen ==
    /\ crashes < MaxCrashes
    /\ crashes' = crashes + 1
    /\ engine' = EngineOf(disk)
    /\ labels' = LabelIndexOf(disk)
    /\ props' = PropertyIndexOf(disk)
    /\ \E n \in 0 .. MaxNodes, e \in 0 .. MaxEdges :
          /\ IsSeeded(n, 0, LiveNodes(disk))
          /\ IsSeeded(e, 0, LiveEdges(disk))
          /\ gen' = [node |-> n, edge |-> e]
    /\ cache' = EmptyCache
    /\ writes' = 0
    /\ txns' = [t \in TxnIds |-> NoHandle("unused")]
    /\ nextTxn' = 1
    /\ call' = NoCall
    /\ damage' = IF damage = "log" THEN "log" ELSE "none"
    /\ UNCHANGED <<disk, faults>>

-----------------------------------------------------------------------------
(* The specification.                                                      *)

\* open_with_config on a file that has just been created.
Init ==
    /\ disk = EmptyDisk
    /\ cache = EmptyCache
    /\ engine = EmptyEngine
    /\ labels = EmptyLabelIndex
    /\ props = EmptyPropertyIndex
    /\ gen = [node |-> 0, edge |-> 0]
    /\ writes = 0
    /\ txns = [t \in TxnIds |-> NoHandle("unused")]
    /\ nextTxn = 1
    /\ call = NoCall
    /\ faults = 0
    /\ crashes = 0
    /\ damage = "none"

DirectStep ==
    \/ \E node \in NodeData : InsertNode(node)
    \/ InsertNodeFails
    \/ \E edge \in EdgeData : InsertEdge(edge) \/ InsertEdgeFails(edge)
    \/ \E id \in EdgeIds : DirectDeleteEdge(id) \/ GetEdge(id)
    \/ \E id \in NodeIds : DirectDeleteNode(id) \/ GetNode(id)
    \/ Compact

StagingStep ==
    \/ BeginTransaction
    \/ \E t \in TxnIds :
          \/ \E node \in NodeData : StageInsertNode(t, node)
          \/ \E edge \in EdgeData : StageInsertEdge(t, edge)
          \/ \E id \in NodeIds : StageDeleteNode(t, id)
          \/ \E id \in EdgeIds : StageDeleteEdge(t, id)
          \/ RollbackTransaction(t)
          \/ CommitStart(t)
          \/ CommitStartFails(t)

\* The next step of the call in progress, when nothing goes wrong.
CallStep ==
    \/ \E id \in EdgeIds : DeleteIncidentEdge(id)
    \/ DeleteNodeFinish
    \/ CommitInsertNode
    \/ CommitInsertEdge
    \/ CommitRejectEdge
    \/ CommitDeleteNode
    \/ CommitDeleteEdge
    \/ CommitFinish

CallFails == DeleteNodeFailsEarly \/ DeleteNodeFailsLate \/ CommitFails

Next == DirectStep \/ StagingStep \/ CallStep \/ CallFails \/ CrashAndReopen

Spec == Init /\ [][Next]_vars

\* A call that has begun runs on: it is executed by the caller's own thread,
\* and none of its steps waits for anything.
FairSpec == Spec /\ WF_vars(CallStep)

-----------------------------------------------------------------------------
(* What must hold.  Between calls, and as long as no error path has left   *)
(* damage, the parts of the database describe one graph: the log's.        *)

Settled == Idle /\ damage = "none"

\* Between calls the engine holds exactly the live nodes and edges of the log,
\* and its three maps agree: open_with_config rebuilds what the operations
\* keep up, through crashes, compactions and commits.
EngineMirrorsLog == Settled => engine = EngineOf(disk)

\* Between calls the label index lists every live node once, under its label,
\* and no other ("kept strictly in sync with the engine and storage").
LabelIndexExact == Settled => labels = LabelIndexOf(disk)

\* Between calls a field the property index knows lists exactly the live nodes
\* that carry it, so that an index scan and a full scan find the same ones.
PropertyIndexExact ==
    Settled => \A f \in props.known :
        props.entries[f] = {id \in LiveNodes(disk) : f \in disk.nodes[id].fields}

\* Between calls a cached value is the value in the log: no deleted, rolled
\* back or overwritten node or edge is served from RAM.
CacheCoherent ==
    Settled =>
        /\ \A id \in Present(cache.nodes) : cache.nodes[id] = disk.nodes[id]
        /\ \A id \in Present(cache.edges) : cache.edges[id] = disk.edges[id]

\* A replay of the log at any moment, so a crash at any point of any call,
\* yields no edge without its endpoints: delete_node tombstones the edges
\* first, insert_edge comes after its nodes, a commit is applied whole.
ReferentialIntegrity ==
    damage # "log" =>
        \A e \in LiveEdges(disk) :
            disk.edges[e].src \in LiveNodes(disk) /\ disk.edges[e].tgt \in LiveNodes(disk)

\* The id generator is past every live id, in whatever way the ids got there:
\* direct inserts, commits of transactions with a generator of their own, or
\* the seeding that follows a replay.
GeneratorAhead ==
    /\ \A id \in LiveNodes(disk) : id < gen.node
    /\ \A id \in LiveEdges(disk) : id < gen.edge

\* As long as the process runs its generator does not go back, and when a
\* transaction is committed or rolled back it has passed every id the handle
\* gave out (seed_from_node, seed_generator_into): none is handed out again.
IdsRetired ==
    [][crashes' = crashes =>
        /\ gen'.node >= gen.node /\ gen'.edge >= gen.edge
        /\ \A t \in TxnIds :
              IsOpen(t) /\ txns'[t].status \in {"committed", "rolledBack"} =>
                /\ \A id \in StagedNodeIds(t) : id < gen'.node
                /\ \A id \in StagedEdgeIds(t) : id < gen'.edge]_vars

\* A live node or edge is never overwritten by another under the same id: it
\* keeps its content until it is deleted.
NeverOverwritten ==
    [][/\ \A id \in LiveNodes(disk) : disk'.nodes[id] \in {disk.nodes[id], Absent}
       /\ \A id \in LiveEdges(disk) : disk'.edges[id] \in {disk.edges[id], Absent}
      ]_vars

\* While a transaction is being committed, what a replay would yield does not
\* change but by the step that appends COMMIT_TXN: wherever the process dies,
\* all of the transaction is found again or nothing of it.
CommitAtomic ==
    [][call.txn # 0 /\ ~CommitFinish
          => disk'.nodes = disk.nodes /\ disk'.edges = disk.edges]_vars

\* Every call that begins returns.
CallsReturn == ~Idle ~> Idle
=============================================================================
