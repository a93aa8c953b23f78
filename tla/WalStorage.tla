---------------------------- MODULE WalStorage ----------------------------
(***************************************************************************)
(* The write-ahead log behind StoragePort, seen through its replay.        *)
(*                                                                         *)
(* The adapters keep no state but the file, and every read (load_node,     *)
(* load_all_nodes, compact, ...) replays the file from its first record.   *)
(* replay() handles one record at a time and remembers only the live maps  *)
(* and the transaction buffer, so the log is represented here by what      *)
(* replay() knows at its end, a "disk" record:                             *)
(*                                                                         *)
(*   nodes, edges   the live maps; Absent for an id that is not a key      *)
(*   buf            txn_buffer: open between BEGIN_TXN and the marker that *)
(*                  ends it, with the upserts and tombstones seen since    *)
(*                                                                         *)
(* Appending record r to the log is applying r's arm of replay() to the    *)
(* disk.  The buffered upserts are a partial map, since the later of two   *)
(* upserts of an id wins when the vector is poured into the HashMap.       *)
(*                                                                         *)
(* Markers = TRUE is BinaryFileStorage; FALSE is JsonFileStorage, whose    *)
(* marker methods are StoragePort's no-op defaults.  Records are whole     *)
(* here: a record torn by a crash is a matter of framing, not of replay    *)
(* order.                                                                  *)
(***************************************************************************)
EXTENDS Naturals

CONSTANTS
    MaxNodes,   \* node ids are 0 .. MaxNodes - 1
    MaxEdges,   \* edge ids are 0 .. MaxEdges - 1
    Labels,     \* node labels
    Fields,     \* names of node properties
    NodeData,   \* the node contents in use: a label and the fields it carries
    Absent,     \* no value
    Markers     \* whether the adapter writes transaction markers

NodeIds == 0 .. (MaxNodes - 1)
EdgeIds == 0 .. (MaxEdges - 1)

\* Label, weight and properties of an edge are carried along, never examined.
EdgeData == [src : NodeIds, tgt : NodeIds]

ASSUME StorageAssumption ==
    /\ MaxNodes \in Nat
    /\ MaxEdges \in Nat
    /\ NodeData \subseteq [label : Labels, fields : SUBSET Fields]
    /\ Absent \notin NodeData
    /\ Absent \notin EdgeData
    /\ Markers \in BOOLEAN

NodeMap == [NodeIds -> NodeData \cup {Absent}]
EdgeMap == [EdgeIds -> EdgeData \cup {Absent}]

Buffer == [open : BOOLEAN, txn : Nat, nIns : NodeMap, eIns : EdgeMap,
           nDel : SUBSET NodeIds, eDel : SUBSET EdgeIds]

Disk == [nodes : NodeMap, edges : EdgeMap, buf : Buffer]

NoNodes == [id \in NodeIds |-> Absent]
NoEdges == [id \in EdgeIds |-> Absent]

\* The buffer BEGIN_TXN starts; with open = FALSE, no buffer at all.
FreshBuffer(isOpen, txn) ==
    [open |-> isOpen, txn |-> txn, nIns |-> NoNodes, eIns |-> NoEdges,
     nDel |-> {}, eDel |-> {}]

NoBuffer == FreshBuffer(FALSE, 0)

\* A file that holds its header and no record.
EmptyDisk == [nodes |-> NoNodes, edges |-> NoEdges, buf |-> NoBuffer]

LiveNodes(d) == {id \in NodeIds : d.nodes[id] # Absent}
LiveEdges(d) == {id \in EdgeIds : d.edges[id] # Absent}

-----------------------------------------------------------------------------
(* One operator per record the adapters append.                            *)

SaveNode(d, id, node) ==
    IF d.buf.open THEN [d EXCEPT !.buf.nIns[id] = node]
                  ELSE [d EXCEPT !.nodes[id] = node]

\* Mutant of SaveEdge: replay does not buffer upserts of edges.
SaveEdgeUnbuffered(d, id, edge) == [d EXCEPT !.edges[id] = edge]

SaveEdge(d, id, edge) ==
    IF d.buf.open THEN [d EXCEPT !.buf.eIns[id] = edge]
                  ELSE [d EXCEPT !.edges[id] = edge]

DeleteNode(d, id) ==
    IF d.buf.open THEN [d EXCEPT !.buf.nDel = @ \cup {id}]
                  ELSE [d EXCEPT !.nodes[id] = Absent]

DeleteEdge(d, id) ==
    IF d.buf.open THEN [d EXCEPT !.buf.eDel = @ \cup {id}]
                  ELSE [d EXCEPT !.edges[id] = Absent]

\* BEGIN_TXN replaces whatever buffer an earlier, unfinished one left.
BeginTxn(d, txn) ==
    IF Markers THEN [d EXCEPT !.buf = FreshBuffer(TRUE, txn)] ELSE d

\* Mutant of AppliedNodes: all tombstones first, then all upserts.
TombstonesFirst(d) ==
    [id \in NodeIds |-> IF d.buf.nIns[id] # Absent THEN d.buf.nIns[id]
                        ELSE IF id \in d.buf.nDel THEN Absent
                        ELSE d.nodes[id]]

\* All upserts first, then all tombstones, whatever order they were staged in.
AppliedNodes(d) ==
    [id \in NodeIds |-> IF id \in d.buf.nDel THEN Absent
                        ELSE IF d.buf.nIns[id] # Absent THEN d.buf.nIns[id]
                        ELSE d.nodes[id]]

AppliedEdges(d) ==
    [id \in EdgeIds |-> IF id \in d.buf.eDel THEN Absent
                        ELSE IF d.buf.eIns[id] # Absent THEN d.buf.eIns[id]
                        ELSE d.edges[id]]

\* COMMIT_TXN takes the buffer, and applies it only if the ids agree.
CommitTxn(d, txn) ==
    IF Markers /\ d.buf.open /\ d.buf.txn = txn
    THEN [nodes |-> AppliedNodes(d), edges |-> AppliedEdges(d), buf |-> NoBuffer]
    ELSE [d EXCEPT !.buf = NoBuffer]

RollbackTxn(d) == [d EXCEPT !.buf = NoBuffer]

\* Rewrites the file with what replay() returns: an open buffer is not in it,
\* nor is the BEGIN_TXN that opened it.
CompactLog(d) == [d EXCEPT !.buf = NoBuffer]
=============================================================================
