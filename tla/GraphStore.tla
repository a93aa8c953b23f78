----------------------------- MODULE GraphStore -----------------------------
(***************************************************************************)
(* What the database promises its caller, with nothing of how: a durable   *)
(* graph, changed one element at a time or by whole transactions.          *)
(*                                                                         *)
(* A transaction is a list of operations that happens in the order it was  *)
(* staged, in one step, or not at all.  A crash loses the open             *)
(* transactions and nothing else.                                          *)
(*                                                                         *)
(* `sound` is the condition of the promise.  Some calls that fail end it   *)
(* (they leave the database as it was, but what follows may be anything);  *)
(* which ones is up to the implementation.                                 *)
(***************************************************************************)
EXTENDS Integers, SequencesExt

CONSTANTS NodeIds, EdgeIds, NodeData, EdgeData, Absent, TxnIds

VARIABLES
    nodes,    \* content of each node, or Absent
    edges,    \* endpoints of each edge, or Absent
    staged,   \* of each transaction, its operations and what became of it
    sound

storeVars == <<nodes, edges, staged, sound>>

Graph == [nodes |-> nodes, edges |-> edges, valid |-> TRUE]

TouchesNode(edge, id) == edge # Absent /\ (edge.src = id \/ edge.tgt = id)

\* The graph g after one operation; an edge without its endpoints spoils it.
Apply(g, op) ==
    CASE op.kind = "InsertNode" -> [g EXCEPT !.nodes[op.id] = op.node]
      [] op.kind = "InsertEdge" ->
            [g EXCEPT !.edges[op.id] = op.edge,
                      !.valid = /\ @
                                /\ g.nodes[op.edge.src] # Absent
                                /\ g.nodes[op.edge.tgt] # Absent]
      [] op.kind = "DeleteNode" ->
            [g EXCEPT !.nodes[op.id] = Absent,
                      !.edges = [e \in EdgeIds |->
                          IF TouchesNode(g.edges[e], op.id) THEN Absent
                          ELSE g.edges[e]]]
      [] op.kind = "DeleteEdge" -> [g EXCEPT !.edges[op.id] = Absent]

\* The graph after the first n operations, for each n.
GraphAfter(ops) ==
    LET g[n \in 0 .. Len(ops)] == IF n = 0 THEN Graph ELSE Apply(g[n - 1], ops[n])
    IN g

ApplyAll(ops) == GraphAfter(ops)[Len(ops)]

-----------------------------------------------------------------------------

AddNode(id) ==
    /\ nodes[id] = Absent
    /\ \E node \in NodeData : nodes' = [nodes EXCEPT ![id] = node]
    /\ UNCHANGED <<edges, staged, sound>>

AddEdge(id) ==
    /\ edges[id] = Absent
    /\ \E edge \in EdgeData :
          /\ nodes[edge.src] # Absent /\ nodes[edge.tgt] # Absent
          /\ edges' = [edges EXCEPT ![id] = edge]
    /\ UNCHANGED <<nodes, staged, sound>>

\* A node goes only when no edge touches it, its edges one at a time before it.
DropNode(id) ==
    /\ \A e \in EdgeIds : ~TouchesNode(edges[e], id)
    /\ nodes' = [nodes EXCEPT ![id] = Absent]
    /\ UNCHANGED <<edges, staged, sound>>

DropEdge(id) ==
    /\ edges' = [edges EXCEPT ![id] = Absent]
    /\ UNCHANGED <<nodes, staged, sound>>

IsStaging(t) == staged[t].status = "open"

\* The transaction ends so, and its operations are forgotten.
Ends(t, status) ==
    staged' = [staged EXCEPT ![t] = [status |-> status, ops |-> <<>>]]

Begin(t) ==
    /\ staged[t].status = "unused"
    /\ staged' = [staged EXCEPT ![t].status = "open"]
    /\ UNCHANGED <<nodes, edges, sound>>

\* One more operation at the end of an open transaction.
StageOne(t) ==
    /\ IsStaging(t) /\ staged'[t].ops # <<>>
    /\ staged' = [staged EXCEPT ![t].ops = Append(@, Last(staged'[t].ops))]
    /\ UNCHANGED <<nodes, edges, sound>>

\* The caller is told that it has committed: all of it has happened.
Commit(t) ==
    /\ IsStaging(t)
    /\ ApplyAll(staged[t].ops).valid
    /\ nodes' = ApplyAll(staged[t].ops).nodes
    /\ edges' = ApplyAll(staged[t].ops).edges
    /\ Ends(t, "committed")
    /\ UNCHANGED sound

\* The caller is told otherwise: nothing of it has happened.
Abandon(t) ==
    /\ IsStaging(t)
    /\ \E status \in {"failed", "rolledBack"} : Ends(t, status)
    /\ UNCHANGED <<nodes, edges>>

CrashStore ==
    /\ staged' = [t \in TxnIds |-> [status |-> "unused", ops |-> <<>>]]
    /\ UNCHANGED <<nodes, edges, sound>>

EndOfPromise == ~sound' /\ UNCHANGED <<nodes, edges>>

StoreInit ==
    /\ nodes = [id \in NodeIds |-> Absent]
    /\ edges = [id \in EdgeIds |-> Absent]
    /\ staged = [t \in TxnIds |-> [status |-> "unused", ops |-> <<>>]]
    /\ sound = TRUE

StoreStep ==
    \/ \E id \in NodeIds : AddNode(id) \/ DropNode(id)
    \/ \E id \in EdgeIds : AddEdge(id) \/ DropEdge(id)
    \/ \E t \in TxnIds : Begin(t) \/ StageOne(t) \/ Commit(t) \/ Abandon(t)
    \/ CrashStore
    \/ EndOfPromise

StoreNext == sound => StoreStep

StoreSpec == StoreInit /\ [][StoreNext]_storeVars
=============================================================================
