----------------------------- MODULE GraphView -----------------------------
(***************************************************************************)
(* What GraphEnginePort shows to an algorithm: which nodes there are, and  *)
(* for each the sequence of its outgoing neighbours, one entry per edge,   *)
(* in the order in which the edges were inserted.  A node may be its own   *)
(* neighbour, and the same neighbour may come several times.               *)
(*                                                                         *)
(* AdjacencyListEngine removes a node together with its edges, so every    *)
(* neighbour is a node of the graph.                                       *)
(***************************************************************************)
EXTENDS Naturals, Sequences

CONSTANTS
    Nodes,      \* the nodes of the engine
    Starts,     \* what a query may name as its start: also unknown nodes
    MaxDegree   \* bound on the outgoing edges of a node

ASSUME GraphAssumption == MaxDegree \in Nat

NeighborLists == UNION {[1 .. k -> Nodes] : k \in 0 .. MaxDegree}

Graphs == [Nodes -> NeighborLists]

Elements(s) == {s[i] : i \in DOMAIN s}

Neighbors(adj, n) == Elements(adj[n])

\* A set of nodes that no edge leaves.
Closed(adj, S) == \A n \in S : Neighbors(adj, n) \subseteq S

\* The nodes that a path leads to from `start`: the least closed set it is in.
Reachable(adj, start) ==
    {n \in Nodes : \A S \in SUBSET Nodes : start \in S /\ Closed(adj, S) => n \in S}
=============================================================================
