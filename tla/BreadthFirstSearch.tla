------------------------- MODULE BreadthFirstSearch -------------------------
(***************************************************************************)
(* BreadthFirstSearch::traverse.  Visit is one turn of the while loop up   *)
(* to its inner loop, Examine one turn of that.                            *)
(***************************************************************************)
EXTENDS GraphView

VARIABLES
    adj, start,   \* the arguments
    visited,      \* the HashSet: nodes that are or were in the queue
    queue, order,
    pending       \* neighbours the inner loop has still to look at

vars == <<adj, start, visited, queue, order, pending>>

Init ==
    /\ adj \in Graphs
    /\ start \in Starts
    /\ visited = IF start \in Nodes THEN {start} ELSE {}
    /\ queue = IF start \in Nodes THEN <<start>> ELSE <<>>
    /\ order = <<>>
    /\ pending = <<>>

Visit ==
    /\ pending = <<>> /\ queue # <<>>
    /\ order' = Append(order, Head(queue))
    /\ queue' = Tail(queue)
    /\ pending' = adj[Head(queue)]
    /\ UNCHANGED <<adj, start, visited>>

\* Mutant of Examine: a new neighbour goes to the front, as on a stack.
ExamineFront ==
    /\ pending # <<>>
    /\ pending' = Tail(pending)
    /\ IF Head(pending) \in visited THEN UNCHANGED <<queue, visited>>
       ELSE /\ queue' = <<Head(pending)>> \o queue
            /\ visited' = visited \cup {Head(pending)}
    /\ UNCHANGED <<adj, start, order>>

\* Mutant of Examine: the last neighbour is left out.
ExamineButLast ==
    /\ pending # <<>>
    /\ pending' = Tail(pending)
    /\ IF Head(pending) \in visited \/ Len(pending) = 1 THEN UNCHANGED <<queue, visited>>
       ELSE /\ queue' = Append(queue, Head(pending))
            /\ visited' = visited \cup {Head(pending)}
    /\ UNCHANGED <<adj, start, order>>

Examine ==
    /\ pending # <<>>
    /\ pending' = Tail(pending)
    /\ IF Head(pending) \in visited THEN UNCHANGED <<queue, visited>>
       ELSE /\ queue' = Append(queue, Head(pending))
            /\ visited' = visited \cup {Head(pending)}
    /\ UNCHANGED <<adj, start, order>>

Next == Visit \/ Examine

\* The loop runs on the caller's thread until it ends.
Spec == Init /\ [][Next]_vars /\ WF_vars(Next)

Done == queue = <<>> /\ pending = <<>>

-----------------------------------------------------------------------------
TypeOK ==
    /\ adj \in [Nodes -> Seq(Nodes)]
    /\ start \in Starts
    /\ visited \subseteq Nodes
    /\ queue \in Seq(Nodes)
    /\ order \in Seq(Nodes)
    /\ pending \in Seq(Nodes)

\* The result is every reachable node and no other; nothing if the start is
\* not in the graph.
VisitsReachable ==
    Done => Elements(order) = IF start \in Nodes THEN Reachable(adj, start) ELSE {}

\* Each node is visited once, however many edges and cycles lead to it.
VisitsOnce == \A i, j \in DOMAIN order : order[i] = order[j] => i = j

\* Hops[k]: the nodes at most k edges away from the start.
HopsFrom(g, s) ==
    LET H[k \in Nat] == IF k = 0 THEN {s}
                        ELSE H[k - 1] \cup UNION {Neighbors(g, n) : n \in H[k - 1]}
    IN  H
Hops == HopsFrom(adj, start)

\* Nodes come in non-decreasing hop distance: whenever a node is visited, every
\* node nearer to the start was visited before it.
LevelByLevel ==
    \A i \in DOMAIN order : \A k \in 0 .. Len(order) :
        order[i] \notin Hops[k] => Hops[k] \subseteq Elements(SubSeq(order, 1, i))
=============================================================================
