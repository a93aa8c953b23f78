-------------------------- MODULE DepthFirstSearch --------------------------
(***************************************************************************)
(* DepthFirstSearch::traverse.  The stack may hold a node several times;   *)
(* it is marked when it is popped, and skipped when popped again.          *)
(***************************************************************************)
EXTENDS GraphView, FiniteSets

VARIABLES
    adj, start,      \* the arguments
    visited, stack,  \* the top of the stack is its last element
    order,
    pending          \* neighbours of the last visited node still to be pushed

vars == <<adj, start, visited, stack, order, pending>>

Init ==
    /\ adj \in Graphs
    /\ start \in Starts
    /\ visited = {}
    /\ stack = IF start \in Nodes THEN <<start>> ELSE <<>>
    /\ order = <<>>
    /\ pending = <<>>

Top == stack[Len(stack)]
Popped == SubSeq(stack, 1, Len(stack) - 1)

\* Mutant of Skip: a duplicate is looked at and left on the stack.
SkipPeeks ==
    /\ pending = <<>> /\ stack # <<>> /\ Top \in visited
    /\ UNCHANGED vars

Skip ==
    /\ pending = <<>> /\ stack # <<>> /\ Top \in visited
    /\ stack' = Popped
    /\ UNCHANGED <<adj, start, visited, order, pending>>

\* Mutant of Visit: the check that skips duplicates is missing.
VisitAgain ==
    /\ pending = <<>> /\ stack # <<>>
    /\ visited' = visited \cup {Top}
    /\ order' = Append(order, Top)
    /\ stack' = Popped
    /\ pending' = adj[Top]
    /\ UNCHANGED <<adj, start>>

Visit ==
    /\ pending = <<>> /\ stack # <<>> /\ Top \notin visited
    /\ visited' = visited \cup {Top}
    /\ order' = Append(order, Top)
    /\ stack' = Popped
    /\ pending' = adj[Top]
    /\ UNCHANGED <<adj, start>>

Push ==
    /\ pending # <<>>
    /\ stack' = IF Head(pending) \in visited THEN stack ELSE Append(stack, Head(pending))
    /\ pending' = Tail(pending)
    /\ UNCHANGED <<adj, start, visited, order>>

Next == Skip \/ Visit \/ Push

\* The loop runs on the caller's thread until it ends.
Spec == Init /\ [][Next]_vars /\ WF_vars(Next)

Done == stack = <<>> /\ pending = <<>>

-----------------------------------------------------------------------------
TypeOK ==
    /\ adj \in [Nodes -> Seq(Nodes)]
    /\ start \in Starts
    /\ visited \subseteq Nodes
    /\ stack \in Seq(Nodes)
    /\ order \in Seq(Nodes)
    /\ pending \in Seq(Nodes)

\* The result is every reachable node and no other; nothing if the start is
\* not in the graph.
VisitsReachable ==
    Done => Elements(order) = IF start \in Nodes THEN Reachable(adj, start) ELSE {}

\* Each node is visited once, although the stack holds duplicates.
VisitsOnce == \A i, j \in DOMAIN order : order[i] = order[j] => i = j

\* Each branch is followed to exhaustion first: the next node is a neighbour of
\* the latest visited node that still has an unvisited neighbour.
BranchByBranch ==
    \A i \in 1 .. Len(order) - 1 :
        LET Unvisited(j) == Neighbors(adj, order[j]) \ Elements(SubSeq(order, 1, i))
            deepest == CHOOSE j \in 1 .. i :
                           Unvisited(j) # {} /\ \A k \in j + 1 .. i : Unvisited(k) = {}
        IN  order[i + 1] \in Unvisited(deepest)

\* docs/08: the "stack holds at most V nodes".  But it holds a node once for
\* each edge that was followed to it.
StackHoldsAtMostV == Len(stack) <= Cardinality(Nodes)
=============================================================================
