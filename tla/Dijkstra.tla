------------------------------ MODULE Dijkstra ------------------------------
(***************************************************************************)
(* Dijkstra::find_shortest_path and reconstruct_path.  One action per turn *)
(* of a loop: popping the heap, looking at one neighbour of the node being *)
(* settled, one step back along the predecessors.                          *)
(*                                                                         *)
(* The heap is a set: two entries for one node never have the same         *)
(* distance, since a node is pushed only when its distance decreases.  The *)
(* order in which the engine lists neighbours is left open.  Weights are   *)
(* natural numbers: the algorithm asks for non-negative ones.              *)
(***************************************************************************)
EXTENDS Integers, FiniteSets, Sequences, FiniteSetsExt

CONSTANTS
    Vertices,    \* node ids
    Pairs,       \* <<source, target>> that edges may connect
    WeightSets,  \* the sets of weights that parallel edges between a pair may have
    Start, Goals,
    Infinity     \* greater than the weight of any path

\* What an instance has to satisfy.
DijkstraAssumption ==
    /\ Vertices \subseteq Nat /\ IsFiniteSet(Vertices)
    /\ Pairs \subseteq Vertices \X Vertices
    /\ WeightSets \subseteq SUBSET Nat
    /\ Infinity \in Nat \ {0}
    /\ \A ws \in WeightSets : \A w \in ws : w * Cardinality(Vertices) < Infinity

VARIABLES
    weights, goal,   \* the engine's edges, and the argument
    phase,           \* "search", "walk", "found" or "none"
    distance, predecessor, heap,
    current, relaxing, \* the entry being settled, its edges still to be relaxed
    path

dijkstraVars == <<weights, goal, phase, distance, predecessor, heap, current, relaxing, path>>

Nobody == -1
Entry(d, n) == [distance |-> d, node |-> n]

\* The outgoing edges of n.
NeighborsOutgoing(n) ==
    UNION {{<<pair[2], w>> : w \in weights[pair]} : pair \in {p \in Pairs : p[1] = n}}

DijkstraInit ==
    /\ weights \in [Pairs -> WeightSets]
    /\ goal \in Goals
    /\ phase = IF Start \in Vertices /\ goal \in Vertices THEN "search" ELSE "none"
    /\ distance = [n \in Vertices |-> IF n = Start THEN 0 ELSE Infinity]
    /\ predecessor = [n \in Vertices |-> Nobody]
    /\ heap = {Entry(0, Start)}
    /\ current = Entry(0, Start)
    /\ relaxing = {}
    /\ path = <<>>

\* Mutant of Before: the heap is not reversed, and gives the farthest first.
After(e, f) == \/ e.distance > f.distance
               \/ e.distance = f.distance /\ e.node <= f.node

\* Reverse(HeapEntry): by distance, then by node id.
Before(e, f) == \/ e.distance < f.distance
                \/ e.distance = f.distance /\ e.node <= f.node

Popping(e) == /\ phase = "search" /\ relaxing = {} /\ e \in heap
              /\ \A f \in heap : Before(e, f)
              /\ heap' = heap \ {e}

Stale(e) == e.distance > distance[e.node]

PopGoal(e) ==
    /\ Popping(e) /\ e.node = goal
    /\ phase' = "walk"
    /\ current' = e
    /\ UNCHANGED <<weights, goal, distance, predecessor, relaxing, path>>

PopStale(e) ==
    /\ Popping(e) /\ e.node # goal /\ Stale(e)
    /\ UNCHANGED <<weights, goal, phase, distance, predecessor, current, relaxing, path>>

Settle(e) ==
    /\ Popping(e) /\ e.node # goal /\ ~Stale(e)
    /\ current' = e
    /\ relaxing' = NeighborsOutgoing(e.node)
    /\ UNCHANGED <<weights, goal, phase, distance, predecessor, path>>

\* Mutant of Relax: the predecessor is recorded only the first time.
RelaxKeepsFirst(edge) ==
    LET new == current.distance + edge[2]
    IN  /\ edge \in relaxing
        /\ relaxing' = relaxing \ {edge}
        /\ IF new < distance[edge[1]]
           THEN /\ distance' = [distance EXCEPT ![edge[1]] = new]
                /\ predecessor' = [predecessor EXCEPT ![edge[1]] =
                                       IF @ = Nobody THEN current.node ELSE @]
                /\ heap' = heap \cup {Entry(new, edge[1])}
           ELSE UNCHANGED <<distance, predecessor, heap>>
        /\ UNCHANGED <<weights, goal, phase, current, path>>

Relax(edge) ==
    LET new == current.distance + edge[2]
    IN  /\ edge \in relaxing
        /\ relaxing' = relaxing \ {edge}
        /\ IF new < distance[edge[1]]
           THEN /\ distance' = [distance EXCEPT ![edge[1]] = new]
                /\ predecessor' = [predecessor EXCEPT ![edge[1]] = current.node]
                /\ heap' = heap \cup {Entry(new, edge[1])}
           ELSE UNCHANGED <<distance, predecessor, heap>>
        /\ UNCHANGED <<weights, goal, phase, current, path>>

\* The heap is empty: no path.
Exhausted ==
    /\ phase = "search" /\ relaxing = {} /\ heap = {}
    /\ phase' = "none"
    /\ UNCHANGED <<weights, goal, distance, predecessor, heap, current, relaxing, path>>

\* reconstruct_path(): one node, from the goal back to the start.
Walk ==
    LET n == IF path = <<>> THEN goal ELSE predecessor[Head(path)]
    IN  /\ phase = "walk"
        /\ path' = <<n>> \o path
        /\ phase' = IF n = Start \/ predecessor[n] = Nobody THEN "found" ELSE "walk"
        /\ UNCHANGED <<weights, goal, distance, predecessor, heap, current, relaxing>>

DijkstraNext ==
    \/ \E e \in heap : PopGoal(e) \/ PopStale(e) \/ Settle(e)
    \/ \E edge \in relaxing : Relax(edge)
    \/ Exhausted \/ Walk

\* The loops run on the caller's thread until they end.
DijkstraSpec == DijkstraInit /\ [][DijkstraNext]_dijkstraVars /\ WF_dijkstraVars(DijkstraNext)

-----------------------------------------------------------------------------
(* The reference: LeastWithin[k][n] is the least weight of a walk of at    *)
(* most k edges from the start to n.                                       *)

NoEdge == [n \in Vertices |-> IF n = Start THEN 0 ELSE Infinity]

\* With one edge more than in `known`.
OneMore(known) ==
    [n \in Vertices |->
        Min({known[n]} \cup
            UNION {{known[p[1]] + w : w \in weights[p]} :
                   p \in {q \in Pairs : q[2] = n /\ known[q[1]] < Infinity}})]

LeastWithin ==
    LET L[k \in 0 .. Cardinality(Vertices) - 1] == IF k = 0 THEN NoEdge ELSE OneMore(L[k - 1])
    IN  L

LeastWeight == LeastWithin[Cardinality(Vertices) - 1]

DijkstraTypeOK ==
    /\ weights \in [Pairs -> WeightSets]
    /\ goal \in Goals
    /\ phase \in {"search", "walk", "found", "none"}
    /\ distance \in [Vertices -> 0 .. Infinity]
    /\ predecessor \in [Vertices -> Vertices \cup {Nobody}]
    /\ heap \subseteq [distance : 0 .. Infinity - 1, node : Vertices \cup {Start}]
    /\ current \in [distance : 0 .. Infinity - 1, node : Vertices \cup {Start}]
    /\ relaxing \subseteq Vertices \X Nat
    /\ path \in Seq(Vertices)

\* A node nearer than everything on the heap is settled: its distance is final,
\* although entries for it may have been pushed in any order.
NearerIsFinal ==
    (phase = "search" /\ relaxing = {}) =>
        \A n \in Vertices : (\A e \in heap : distance[n] < e.distance) =>
                             distance[n] = LeastWeight[n]

\* A path is found exactly when there is one, and its weight is the least; on
\* the way there, what NearerIsFinal says.
FindsLeastWeight ==
    /\ phase \in {"walk", "found"} => distance[goal] = LeastWeight[goal]
    /\ phase = "none" => goal \notin Vertices \/ Start \notin Vertices
                            \/ LeastWeight[goal] = Infinity
    /\ NearerIsFinal

\* The path returned goes from the start to the goal along edges, and their
\* weights add up to the weight returned with it.
PathHasItsWeight ==
    phase = "found" =>
        /\ Head(path) = Start /\ path[Len(path)] = goal
        /\ \A i \in 1 .. Len(path) - 1 :
              /\ <<path[i], path[i + 1]>> \in Pairs
              /\ \E w \in weights[<<path[i], path[i + 1]>>] :
                    distance[path[i + 1]] = distance[path[i]] + w
=============================================================================
