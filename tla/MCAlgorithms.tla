---------------------------- MODULE MCAlgorithms ----------------------------
(***************************************************************************)
(* The algorithms for TLC.  A behaviour is one call of one of them, on any *)
(* graph of the bounds: the traversals on adjacency lists with loops and   *)
(* parallel edges, Dijkstra's on four nodes with cycles among the three    *)
(* beyond the start.                                                       *)
(*                                                                         *)
(* The traversals share their variables; `queue` is the stack of the       *)
(* depth-first one.  So VisitsReachable and VisitsOnce, which both modules *)
(* define alike, speak of either.                                          *)
(***************************************************************************)
EXTENDS BreadthFirstSearch, Dijkstra

VARIABLE algorithm

MCPairs == {<<0, 1>>, <<0, 2>>, <<0, 3>>, <<1, 2>>, <<2, 1>>, <<1, 3>>, <<2, 3>>, <<3, 1>>}
Unknown == 9

Dfs == INSTANCE DepthFirstSearch WITH stack <- queue

ASSUME DijkstraAssumption

mcvars == <<algorithm, vars, dijkstraVars>>

\* No traversal, and no search for a path.
NoTraversal ==
    /\ adj = [n \in Nodes |-> <<>>] /\ start = Unknown
    /\ visited = {} /\ queue = <<>> /\ order = <<>> /\ pending = <<>>
NoSearch ==
    /\ weights = [p \in Pairs |-> {}] /\ goal = Unknown /\ phase = "none"
    /\ distance = <<>> /\ predecessor = <<>> /\ heap = {} /\ current = <<>>
    /\ relaxing = {} /\ path = <<>>

\* Fewer graphs: the last node has one edge at most, and since from a start that
\* is no node no edge is looked at, one graph stands for all there.
Distinguished ==
    /\ 3 \in Nodes => Len(adj[3]) <= 1
    /\ start \in Nodes \/ adj = [n \in Nodes |-> <<>>]

MCInit ==
    \/ algorithm = "bfs" /\ Init /\ NoSearch /\ Distinguished
    \/ algorithm = "dfs" /\ Dfs!Init /\ NoSearch /\ Distinguished
    \/ algorithm = "dijkstra" /\ DijkstraInit /\ NoTraversal

MCNext ==
    /\ UNCHANGED algorithm
    /\ \/ algorithm = "bfs" /\ Next /\ UNCHANGED dijkstraVars
       \/ algorithm = "dfs" /\ Dfs!Next /\ UNCHANGED dijkstraVars
       \/ algorithm = "dijkstra" /\ DijkstraNext /\ UNCHANGED vars

\* The loops run on the caller's thread until they end.
MCSpec == MCInit /\ [][MCNext]_mcvars /\ WF_mcvars(MCNext)

-----------------------------------------------------------------------------
\* Breadth first, nodes come in the order of their distance; depth first, each
\* branch is followed to its end before the next.
VisitsInOrder ==
    /\ algorithm = "bfs" => LevelByLevel
    /\ algorithm = "dfs" => Dfs!BranchByBranch

\* Every call ends: cycles, loops and edges of weight zero keep none of them busy.
EveryCallEnds == <>(Done /\ phase \in {"found", "none"})

\* docs/08: the "stack holds at most V nodes".  TLC refutes it: a node is on the
\* stack once for each edge that was followed to it (Nodes = {0, 1, 2} and
\* MaxDegree = 3).
StackHoldsAtMostV == algorithm = "dfs" => Dfs!StackHoldsAtMostV
=============================================================================
