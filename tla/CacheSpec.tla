----------------------------- MODULE CacheSpec -----------------------------
(***************************************************************************)
(* What CachePort promises, as a specification: the cache holds copies of  *)
(* what was put and not invalidated, and may drop one entry of a full      *)
(* store to make room.  A read changes nothing that can be observed.  The  *)
(* two stores have capacities of their own; LayeredDb uses the same        *)
(* operators with one.                                                     *)
(***************************************************************************)
EXTENDS WalStorage

CONSTANTS NodeCapacity, EdgeCapacity

VARIABLE cache

NodeStore == INSTANCE CachePort WITH CacheCapacity <- NodeCapacity
EdgeStore == INSTANCE CachePort WITH CacheCapacity <- EdgeCapacity

Init == cache = NodeStore!EmptyCache

PutNode(id, node) == cache' \in NodeStore!PutNode(cache, id, node)
PutEdge(id, edge) == cache' \in EdgeStore!PutEdge(cache, id, edge)
InvalidateNode(id) == cache' = NodeStore!InvalidateNode(cache, id)
InvalidateEdge(id) == cache' = EdgeStore!InvalidateEdge(cache, id)
Clear == cache' = NodeStore!EmptyCache

Next ==
    \/ \E id \in NodeIds : InvalidateNode(id) \/ \E node \in NodeData : PutNode(id, node)
    \/ \E id \in EdgeIds : InvalidateEdge(id) \/ \E edge \in EdgeData : PutEdge(id, edge)
    \/ Clear

Spec == Init /\ [][Next]_cache
=============================================================================
