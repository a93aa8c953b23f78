----------------------------- MODULE MCLruCache -----------------------------
(* Three nodes for two places, two edges for one.                          *)
EXTENDS LruCache

MCLabels == {"A", "B"}
MCNodeData == [label : MCLabels, fields : {{}}]
MCEdgesInUse == {[src |-> 0, tgt |-> 1]}
=============================================================================
