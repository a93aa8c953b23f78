--------------------------- MODULE LayeredDbStore ---------------------------
(***************************************************************************)
(* LayeredDb implements GraphStore.  The graph is what a replay of the log *)
(* would yield, whatever the cache, the engine and the indexes hold; a     *)
(* transaction stays open until its COMMIT_TXN is in the log or it has     *)
(* failed; and the promise stands while there is no damage.                *)
(***************************************************************************)
EXTENDS LayeredDb

Store == INSTANCE GraphStore WITH
    nodes  <- disk.nodes,
    edges  <- disk.edges,
    staged <- [t \in TxnIds |-> [status |-> txns[t].status, ops |-> txns[t].ops]],
    sound  <- damage = "none"

\* Every step of the database is a step of the graph store or leaves it as it
\* is: the stepwise deletion of a node, and above all the commit, whose upserts
\* and tombstones the replay applies in another order than they were staged.
ImplementsGraphStore == Store!StoreSpec
=============================================================================
