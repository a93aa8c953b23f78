-------------------------- MODULE LayeredDbClaims --------------------------
(***************************************************************************)
(* Statements the documentation and the comments make about the database   *)
(* without the qualifications LayeredDb's properties carry.  Each is false *)
(* of the code, and TLC's counterexample shows how.  ImplementsGraphStore, *)
(* NeverOverwritten and the exactness of the two indexes are refuted too,  *)
(* by callers, adapters and configurations that the runs leave out; the    *)
(* README says with which constants.                                       *)
(***************************************************************************)
EXTENDS LayeredDbStore

\* "The in-memory state (cache, engine, indexes) ... always reflect exactly what
\* the WAL says": when commit_transaction has returned, with an error and its
\* ROLLBACK_TXN in the log too, the engine holds the graph the log holds.
FailedCommitUndone ==
    Idle /\ ~disk.buf.open => engine.ends = disk.edges
                              /\ engine.outKeys = LiveNodes(disk)

\* "Once COMMIT_TXN is written, the data is durable": when commit_transaction
\* returns Ok, a replay finds every node the transaction has inserted and the
\* engine still holds.
CommittedIsDurable ==
    [][CommitFinish =>
         \A id \in StagedNodeIds(call.txn) \cap engine.outKeys :
             disk'.nodes[id] # Absent]_vars

\* "Crash mid-commit leaves partial writes ... On the next startup, those two
\* operations will be replayed": when the process dies in commit_transaction, the
\* database that is opened next has the nodes inserted so far.
CrashLeavesPartOfCommit ==
    [][CrashAndReopen /\ call.pc = "committing" =>
         \A i \in 1 .. call.k - 1 :
             Ops[i].kind = "InsertNode" /\ Ops[i].id \in engine.outKeys =>
                 disk'.nodes[Ops[i].id] # Absent]_vars

\* "A successful return from insert_node means the data is on disk": a replay
\* finds the node.
AcknowledgedIsDurable ==
    [][\A node \in NodeData : InsertNode(node) => disk'.nodes[gen.node] = node]_vars

\* "New IDs never collide with IDs that were assigned in a previous session":
\* an id the generator has given out it never gives out again.
IdsNeverReassigned ==
    [][gen'.node >= gen.node /\ gen'.edge >= gen.edge]_vars
=============================================================================
