# A verification of AdGraphDb

AdGraphDb is an embedded graph database in Rust: nodes and edges in an
append-only log, an in-memory engine, cache and indexes rebuilt from it, and
transactions with a commit marker. This directory holds TLA+ modules that model
it, TLC configurations that check them, and proofs checked by TLAPS. Paths
below are relative to the crate (`src/database/layered.rs` and so on).

## 1. Inventory

| Component | State | Operations | What makes it correct |
|---|---|---|---|
| `LayeredGraphDatabase` (`database/layered.rs`) | owns all of the below, plus `writes_since_compact` | open, insert/get/delete of nodes and edges, compact, begin/commit/rollback, `on_write`, queries | between calls everything in memory describes the graph in the log; a crash at any point loses no acknowledged write and leaves no half-applied transaction |
| Transaction (`transaction/mod.rs`) | staged operations, its own id generator, `txn_id` | four staging methods, `into_operations`, `seed_generator_into` | the ids it gives out are nobody else's; the operations happen in order, all or none |
| Id generator (`core/id_generator.rs`) | two counters | `next_*`, `seed_from_*`, `clone` | always past every live id, never goes back |
| Binary log (`adapters/storage/binary_file.rs`) | the file and an append handle | append of 7 kinds of record, replay, compaction | replay is the fold of the records; uncommitted records are not applied |
| JSON log (`adapters/storage/json_file.rs`) | the same | 4 kinds of record, no markers | the same, without transactions |
| Engine (`adapters/engine/adjacency_list.rs`) | `outgoing`, `incoming`, `edge_endpoints` | insert/remove of nodes and edges, neighbours | the three maps agree with one another and with the log |
| Cache (`adapters/cache/`) | two maps and a generation counter, or nothing | get, put, invalidate, clear | never serves what the log does not have; never exceeds its capacity |
| Label index, property index (`adapters/index/`) | buckets of node ids | insert, remove, query | list exactly the live nodes; an index scan finds what a full scan finds |
| Configuration (`database/config.rs`) | constants | `should_index_field`, threshold | obeyed on every path |
| Planner and executor (`query/`) | none | plan, execute | every plan yields the answer of the full scan |
| Algorithms (`algorithms/`) | local queues and maps | BFS, DFS, Dijkstra | visit the reachable nodes once; a least path; termination |
| `SharedDatabase`, server (`concurrent/`, `server/`) | one mutex, one thread per connection | lock, query | no lost call, no deadlock; what a panic does to the others |
| Query languages (`query/languages/`) | none | lex, parse | a sentence is read as what it says; anything else is refused |
| Metrics (`database/metrics.rs`) | counters | increments on the query path | each query is counted once, under what it did |
| CLI (`bin/cli.rs`) | language, history, settings; in remote mode a connection | a line, `:run`, `:seed`, `:use`, ... | reads the response to what it asked; `:run` comes back; however often `:seed` fails or is cut short, no city comes twice |
| Runbook (`runbook.rs`) | the phase, a temporary file, load-test threads | run | the counts add up; it ends, and cleans up |

**How they interact.** All calls go through `LayeredGraphDatabase`, which is not
concurrent (`&mut self`; `SharedDatabase` wraps it in a mutex). A write appends
to the log first, then updates the cache, the engine and the indexes, then runs
`on_write`, which may compact the log and clear the cache. A read asks the cache
and then replays the log. `delete_node` and `commit_transaction` append several
records each, and a commit calls `delete_node` and `delete_edge`, and with them
`on_write`, from inside its loop. A transaction is an object in the caller's
hands: it shares nothing with the database but the ids, which it takes from a
copy of the generator. A query comes as text, over a socket or from a prompt,
under the mutex; it is parsed, planned against the statistics of the indexes, and
executed by scans that count themselves. BFS, DFS and Dijkstra read the engine.

**What is hard.** A crash or a failing append between two records of one call; a
compaction in the middle of a commit; a log that ends inside a transaction when
it is opened; several generators in use at once; index entries that can only be
removed if the node can still be read; upserts and tombstones of a transaction
that the replay reorders; three ways to open and feed the property index. In the
file: a torn record, a missing header, a damaged length, a compaction that stops
half-way. Around it: plans that must not change an answer, responses framed
in-band, a language that two ends of a connection keep separately, a panic under
the lock, heap entries that went stale, lexers that split the same characters
differently.
`PROJECT.json` lists these, and the rest, as hazards at their lines.

## 2. Modules

```
The database                                The file
  WalStorage                                  Loop
  AdjacencyListEngine                         RecordCodec
  SecondaryIndexes                              WalFile            -> MCWalFile
  CachePort                                       WalFile_proofs
    LayeredDb                               The cache
      LayeredDbStore  = GraphStore            CacheSpec            the port's promise
        LayeredDb_proofs                        LruCache           -> MCLruCache
        LayeredDbClaims                           LruCache_proofs
          MCLayeredDb                       Algorithms
Queries                                       GraphView
  PropertyFilter                                BreadthFirstSearch, DepthFirstSearch
    PropertyIndex, QueryPlanner                 Dijkstra
      QueryExecution -> MCQueryExecution          MCAlgorithms
        QueryExecution_proofs                       Algorithms_proofs
  QueryText                                 Threads and tools
    SimpleQuery -> MCSimpleQuery \            SharedDatabase
    CypherLite  -> MCCypherLite   > MCParsers     GraphServer, GraphServer_proofs
                   (MCQueries)   /                Runbook  \
                                                  Repl      > MCTools, Tools_proofs
```

What a module computes over a list or a bounded number of steps (the graph after
some operations, the nodes within so many edges, the least weight within so many
edges, the filtered and the rebuilt lists) is a recursive *function*; no operator
is recursive. The loops of the codec and of the replay are instances of **Loop**:
where a loop starts and what a turn of it does give the function from the number
of turns to the state after them, and the lemma of Loop says that there is such
a function, so that what a loop leaves can be proved turn by turn.

**WalStorage.** No adapter keeps anything between calls but the file, and every
read replays it from the start. Replay goes record by record and remembers only
the live maps and the transaction buffer. A log is therefore represented by what
replay knows at its end, `[nodes, edges, buf]`, and appending a record is
applying that record's arm of `replay()` to it. So `SaveNode` puts the node in
the buffer if there is one, `CommitTxn` applies upserts and then tombstones if
the ids agree, and `CompactLog` forgets an open buffer, since the compacted file
has no BEGIN_TXN. `Markers` chooses the adapter: `JsonFileStorage` inherits the
no-op marker methods of `StoragePort`.

**AdjacencyListEngine, SecondaryIndexes, CachePort** are functions on the
components' states. The engine's three maps are kept apart, as in the code; a
neighbour list becomes a set. The label index keeps a count per label and id,
because `insert` pushes without looking and `remove` takes all occurrences. The
property index keeps which fields it knows (a field it knows is answered by the
index alone) and which nodes are entered under each. The cache is the port, not
the LRU adapter: a put into a full cache may evict any entry. Capacity 0 is
`NoCache`.

**LayeredDb.** One variable per field of the struct, one action per call that
appends at most one record. `delete_node` and `commit_transaction` are chains of
actions, one append each, threaded by `call`: that is where a crash
(`CrashAndReopen`) or a failing append (`DeleteNodeFails*`, `CommitFails`,
`CommitStartFails`) can strike. Everything the code does after the append and
before the next one is in the same action, `on_write` with its possible
compaction included; nothing observes the state in between. Crashing discards
everything but `disk` and rebuilds memory as `open_with_config` does.

| Code | Actions |
|---|---|
| `insert_node`, `insert_edge` | `InsertNode`, `InsertEdge`; `...Fails` when the append fails (the id is spent) |
| `delete_edge` | `DirectDeleteEdge` |
| `delete_node` | `DirectDeleteNode`, `DeleteIncidentEdge` per edge, `DeleteNodeFinish`; `DeleteNodeFailsEarly`, `DeleteNodeFailsLate` |
| `get_node`, `get_edge`, `compact` | `GetNode`, `GetEdge`, `Compact` |
| `begin_transaction`, staging, `rollback_transaction` | `BeginTransaction`, `Stage...`, `RollbackTransaction` |
| `commit_transaction` | `CommitStart`, one of `CommitInsertNode`, `CommitInsertEdge`, `CommitRejectEdge`, `CommitDeleteNode`, `CommitDeleteEdge` per operation, `CommitFinish`; `CommitStartFails`, `CommitFails` |
| death of the process and `open_with_config` | `CrashAndReopen` |

*Damage.* Some error paths return with part of their work done. The history
variable `damage` records it: `"memory"` when this process may see another graph
than the log (cured by reopening), `"log"` when a record was then appended on
the strength of that memory, or was buffered behind an unfinished BEGIN_TXN, or
fell to a compaction inside a commit (not cured). The properties that relate
memory and log are stated for states without damage; section 5
shows what the damage is. `damage` never enables or disables an action.

*The caller.* Two constants say what the caller does. `ExclusiveTxns`: ids are
allocated through one handle at a time (no direct insert and no second
`begin_transaction` while a transaction is open). `GuessedIds`: deletions are
staged for ids the transaction was not given. The passing runs assume a caller
that does the first and not the second, and without these
assumptions `NeverOverwritten` and `ImplementsGraphStore` fail (section 5).

**GraphStore and LayeredDbStore.** GraphStore is what
`docs/17_concurrency_and_safety.md` promises of a log with markers: nodes and edges
change one at a time, and a commit applies the staged operations in their order, in
one step, or not at all; a crash loses the open transactions only. (`docs/14`,
`docs/10` and the comment in `transaction/mod.rs` promise less, that a crash leaves
part of a commit; that is the JSON log, and section 5 has the run.) Its `sound` flag ends the promise. Under the mapping `nodes <- disk.nodes`,
`edges <- disk.edges`, `sound <- damage = "none"`, every step of LayeredDb is a
step of GraphStore or a stutter: `delete_node` is a sequence of `DropEdge` and a
`DropNode`, and a commit stutters until `CommitFinish`.

**RecordCodec and WalFile** model the file that WalStorage takes for granted.
The file is a sequence of cells, one per primitive that is read or written in one
piece and one per byte of a string. A cell holds a number of any size: how u32
and u64 are cut into bytes is left out. `Payload` is `encode_*`, with the fields
in any order, as a HashMap gives them; `decode_record` is the reader, with the
error of each `read_*`; the checksum is Adler-32 over the cells. WalFile has one
action per thing that can be interrupted: creating the file, writing its header,
appending a record (or a prefix of one), each write of a compaction, its rename,
its reopening. `handle` says which file the writer has: the one at the path or one
without a name. `log` remembers the records whose append returned Ok, and `damage`
which of the hazards has struck: `"torn"`, an append that stopped half-way was
followed by another; `"headless"`, a file without its header was appended to;
`"orphan"`, a record went to the file that the rename unlinked; `"corrupt"`, a cell
changed. A record of the JSON file is a line; JSON has no number for NaN and writes
`null`. `setup` is chosen once: the format, the records that a
caller has, and the bounds.

**LruCache** is the adapter with its two maps and one generation counter;
**CacheSpec** is CachePort as a specification. `Values` forgets the generations,
and `LruCache` implements `CacheSpec` under it.

**GraphView, BreadthFirstSearch, DepthFirstSearch, Dijkstra.** A graph is any
function from nodes to lists of neighbours (duplicates, loops). One action per
turn of a loop, the inner ones included. In Dijkstra the heap is a set of
`[distance, node]`, whose order is `HeapEntry::cmp`; which of two equal entries
comes first is left open. Weights are naturals; `reconstruct_path` is an action
per step back.

**PropertyFilter, PropertyIndex, QueryPlanner, QueryExecution.** A value is a type
and a number; floats may be NaN and infinite, and `compare_f64` has its EPSILON.
PropertyIndex is the typed sub-indexes with buckets. QueryPlanner is
`plan_match_nodes`, costs included. QueryExecution puts them into the database's
insert, delete, reopen and query entry points, with the statistics they read and
the counters they increment.

**QueryText, SimpleQuery, CypherLite.** A character is one where the lexer tells
it from the others; a run of letters is one symbol. Lexing is one step, and the
parsers are a step per method, with `pos` as in the code. `result` is the
QueryCommand, an error, or the panic at a NodeRef above `u64::MAX`. MCQueries
builds sentences and what each means from the grammar in the docs, and damages
them; so the meaning a text is compared with is not computed by the parser.

**SharedDatabase, GraphServer.** SharedDatabase is the mutex: `holder`,
`poisoned`, and two counters of queries begun and ended. GraphServer is
`handle_connection` line by line for any number of threads, the two streams, and
the clients: the CLI in remote mode (`run_remote`), which mirrors the server's
language in its prompt and reads until END, and clients that write lines
themselves and pipeline.

**Repl** is the embedded REPL: the lines of the user and, on a stack, of the
files that `:run` reads. `:seed` is the one command that writes, and goes insert by
insert: each may fail, a city's failure ends the call and a rail's does not, and the
process may be killed between any two. What it writes is kept three times: in memory
(`known`), in what a replay of the file finds (`log`), and behind a torn record, where
a replay may or may not find it (`behind`). `tail` says how the file ends. A new
session replays the file, or cannot, and gives ids out again from behind those it
found. **Runbook** is `run()` with its phases, its load-test
threads on SharedDatabase and its temporary file.

**The MC modules** that hold several instances (MCAlgorithms, MCQueryExecution,
MCParsers, MCTools) choose one before the first step, by a variable that never
changes, and then behave as that instance. Their properties are those of the
instances, each under its name, and are stated there. WalFile chooses its `setup`
itself, and MCWalFile says which there are.

| Code | Module | Actions |
|---|---|---|
| `BinaryFileStorage::open`, `append_bytes`, `compact` | WalFile | `OpenExisting`, `OpenCreates`, `OpenWritesHeader`, `OpenFails`; `AppendRecord`, `AppendStops`; `CompactStart`, `CompactWrites`, `CompactRenames`, `CompactReopens` and the failures; `Crash`, `Corrupt` |
| `LruCache` | LruCache | `GetNode`, `PutNode`, `PutNodeEvicts`, `InvalidateNode`, the same of edges, `Clear` |
| `traverse`, `find_shortest_path` | the searches | `Visit`, `Examine`; `Skip`, `Visit`, `Push`; `PopGoal`, `PopStale`, `Settle`, `Relax`, `Walk` |
| `insert_*`, `delete_*`, open, `execute_query` | QueryExecution | `InsertNode`, `DeleteNode`, `InsertEdge`, `DeleteEdge`, `Reopen`; `MatchNodes`, `MatchEdges`, `OtherQuery`, `ParseFails` |
| `handle_connection`, `run_query` | GraphServer | the actions under `Serve` |
| `run_remote`, `send_and_read` | GraphServer | those under `Ask`, and `ReadReply` |
| `run_embedded`, `run_file_embedded` | Repl | `Enter`, `NextInFile`, `EndOfFile`, `EndOfInput`, `Killed`, `Restart`; a line's effect is `Handle` |
| `seed_sample_graph` | Repl | `Seed` begins it; `SeedsCity`, `SeedingFails`, `SeedsRail` |
| `run`, `concurrent_load_test` | Runbook | `Open`, `InsertCity`, ..., `QueryStarts`, `QueryEnds`, `Join`, `Finish`, `Panics` |

## 3. Runs

Runs that pass. Every property has a mutant, a plausible bug in one definition
(defined just before it and marked so) under which TLC finds it violated.

| Run | Instance | Checks |
|---|---|---|
| `direct` | 2 nodes, 2 edges, 2 labels, 2 fields of which 1 indexed, cache of 1, compaction after 2 writes, 1 fault, 1 crash; 160 000 states | `EngineMirrorsLog`, `PropertyIndexExact`, `CacheCoherent` |
| `commit` | 2 nodes, 1 edge, a transaction of up to 3 operations per process, 1 crash; 784 000 states | `LabelIndexExact`, `ReferentialIntegrity`, `CommitAtomic`, `ImplementsGraphStore` |
| `commit_faults` | 2 transactions of up to 2 operations, 1 fault; 483 000 states | `TypeOK`, `GeneratorAhead`, `IdsRetired`, `NeverOverwritten` |
| `json_commit` | no markers, cache of 1, compaction after 2 writes, 1 transaction of 2 operations, 1 fault, 1 crash; 156 000 states | `EngineMirrorsLog`, `CacheCoherent`, `CallsReturn` |
| `wal` | binary: 3 records of 8 kinds, 1 fault, 1 crash, 1 compaction; with a long label: 2 records, 2 faults, 1 crash; JSON: 3 of 5 kinds, 1 fault, 1 crash, 2 compactions; corrupted: 3 records, 1 fault, 1 compaction, 1 changed cell; codec: one record of every shape; 1.1 million states | `ReplayIsLog`, `CutReplaysToPrefix`, `NothingInvented`, `CompactionKeepsGraph` |
| `algorithms` | 4 nodes, out-degree up to 2 (1 for the last), a start that does not exist; Dijkstra: 8 pairs, parallel edges, weights 0, 1, 4; 1.1 million states | `VisitsReachable`, `VisitsOnce`, `VisitsInOrder`, `FindsLeastWeight`, `PathHasItsWeight`, `EveryCallEnds` |
| `lru` | 3 nodes for 2 places, 2 edges for 1, 6 accesses | `StampsDistinct`, `EvictsLeastRecentlyUsed`, `ImplementsPort` |
| `query` | planning: 3 nodes, 6 contents, every filter of up to 2 conditions in every state; counting: 2 nodes, 2 contents, 1 edge, 2 queries; 34 000 states | `AnswerIsFullScan`, `BucketsExact`, `EachMatchCountedOnce` |
| `server` | a CLI and a raw client, 2 requests each, every outcome; 441 000 states | `OneQueryAtATime`, `ReplyIsForRequest`, `RunsInTheLanguageMeant`, `NoOtherHangup`, `EveryRequestEnds` |
| `parsers` | sentences of both languages with up to 2 conditions, and each with one word lost, doubled, exchanged or replaced; 134 000 states | `ParsesAsMeant`, `SaysWhatWasRead` |
| `tools` | REPL: 3 sessions of 3 lines, a file that runs another, 3 cities and 2 rails, 2 failing writes, both formats of the log; runbook: 0 or 2 cities, 0, 1 or 3 people, 0 or 1 benchmark runs, 3 threads of 2 queries, 1 fault; 1.0 million states | `SampleGraphIntact`, `LoadTestAddsUp`, `EachComesBack` |

One run expects a violation: `compact_in_commit` (section 5).

*Why the bounds are enough.* In the database, two nodes and an edge give every
shape that the code distinguishes: a self-loop, an edge in each direction, a
missing endpoint, a node with and without incident edges. Two edges (`direct`)
add a node whose deletion takes several tombstones, with a crash between them.
Three operations are the shortest transaction that inserts two nodes and an edge
between them, or inserts, connects and deletes. A cache of 1 evicts at every
second put. A threshold of 2 puts the compaction after, and inside, a commit. One
fault and one crash, in either order and at any point, meet every error path.

In the file, three records are a record, the one that is damaged, and one behind
it; with markers, an upsert between BEGIN and COMMIT. One torn append, one crash
and one compaction come in every order. The shapes of records (`codec`) are
checked one at a time, since decoding a record does not depend on the others.

Four nodes are the smallest graph on which the two traversals differ in order, a
node is queued over two paths of different length, and a stale heap entry is
popped after one that improved it. An out-degree of two includes loops, parallel
edges and diamonds. Three nodes for two places make an eviction choose, and six
accesses fill the cache, touch an entry, and evict twice. Three nodes suffice for
the planner to prefer each of its three strategies: costs of one to three, with
ties. Two connections with two requests each give a request behind every
possible remainder of the one before, and a second user of the lock. Two
conditions are the fewest that can overwrite each other. Three threads give a
join that waits while another works.

In the REPL, three lines are a `:seed` that fails, a `:compact` or another one, and a
`:seed` again; three sessions are one that fails, one that finds what it left, and one
that reads what both wrote. Three cities give one to fail at, one before it and one
behind it, and two rails one that fails before another. `FailedAppends` says what a
failing append leaves in the file: nothing, or a part of the record. A whole JSON
record without its line feed is left to section 5.

The bounds are the constants that begin with `Max`, and `Nodes`, `Cities`,
`People`, `Runs`: each limits a guard or a choice and stands for no limit of the
code. `MaxDepth` bounds the nesting of `:run`, which the code leaves to the stack
of the process. Deadlock is not checked, as the bounded instances stop when what
they may do is used up.

## 4. Fairness

- `CallsReturn` (LayeredDb): weak fairness of `CallStep`, the next step of a call
  already begun. The call runs on the caller's thread and waits for nothing.
- `EveryCallEnds` (algorithms): weak fairness of the next step of the loop, for
  the same reason.
- `EveryRequestEnds` (GraphServer): weak fairness of each handler thread and of
  each client's reading. `std::sync::Mutex` is not fair; a thread may lose the
  race for it, but to others that ask only `MaxRequests` times. No fairness of
  clients' asking: a client may fall silent or leave at any time.
- `EachComesBack` (tools): weak fairness of the runbook's steps, whose threads all
  run on their own, and of the REPL's steps inside a file or a `:seed`. None of the
  user's entering a line.

No fairness is assumed of crashes, faults, evictions or corruptions.

## 5. Statements of the documentation that do not hold

Each is quoted, with its line and the code that contradicts it, under `findings`
in `PROJECT.json`. `compact_in_commit` is a run; TLC finds the others when the
configuration named here checks, in place of its own properties, the statement
named, with the constants changed as shown.

| Statement | Configuration | What happens |
|---|---|---|
| `CommittedIsDurable` | `CompactInCommit.cfg` | a deletion inside a commit triggers the compaction, which drops the open transaction; the commit returns Ok and its nodes are not in the log |
| `FailedCommitUndone` | `Commit.cfg`, `MaxOps = 2`, `MaxCrashes = 0` | a commit inserts a node, is rejected at an edge, writes ROLLBACK_TXN; the node stays in cache, engine and indexes |
| `AcknowledgedIsDurable` | `Commit.cfg`, `MaxOps = 1` | the log ends inside a transaction; the process reopens it, inserts a node, returns Ok, and a replay puts the node in the dead transaction's buffer |
| `CrashLeavesPartOfCommit` (PROPERTY) | `Commit.cfg` | a crash after the first insert of a commit: the replay discards the unfinished transaction (it holds with `Markers = FALSE`, `MaxOps = 2`) |
| `IdsNeverReassigned` | `Commit.cfg`, `MaxTxns = 0`, `MaxOps = 0` | the node with the highest id is deleted, the process restarts, the id is handed out again |
| `NeverOverwritten` | `Commit.cfg`, `ExclusiveTxns = FALSE`, `MaxTxns = 2`, `MaxOps = 1`, `MaxCrashes = 0`, two labels, fields and `TwoNodeKinds` | two open transactions stage nodes under one id |
| `LabelIndexExact` | `Commit.cfg`, `CacheCapacity = 0`, `MaxOps = 2`, `MaxCrashes = 0` | a transaction inserts and deletes a node with NoCache: the label index keeps it |
| `PropertyIndexExact` | `Commit.cfg`, `IndexedFields = {}`, `MaxOps = 1`, `MaxCrashes = 0` | with indexing off, a commit makes the index answer for a field with the committed node alone |
| `ImplementsGraphStore` | `Commit.cfg`, `GuessedIds = TRUE`, `MaxOps = 2`, `MaxCrashes = 0` | delete of an id, then insert of the same id, in one transaction: the log has no node, memory has |
| `AppendIsSafeAfterTear` | `Wal.cfg` | a record cut short stays in the file, and the next one completes it |
| `AppendIsSafeAfterOpen` | `Wal.cfg` | a file without its header is appended to, and can never be replayed |
| `AppendIsSafeAfterCompact` | `Wal.cfg` | the writer stays on the file that the rename unlinked |
| `MismatchSkipsTheRecord` | `Wal.cfg` | a damaged length costs intact records |
| `RecoveredAfterTear` | `Wal.cfg` | a JSON log with a cut line cannot be read |
| `DeletedNodeTakesItsEdges` | `Wal.cfg` | an edge is written, then the tombstone of its source: the replay keeps the edge |
| (a NaN in the JSON log) | `RecordCodec`, `JsonValue` | `null` is written and cannot be read back as a float |
| `StackHoldsAtMostV` | `Algorithms.cfg`, `Nodes = {0, 1, 2}`, `MaxDegree = 3` | a node is on the stack once per edge to it |
| `AnswerIsFullScan` | `Query.cfg`, `Mixed = TRUE` | integers and floats, NaN, and `!=` compare differently in an index |
| `TiesPreferIndexes` | `Query.cfg` | the full scan wins a tie |
| `LargeScansRefused` | `Query.cfg`, `MaxFullScanNodes = 1` | no query looks at the limit |
| `ReplyIsForRequest` | `Server.cfg`, `Outcomes = {"ok", "split"}` | a result with a line `---END---` in it puts later responses out of step |
| `PanicStaysLocal` | `Server.cfg` | the poisoned mutex ends every other connection at its next query |
| `AllConditionsHold` | `Parsers.cfg`, `Repeats = TRUE` | a second condition on label or weight overwrites the first |
| `SentencesAccepted` | `Parsers.cfg`, `LabelOps = {"=", "!="}` | only `=` may follow `label` |
| `WholeTextRead` | `Parsers.cfg`, `Trailing = TRUE` | what follows a command is ignored |
| `NegativeNumbersToo` | `Parsers.cfg`, `Negative = TRUE` | CypherLite refuses a negative number |
| `LexErrorSurfaces` | `Parsers.cfg` | a lexical error is dropped, and an empty query reported |
| `ExplainPlansOnly` (PROPERTY) | `Tools.cfg` | `:explain` executes |
| `SampleGraphIntact` | `Tools.cfg`, `FailedAppends = {"line"}` | an insert fails at its line feed, `:compact` keeps its record, `:seed` inserts the city again |
| `QuitExits` | `Tools.cfg` | `:quit` in a file ends the file |
| `CleansUp` | `Tools.cfg` | 0 benchmark runs divide by zero; the file stays |
| `KnowsNextTwo` | `Tools.cfg`, `People = {5}` | the offsets are 1 and 3 |

## 6. Proofs

TLAPS proves these for every value of the constants that satisfies the modules'
assumptions. Most of those give the parameters their types and nothing else; two
say that a set is finite, as it is in a program: the threads of the load test and
the nodes of Dijkstra's graph. `SetupsAssumption` says that the records of a setup
are records: finitely many properties, each key once, values of the five types. A theorem that assumes more names it, and each such
assumption is named below with what goes wrong without it.

**LayeredDb_proofs**
- `TypeCorrect`: inductive as it stands. One lemma per operator of the component
  modules says that it returns a value of its type; one per group of actions puts
  them together.
- `GeneratorStaysAhead`: not inductive, as COMMIT_TXN makes buffered upserts live.
  `GeneratorInv` adds that during a commit, with markers, the ids in the buffer
  are below the generator too: BEGIN_TXN starts an empty buffer and every
  operation seeds the generator in the step that appends it.
- `CommitIsAtomic`, assuming `Markers` and `~AutoCompact`: from the invariant
  `InsideBuffer` and the lemma that a record appended inside a buffer leaves the
  live maps alone. `compact_in_commit` is the counterexample without
  `~AutoCompact`.
- `IdsStayRetired`, for any caller. `CommitInv`: the transaction being committed
  is open, and the operations before the current one have seeded the generator, so
  that all have when it ends.
- `NothingOverwritten`, assuming `ExclusiveTxns`. `HandleInv`: the ids a
  transaction has given out increase along its operations and are below its own
  generator. `ExclusiveInv`: at most one transaction is open, and what it has not
  applied yet has ids that the database's generator has still to reach.
  `BufferNewInv`: a buffer inserts no id that is live. Section 5 has the
  counterexample without the assumption.

Of the same module, about the graph in memory and in the log. The caller is
`Careful`: `ExclusiveTxns`, and with markers no `GuessedIds`.

| Theorem | Assumes | The invariant it needs |
|---|---|---|
| `EngineStaysInStep` | `Careful` | `EngineInv`: the three maps agree, and are the graph *seen*; while a `delete_node` is under way the engine has its edges still |
| `NoDanglingEdges` | `Careful` | `EndpointsInv`, from the same |
| `CacheStaysCoherent` | `Careful` | `CacheInv`: an entry is what is seen, or absent |
| `LabelIndexStaysExact` | `Careful`, `Findable` | `LabelInv`, and `FoundInv`: what is seen is in the log or in the cache, where `delete_node` looks for it |
| `PropertyIndexStaysExact` | `Careful`, `Findable`, `AllIndexed` | `PropertyInv` |
| `ImplementsStore` | `Careful`, `Markers` | `ReplayInv`: what is seen before the k-th operation of a commit is what GraphStore has after k - 1 |

*The graph seen* (`SeenNodes`, `SeenEdges`) is what the log holds, and during a
commit with markers what it will hold once its buffer is applied: that is what
memory follows, step by step. Every step of LayeredDb is shown to have one of a
few effects on it (`StepEffect`: a node or an edge more, one less, none), and each
invariant is proved per effect and not per action. For the effects to be these,
the buffer must be the one the commit opened (`BufferInv`), no operation still to
come may insert what the buffer has a tombstone for, since replay applies
tombstones last (`SparedInv`), and an edge of the engine must be one the generator
has passed (`IncidentInv`).

`Findable` and `AllIndexed` are not in the code's documentation; the proofs ask
for them, and section 5 has the run that refutes each property without its
assumption. `Findable`: no transactions, no markers, or a cache with room for
every node; otherwise a commit that deletes a node it inserted may not find it and
leaves its index entries. `AllIndexed`: no transactions, or every field is
indexed; a commit indexes all fields whatever the configuration says. Without
`~GuessedIds`, `ImplementsStore` fails. Every configuration that checks one of
these properties satisfies the assumptions of its theorem.

`ImplementsStore` is a step simulation: a step outside a commit changes `disk` as
GraphStore's action does, one inside a commit stutters, and `CommitFinish` is
GraphStore's commit because `ReplayInv` holds with k past the last operation.

**GraphServer_proofs**, for any number of clients of either kind.
- `TypeCorrect`, with the types of the lines in the streams (`Types`).
- `QueriesAreSerial`: from `Guarded`, the guard is held exactly by the thread that
  executes, and what that thread saw when it took it is still what is there.
- `HangsUpForCause`: a thread closes after `:quit`, after its client has left, or
  when the mutex is poisoned.
- `RepliesMatch` and `LanguageIsTheUsers`, assuming that no outcome is `"split"`.
  `Protocol` relates, per connection, what is in the two streams, what the thread
  is doing, and what the client waits for: at most one request is on its way,
  whose response will be the next to be read. `Server.cfg` with `"split"` is the
  counterexample without the assumption.

**Algorithms_proofs**, of the searches, for every graph and start. The two
traversals share one account of reachability: the reachable nodes are the least set
with the start that is closed under edges, and `Hops[k]` those within k edges.
- Types, `...VisitsOnce`, `...VisitsReachable`: a visited node's neighbours are
  visited, waiting, or still to be examined, everything seen is reachable, and
  `order` lists the visited without repetition (`BfsInv`, `DfsInv`).
- `BfsLevelByLevel`: the nodes are discovered in the order of their levels, and
  none is more than a level beyond the last visited (`BfsOrder`).
- `DfsBranchByBranch`: the stack holds the unvisited neighbours of the visited
  nodes, those of later ones on top (`DfsOrder`, `Pushed`).
- `VisitsComeInOrder`: both of the last, of MCAlgorithms' own specification, which
  runs one of the three searches: the invariant of each, as long as it is the one
  that runs.

The theorems about Dijkstra's search are for every finite graph with natural
weights below the sentinel (`DijkstraAssumption`): `DijkstraTypeCorrect`,
`LeastWeightIsFound`, `NearerStaysFinal`, `PathAddsUp`. A node is *settled* when its
entry has left the heap and its edges are being relaxed, or have been. `SearchInv`:
settled distances are at most the current one and those on the heap at least; a
settled node's edges are relaxed or pending; and with k nodes settled, no walk of k
edges is lighter than the distance of its end, so that all walks are accounted for
when the goal is popped. `BackInv`: from a node's predecessor leads an edge to it
that weighs the difference of their distances. That the walk back ends is
`EveryCallEnds`, which TLC checks. A negative weight would break the first of these,
and the code asks its callers to have none.

**Loop**: the lemma `StateAt`, that the recursion of a loop has a solution, whatever a turn
does. A list of the first m states exists for every m, or there would be a least m
without one; two lists agree where both go, or there would be a least place where
they do not; the last elements of the lists are the function.

**WalFile_proofs**, for any records of the types that the format stores.
- `CodecRoundTrip`: what `encode_*` writes, `decode_record` reads, and it stops
  behind it, whatever the record holds and in whatever order the properties come
  from the HashMap. From one lemma per `read_*`, and, of the properties, that k
  turns of the reading loop find what k turns of the writing loop wrote. They may
  come in any order because no two have the same key (`Orders`).
- `LineRoundTrip`: the same of a line of the JSON log.
- `ReplayOfLaid`: a file that is `Laid` out as a header and records, possibly with
  the beginning of one more, replays to the fold of the whole ones. `Laid` gives the
  places where they end; one turn of the replay goes from each to the next, and at
  the beginning of a record that is cut, no turn changes the graph.
- `ReplayIsLogAlways`: from `IInv`, which is `TypeOK` and three more. `CallsInOrder`:
  which call can be under way with which handle. `FileSound`: short of damage, the
  file is laid out with the records of `log` and, if `torn`, a part of one more, or
  ends before its header does and `log` is empty (`Sound`). `TmpSound`: the
  temporary file is laid out with those that the compaction has written, and these
  with those it has still to write are the live records. The property alone is not
  inductive: it does not say where the next record would go.
- `CompactionKeepsGraphAlways`, of every log, damaged ones too. `GraphInv`: a live
  node or edge of the graph that was read is either in the temporary file, as it was,
  or still to be written, and no transaction is open in that file, so that the order
  of the HashMap does not matter (`WritesGraph`). That a record of that
  graph can be read back needs a fact about damaged files: whatever cells a file
  holds, what the decoder accepts of them is a record, so that replay finds a graph
  that can be written (`TypedReplay`).
- `CutReplaysToPrefixAlways`, at each place where a file can be cut: from `FileSound`
  and `ReplayOfLaid`, since the whole records that are left are those of a shorter
  file, and the size of a record does not depend on the order in which its
  properties are written (`PropertiesSize`).

Two of the properties speak of `QuietTexts`: no text that a caller writes holds a
character with the number of a record type (1 to 7, control characters). Where
`write_all` stops inside a text, decoding fails at the text's length, and replay goes
on behind the length, inside the text: it takes the next bytes for a checksum and,
as that does not agree, the one after them for the type of a record. Without the
assumption a piece of a text could be replayed as a record. A file that was not cut
needs no such assumption.

**QueryExecution_proofs**, for all contents, filters, fields and configurations.
- `MatchesAreCounted`: the property with the types of the counters (`CountInv`),
  and that every plan of a MATCH NODE is one of three (`NodePlanKind`).
- `BucketsStayExact`: `IndexInv`, each id is in the bucket of its value and in no
  other, no bucket is empty, ids in use are below the next one, and the same of
  labels; `Reopen` rebuilds them from the log in whatever order it lists the
  nodes.
- `PlansDoNotMatter`, assuming `ComparisonsAgree`: on the values and conditions in
  use, what the index takes for a condition (`IndexTakes`) is what
  `compare_values` says. A scan of the index can stand for a full scan only where
  they agree. They do not where integers meet floats, on NaN and on a float's
  `!=`; `Query.cfg` with `Mixed = TRUE` is the counterexample without it, and
  MCQueryExecution asserts it for the instance that `Query.cfg` checks.
- `FloatFreePlansDoNotMatter`: it holds wherever an indexed field and what is
  asked of it are no floats.

**LruCache_proofs**
- `StaysWithinCapacity` and `StampsAreDistinct`, from `CacheInv`: both together,
  with the types of the entries and every stamp below the counter.
- `EvictsTheLeastRecentlyUsed`: `UsesInv`, the entries of a store in the order of
  their stamps are those of the history of uses.
- `LruImplementsPort`: every step is, on the values without their generations, a
  step of CacheSpec or none.

**Tools_proofs**
- `LoadAddsUp`: `LoadInv` counts the turns of the threads as the set of pairs of a
  thread and a number, whose cardinality a step changes by one.
- `SeedLeavesSample`, assuming `NoStrayLine`, that a failing append leaves no whole
  record: in any number of sessions, with any lines, files, failures and kills, the
  database holds a part of the sample graph, each city and rail once and each rail
  between its cities. `SampleInv` has three parts. Memory holds a part of the sample
  with its ids below the generator (`PartOfSample`); a call of `:seed` under way has
  inserted only what comes before its place, and the ids it has collected are those of
  the cities in memory (`CallInv`); the file has nothing that memory has not, and a JSON
  log that can be read has all of it (`FileInv`). The last is why a replay that loses
  records does no harm, and what fails without the assumption (section 5).

Where a run goes through several instances (`algorithms`, `tools`), the theorems
about `VisitsReachable`, `VisitsOnce`, `FindsLeastWeight`, `PathHasItsWeight` and
`SampleGraphIntact` are about the specification of each instance.

**Model-checked only.**
- Liveness and ENABLED, which the prover does not handle.
- `NothingInvented`: it is false for some files. That a damaged file replays to some
  of the records written is as likely as an Adler-32 is to notice the damage, and the
  run shows that it notices each that is in its bounds.
- `ParsesAsMeant` and `SaysWhatWasRead`: the first is about the sentences that
  MCQueries builds, finitely many, and the run goes through all of them; the second
  is true only of texts that do not repeat a field (`AllConditionsHold`, section 5),
  and the lexers' runs of characters would need an induction over the text.

## 7. Not modelled

- Wrap-around of the u64 counters, and negative weights, which the code asks its
  callers not to have.
- Enabling an index after the fact; formatted statistics; listing and counting.
- The labels of the end nodes in a relationship pattern, which the parser reads
  and throws away.
- Help texts, printing, argument parsing, the demonstration in `main.rs`, and the
  test helpers.
- Socket errors other than a hang-up.
- Of values: constructors, accessors and Display. In LayeredDb an index entry is
  a node under a field; PropertyIndex has the values.
- In the REPL: a log that a compaction cannot reopen, a file without its header, and
  damaged bytes, which WalFile has; the automatic compaction, which the 11 inserts of a
  `:seed` do not reach; a file that is opened as the other format.
- A log that is written by two processes at once, which no code guards against or
  speaks of.

## 8. Plan

Done: the database and its refinement of GraphStore; the file; the cache; the
queries with their plans and parsers; the algorithms; the server; the tools; the
proofs of section 6. Left, in this order:

1. Compose LruCache with LayeredDb, in place of the port it implements.
2. The runbook's phases as theorems.
3. `SaysWhatWasRead` as a theorem, for texts without a repeated field.
