--------------------------- MODULE QueryExecution ---------------------------
(***************************************************************************)
(* The read path of LayeredGraphDatabase: execute_query plans a command    *)
(* from the statistics of the indexes, and the executor answers it through *)
(* DatabaseContext, from the property index, the label index or a scan.    *)
(*                                                                         *)
(* The writes are here for what they do to the indexes; their storage and  *)
(* cache, and what faults make of them, are LayeredDb's.  So get_node here *)
(* is just the node that is stored.                                        *)
(***************************************************************************)
EXTENDS PropertyIndex, QueryPlanner

CONSTANTS
    MaxNodes, MaxEdges,  \* node and edge ids are below these
    Labels,
    Contents,            \* the property maps nodes are inserted with
    Filters,             \* the node filters of the queries asked
    EdgeFilters,
    IndexedFields,       \* what should_index_field() accepts
    MaxFullScanNodes,    \* max_full_scan_nodes
    MaxQueries           \* queries one process is asked

ASSUME QueryAssumption ==
    /\ MaxNodes \in Nat /\ MaxEdges \in Nat
    /\ MaxFullScanNodes \in Nat /\ MaxQueries \in Nat

VARIABLES
    nodes,           \* the stored nodes, by id
    edges,
    nextNode, nextEdge,
    label_index,     \* label -> Vec of ids; a label without nodes has no entry
    property_index,
    metrics,
    reply,           \* to the last query
    matched          \* MATCH NODE queries asked of this process

indexes == <<label_index, property_index>>
vars == <<nodes, edges, nextNode, nextEdge, label_index, property_index, metrics,
          reply, matched>>

Counters == {"queries_executed", "label_index_hits", "property_index_hits",
             "full_node_scans", "full_edge_scans"}

\* The counters of writes and of the cache are left out: nothing reads them.
NewMetrics == [c \in Counters |-> 0]
Counted(m, names) == [c \in Counters |-> IF c \in names THEN m[c] + 1 ELSE m[c]]

NoReply == [plan |-> "none", loaded |-> 0]

Init ==
    /\ nodes = [id \in {} |-> {}] /\ edges = [id \in {} |-> {}]
    /\ nextNode = 0 /\ nextEdge = 0
    /\ label_index = [l \in {} |-> <<>>]
    /\ property_index = NoFields
    /\ metrics = NewMetrics
    /\ reply = NoReply /\ matched = 0

-----------------------------------------------------------------------------
(* Writes.                                                                 *)

Indexable(props) == [f \in DOMAIN props \cap IndexedFields |-> props[f]]

With1(map, id, record) ==
    [x \in DOMAIN map \cup {id} |-> IF x = id THEN record ELSE map[x]]
Without1(map, id) == [x \in DOMAIN map \ {id} |-> map[x]]

LabelInserted(index, id, label) ==
    [l \in DOMAIN index \cup {label} |->
        IF l # label THEN index[l]
        ELSE IF l \in DOMAIN index THEN Append(index[l], id) ELSE <<id>>]

LabelRemoved(index, id, label) ==
    LET left == [index EXCEPT ![label] = Without(@, id)]
    IN  [l \in {l \in DOMAIN left : left[l] # <<>>} |-> left[l]]

InsertNode(label, props) ==
    /\ nextNode < MaxNodes
    /\ nodes' = With1(nodes, nextNode, [label |-> label, properties |-> props])
    /\ nextNode' = nextNode + 1
    /\ label_index' = LabelInserted(label_index, nextNode, label)
    /\ property_index' = insert_node(property_index, nextNode, Indexable(props))
    /\ UNCHANGED <<edges, nextEdge, metrics, reply, matched>>

\* The indexes are told of a node that get_node finds.
DeleteNode(id) ==
    /\ nodes' = Without1(nodes, id)
    /\ edges' = [e \in {e \in DOMAIN edges : id \notin {edges[e].source, edges[e].target}}
                    |-> edges[e]]
    /\ IF id \in DOMAIN nodes
       THEN /\ label_index' = LabelRemoved(label_index, id, nodes[id].label)
            /\ property_index' = remove_node(property_index, id, nodes[id].properties)
       ELSE UNCHANGED indexes
    /\ UNCHANGED <<nextNode, nextEdge, metrics, reply, matched>>

InsertEdge(source, target, label, weight) ==
    /\ nextEdge < MaxEdges
    /\ edges' = With1(edges, nextEdge,
                      [source |-> source, target |-> target, label |-> label,
                       weight |-> weight, properties |-> [f \in {} |-> 0]])
    /\ nextEdge' = nextEdge + 1
    /\ UNCHANGED <<nodes, nextNode, indexes, metrics, reply, matched>>

DeleteEdge(id) ==
    /\ edges' = Without1(edges, id)
    /\ UNCHANGED <<nodes, nextNode, nextEdge, indexes, metrics, reply, matched>>

\* The indexes while the nodes of a listing are entered, one by one.
LabelsOf(order) ==
    LET index[i \in 0 .. Len(order)] ==
            IF i = 0 THEN [l \in {} |-> <<>>]
            ELSE LabelInserted(index[i - 1], order[i], nodes[order[i]].label)
    IN  index
PropertiesOf(order) ==
    LET index[i \in 0 .. Len(order)] ==
            IF i = 0 THEN NoFields
            ELSE insert_node(index[i - 1], order[i], Indexable(nodes[order[i]].properties))
    IN  index

\* Close, and open_with_config on the log: the indexes are built from the live
\* nodes, in whatever order the storage lists them, and the ids go on after
\* the largest in use.
Reopen ==
    \E order \in SetToSeqs(DOMAIN nodes) :
        /\ label_index' = LabelsOf(order)[Len(order)]
        /\ property_index' = PropertiesOf(order)[Len(order)]
        /\ nextNode' = IF DOMAIN nodes = {} THEN 0 ELSE Max(DOMAIN nodes) + 1
        /\ nextEdge' = IF DOMAIN edges = {} THEN 0 ELSE Max(DOMAIN edges) + 1
        /\ metrics' = NewMetrics
        /\ reply' = NoReply /\ matched' = 0
        /\ UNCHANGED <<nodes, edges>>

-----------------------------------------------------------------------------
(* Queries.                                                                *)

stats ==
    [node_count          |-> Cardinality(DOMAIN nodes),
     edge_count          |-> Cardinality(DOMAIN edges),
     label_counts        |-> [l \in DOMAIN label_index |-> Len(label_index[l])],
     indexed_node_fields |-> DOMAIN property_index]

nodes_by_label(label) ==
    IF label \in DOMAIN label_index THEN label_index[label] ELSE <<>>

Found(ids) == Among(ids, DOMAIN nodes)
Kept(ids, filter) == Among(ids, {id \in ToSet(ids) : node_matches(filter, nodes[id])})

\* The ids a plan's candidates have, in some order for a scan.
Candidates(p) ==
    CASE p.kind = "PropertyIndexScan" ->
            Found(query(property_index[p.cond.key], p.cond.op, p.cond.value))
      [] p.kind = "LabelIndexScan" -> Found(nodes_by_label(p.filter.label))
      [] p.kind = "FullNodeScan" -> SetToSeq(DOMAIN nodes)

execute_plan(p) == Kept(Candidates(p), p.filter)

\* Mutant of CountedAs: the label index is read without being counted.
CountedUnlessLabel(kind) ==
    CASE kind = "PropertyIndexScan" -> {"property_index_hits"}
      [] kind = "FullNodeScan" -> {"full_node_scans"}
      [] kind = "FullEdgeScan" -> {"full_edge_scans"}
      [] OTHER -> {}

CountedAs(kind) ==
    CASE kind = "PropertyIndexScan" -> {"property_index_hits"}
      [] kind = "LabelIndexScan" -> {"label_index_hits"}
      [] kind = "FullNodeScan" -> {"full_node_scans"}
      [] kind = "FullEdgeScan" -> {"full_edge_scans"}
      [] OTHER -> {}

Answered(p, loaded) ==
    /\ metrics.queries_executed < MaxQueries
    /\ metrics' = Counted(metrics, {"queries_executed"} \cup CountedAs(p.kind))
    /\ reply' = [plan |-> p.kind, loaded |-> loaded]
    /\ UNCHANGED <<nodes, edges, nextNode, nextEdge, indexes>>

\* execute_query and execute_query_with_explain alike.
MatchNodes(filter) ==
    LET p == plan([kind |-> "MatchNodes", filter |-> filter], stats)
    IN  /\ Answered(p, Len(Candidates(p)))
        /\ matched' = matched + 1

MatchEdges(filter) ==
    /\ Answered(plan([kind |-> "MatchEdges", filter |-> filter], stats),
                Cardinality({e \in DOMAIN edges : edge_matches(filter, edges[e])}))
    /\ UNCHANGED matched

\* The lookups, traversals and counts read the engine or one record.
OtherQuery(kind) ==
    /\ Answered(plan([kind |-> kind], stats), 0)
    /\ UNCHANGED matched

\* A query that does not parse: execute_query counts it all the same.
ParseFails ==
    /\ metrics.queries_executed < MaxQueries
    /\ metrics' = Counted(metrics, {"queries_executed"})
    /\ reply' = NoReply
    /\ UNCHANGED <<nodes, edges, nextNode, nextEdge, indexes, matched>>

\* max_full_scan_nodes is read nowhere; no query is refused.

Next ==
    \/ \E label \in Labels, props \in Contents : InsertNode(label, props)
    \/ \E id \in 0 .. nextNode - 1 : DeleteNode(id)
    \/ \E source, target \in DOMAIN nodes, label \in Labels, weight \in {One} :
            InsertEdge(source, target, label, weight)
    \/ \E id \in DOMAIN edges : DeleteEdge(id)
    \/ Reopen
    \/ \E filter \in Filters : MatchNodes(filter)
    \/ \E filter \in EdgeFilters : MatchEdges(filter)
    \/ \E kind \in DOMAIN PlanName \ {"MatchEdges"} : OtherQuery(kind)
    \/ ParseFails

Spec == Init /\ [][Next]_vars

-----------------------------------------------------------------------------
(* Properties.                                                             *)

\* What a filter means: the live nodes it holds of.
Matching(filter) == {id \in DOMAIN nodes : node_matches(filter, nodes[id])}

\* However a query is planned, its answer is the nodes its filter holds of,
\* each once: the strategy is the planner's business, not the caller's.
AnswerIsFullScan ==
    \A filter \in Filters :
        LET answer == execute_plan(plan_match_nodes(filter, stats))
        IN  /\ ToSet(answer) = Matching(filter)
            /\ Len(answer) = Cardinality(Matching(filter))

\* What the index answers of a value that it holds, and where that is what
\* the executor would say: a plan is free to use either.
IndexTakes(cond, key) ==
    /\ cond.value.type = "Null" => cond.op = "="
    /\ key.type = cond.value.type /\ InRange(cond.op, key, cond.value)

ComparisonsAgree ==
    \A filter \in Filters, props \in Contents :
        \A i \in DOMAIN filter.property_conditions :
            LET cond == filter.property_conditions[i]
            IN  cond.key \in DOMAIN props \cap IndexedFields =>
                    (IndexTakes(cond, props[cond.key])
                        <=> compare_values(cond.op, props[cond.key], cond.value))

\* Through inserts, deletions and reopening, a bucket of the property index
\* lists the live nodes with that value, each once, and there is none for a
\* value nobody has.
BucketsExact ==
    \A f \in IndexedFields :
        LET map == IF f \in DOMAIN property_index THEN property_index[f] ELSE [k \in {} |-> <<>>]
            having(k) == {id \in DOMAIN nodes : f \in DOMAIN nodes[id].properties
                                                /\ nodes[id].properties[f] = k}
        IN  /\ DOMAIN map = {nodes[id].properties[f] :
                              id \in {n \in DOMAIN nodes : f \in DOMAIN nodes[n].properties}}
            /\ \A k \in DOMAIN map : /\ ToSet(map[k]) = having(k)
                                     /\ Len(map[k]) = Cardinality(having(k))

\* index_hit_rate() divides by all MATCH NODE queries: each is counted under
\* exactly one of the three ways to answer it.
EachMatchCountedOnce ==
    metrics.label_index_hits + metrics.property_index_hits + metrics.full_node_scans = matched

\* "When multiple strategies tie, property index beats label beats full scan."
TiesPreferIndexes ==
    \A filter \in Filters :
        plan_match_nodes(filter, stats).kind = "FullNodeScan" =>
            /\ filter.label # NoLabel => label_count(stats, filter.label) > stats.node_count
            /\ IndexedConditions(filter, stats) # {} =>
                    estimated_property_index_cost(stats) > stats.node_count

\* "Return an error if a full node scan would touch more than this many
\* nodes": no answer ever comes of a larger one.
LargeScansRefused == reply.plan = "FullNodeScan" => reply.loaded =< MaxFullScanNodes
=============================================================================
