---------------------------- MODULE QueryPlanner ----------------------------
(***************************************************************************)
(* QueryPlanner: from a command and the statistics of the database to the  *)
(* strategy that answers it.  Only matching nodes has more than one.       *)
(***************************************************************************)
EXTENDS PropertyFilter, SequencesExt, FiniteSetsExt

label_count(stats, label) ==
    IF label \in DOMAIN stats.label_counts THEN stats.label_counts[label] ELSE 0

Log2Ceil(n) == CHOOSE k \in 0 .. n : 2 ^ k >= n /\ \A j \in 0 .. k - 1 : 2 ^ j < n

estimated_property_index_cost(stats) ==
    IF stats.node_count = 0 THEN 0
    ELSE Log2Ceil(stats.node_count) + stats.node_count \div 10

op_selectivity_rank(op) == CASE op = "=" -> 0 [] op = "!=" -> 4 [] OTHER -> 2

\* The positions of the conditions an index could serve, and the first of
\* those with the least rank.
IndexedConditions(filter, stats) ==
    {i \in DOMAIN filter.property_conditions :
        filter.property_conditions[i].key \in stats.indexed_node_fields}

best_indexed_condition(filter, stats) ==
    LET conds == filter.property_conditions
        rank(i) == op_selectivity_rank(conds[i].op)
        least == Min({rank(i) : i \in IndexedConditions(filter, stats)})
    IN  conds[Min({i \in IndexedConditions(filter, stats) : rank(i) = least})]

\* Mutant of Remaining: every condition on that field goes.
RemainingOtherFields(conds, best) ==
    Among(conds, {c \in ToSet(conds) : c.key # best.key})

\* retain(): the chosen condition goes, with its duplicates.
Remaining(conds, best) ==
    Among(conds, {c \in ToSet(conds) : c.key # best.key \/ c.op # best.op
                                        \/ ~SameValue(c.value, best.value)})

LabelCost(filter, stats) ==
    IF filter.label = NoLabel THEN stats.node_count ELSE label_count(stats, filter.label)

PropertyIndexPays(filter, stats) ==
    /\ IndexedConditions(filter, stats) # {}
    /\ estimated_property_index_cost(stats) =< LabelCost(filter, stats)
    /\ estimated_property_index_cost(stats) < stats.node_count

LabelIndexPays(filter, stats) ==
    filter.label # NoLabel /\ label_count(stats, filter.label) < stats.node_count

PropertyIndexScan(filter, stats) ==
    LET best == best_indexed_condition(filter, stats)
    IN  [kind |-> "PropertyIndexScan", cond |-> best, filter |->
            [filter EXCEPT !.property_conditions = Remaining(@, best)]]

LabelIndexScan(filter) == [kind |-> "LabelIndexScan", filter |-> filter]
FullNodeScan(filter) == [kind |-> "FullNodeScan", filter |-> filter]

plan_match_nodes(filter, stats) ==
    CASE PropertyIndexPays(filter, stats) -> PropertyIndexScan(filter, stats)
      [] ~PropertyIndexPays(filter, stats) /\ LabelIndexPays(filter, stats)
            -> LabelIndexScan(filter)
      [] OTHER -> FullNodeScan(filter)

\* The other commands become the plan of the same name.
PlanName == [MatchEdges |-> "FullEdgeScan", GetNode |-> "NodeLookup",
             GetEdge |-> "EdgeLookup", Traverse |-> "Traverse",
             ShortestPath |-> "ShortestPath", CountNodes |-> "CountNodes",
             CountEdges |-> "CountEdges"]

plan(command, stats) ==
    IF command.kind = "MatchNodes" THEN plan_match_nodes(command.filter, stats)
    ELSE [command EXCEPT !.kind = PlanName[command.kind]]
=============================================================================
