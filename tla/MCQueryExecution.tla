-------------------------- MODULE MCQueryExecution --------------------------
(***************************************************************************)
(* QueryExecution on a few values of each type and the filters about them. *)
(* A behaviour is of one of two instances: "planning", where more nodes    *)
(* come and go and each filter is answered in every state without being    *)
(* counted; and "counting", where queries of all kinds follow each other   *)
(* among fewer contents.                                                   *)
(***************************************************************************)
EXTENDS QueryExecution

CONSTANT Mixed   \* values that an index and a scan compare differently

VARIABLE instance

Val(type, v) == [type |-> type, v |-> v]
Props(p, q) == ("p" :> p) @@ ("q" :> q)

\* "p" is an integer, a text or null; "q" a boolean, or a float well apart from
\* the others, and no condition asks of a NaN what an index and a scan answer
\* differently (!=, < and <=); "r" is not indexed.
MCContents ==
    IF Mixed
    THEN {"p" :> v : v \in {Val("Integer", 1), Val("Float", 5), Val("Float", NaN),
                            Val("Float", Infinity)}}
    ELSE {[f \in {} |-> {}], ("q" :> Val("Float", 8)) @@ ("r" :> Val("Integer", 1)),
          "p" :> Val("Text", 1),
          Props(Val("Integer", 1), Val("Float", 4)),
          Props(Val("Integer", 2), Val("Float", NaN)), Props(Val("Null", 0), Val("Boolean", 1))}

Cond(key, op, value) == [key |-> key, op |-> op, value |-> value]
MCConditions ==
    IF Mixed
    THEN {Cond("p", op, v) : op \in ComparisonOp, v \in {Val("Integer", 1), Val("Float", 4)}}
    ELSE {Cond(key, op, v) : key \in {"p"}, op \in ComparisonOp,
                             v \in {Val("Integer", 2), Val("Text", 1), Val("Null", 0)}}
         \cup {Cond("q", op, v) : op \in {"=", ">"}, v \in {Val("Float", 4), Val("Boolean", 1)}}
         \cup {Cond("r", "=", Val("Integer", 1))}

Filter(label, conds) == [label |-> label, property_conditions |-> conds]
MCFilters ==
    {Filter(l, <<>>) : l \in {NoLabel, "A", "C"}}
    \cup {Filter(l, <<c>>) : l \in {NoLabel, "A"}, c \in MCConditions}
    \cup {Filter(NoLabel, <<c, d>>) : c \in {e \in MCConditions : e.op \in {"<", "!="}},
                                      d \in {e \in MCConditions : e.op = ">"}}

MCEdgeFilters ==
    {[label |-> NoLabel, weight_condition |-> w, property_conditions |-> <<>>] :
        w \in {<<>>, <<[op |-> ">", value |-> One]>>}}

\* Where the theorems about the answers apply.
ASSUME Mixed \/ ComparisonsAgree
ASSUME Filters \subseteq NodeFilter
ASSUME \A props \in Contents : \A f \in DOMAIN props : props[f] \in Value

-----------------------------------------------------------------------------
FewContents == {[f \in {} |-> {}], "p" :> Val("Integer", 1)}
Counting == INSTANCE QueryExecution WITH
    MaxNodes <- 2, MaxEdges <- 1, MaxQueries <- 2, Contents <- FewContents

MCInit == Init /\ instance \in {"planning", "counting"}
MCNext ==
    /\ UNCHANGED instance
    /\ \/ instance = "planning" /\ Next
       \/ instance = "counting" /\ Counting!Next
MCSpec == MCInit /\ [][MCNext]_<<vars, instance>>
=============================================================================
