----------------------------- MODULE MCQueries -----------------------------
(* What may be asked: commands with at most two conditions, to be written   *)
(* in either language, and what can happen to a text.                      *)
EXTENDS QueryText

CONSTANTS
    Repeats,    \* one field may have two conditions on it
    Negative,   \* a property may be compared with a negative number
    LabelOps    \* the operators that a label is compared with

Plain == {Value("Integer", <<"5">>), Value("Float", <<"5", ".", "0">>),
          Value("Text", <<"Big", Blank, "City">>), Value("Boolean", <<"TRUE">>)}
         \cup IF Negative THEN {Value("Integer", <<"-", "5">>)} ELSE {}

OnLabel(op, l) == [on |-> "label", op |-> op, value |-> Value("Text", l)]
OnWeight(op, v) == [on |-> "weight", op |-> op, value |-> Value("Float", v)]
OnProperty(k, op, v) == [on |-> k, op |-> op, value |-> v]

Labels == {<<"City">>, <<"match">>}
Conditions ==
    {OnLabel(op, l) : op \in LabelOps, l \in Labels}
    \cup {OnProperty("p", "=", v) : v \in Plain}
    \cup {OnProperty("p", op, Value("Integer", <<"5">>)) : op \in {"!=", "<", "<=", ">", ">="}}
Weights == {OnWeight(op, <<"5">>) : op \in {"<", ">="}}

Chains(C) ==
    {<<>>} \cup {<<c>> : c \in C}
    \cup {p \in C \X C : Repeats \/ p[1].on # p[2].on}

\* The command that such a chain of conditions asks for.
Asked(kind, chain) ==
    [command |-> kind,
     label |-> FlattenSeq([i \in DOMAIN chain |->
                  IF chain[i].on = "label" THEN <<chain[i].value.of>> ELSE <<>>]),
     weight_condition |-> FlattenSeq([i \in DOMAIN chain |->
                  IF chain[i].on = "weight"
                  THEN <<[op |-> chain[i].op, value |-> chain[i].value.of]>> ELSE <<>>]),
     property_conditions |-> FlattenSeq([i \in DOMAIN chain |->
                  IF chain[i].on \notin {"label", "weight"}
                  THEN <<Condition(<<chain[i].on>>, chain[i].op, chain[i].value)>> ELSE <<>>])]

Literal(v) == IF v.type = "Text" THEN <<Quote>> \o v.of \o <<Quote>> ELSE v.of
Spelled(op) == CHOOSE s \in DOMAIN Operators : Operators[s] = op

Spaced(words) == FlattenSeq([i \in 1 .. 2 * Len(words) - 1 |->
                    IF i % 2 = 0 THEN <<Blank>> ELSE words[(i + 1) \div 2]])

Said(words, c) == [text |-> Spaced(words), command |-> c]
Walks ==
    {Said(<< <<"TRAVERSE">>, <<k>>, <<"FROM">>, <<n>> >>, Traverse(k, n)) :
        k \in {"BFS", "DFS"}, n \in NodeRefs}
    \cup {Said(<< <<"PATH">>, <<"FROM">>, <<n>>, <<"TO">>, <<m>> >>, ShortestPath(n, m)) :
             n \in NodeRefs, m \in NodeRefs}
    \cup {Said(<< <<"COUNT">>, <<k>> >>, Count(c)) :
             <<k, c>> \in {<<"NODES", "CountNodes">>, <<"EDGES", "CountEdges">>}}

\* A text of which one piece is lost, doubled, comes a place too early, or is
\* another operator.
Damaged(t) ==
    {RemoveAt(t, i) : i \in DOMAIN t}
    \cup {InsertAt(t, i, t[i]) : i \in DOMAIN t}
    \cup {[t EXCEPT ![i] = "<"] : i \in {j \in DOMAIN t : t[j] = "="}}
    \cup {[t EXCEPT ![i] = t[i + 1], ![i + 1] = t[i]] : i \in 1 .. Len(t) - 1}

\* The same in small letters, where a keyword has them.
Small(t) == [i \in DOMAIN t |->
    IF \E w \in DOMAIN Uppercase : Uppercase[w] = t[i]
    THEN CHOOSE w \in DOMAIN Uppercase : Uppercase[w] = t[i] ELSE t[i]]
=============================================================================
