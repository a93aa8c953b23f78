--------------------------- MODULE MCSimpleQuery ---------------------------
(* SimpleQuery on the sentences of its grammar, whole and damaged.         *)
EXTENDS SimpleQuery, MCQueries

CONSTANTS
    Trailing,  \* a text may go on behind a sentence
    Damages    \* texts are damaged, too

Written(c) ==
    <<IF c.on = "label" THEN <<"label">> ELSE IF c.on = "weight" THEN <<"weight">>
      ELSE <<"props", ".", c.on>>,
      Spelled(c.op), Literal(c.value)>>
Where(chain) ==
    IF chain = <<>> THEN <<>>
    ELSE << <<"WHERE">> >> \o Written(chain[1])
         \o IF Len(chain) = 2 THEN << <<"AND">> >> \o Written(chain[2]) ELSE <<>>

NullCondition == OnProperty("p", "=", Value("Null", <<>>))

Sentences ==
    Walks
    \cup {Said(<< <<"MATCH">>, <<"NODE">> >> \o Where(ch), Asked("MatchNodes", ch)) :
             ch \in Chains(Conditions)}
    \cup {Said(<< <<"MATCH">>, <<"EDGE">> >> \o Where(ch), Asked("MatchEdges", ch)) :
             ch \in Chains(Conditions \cup Weights)}
    \cup {Said(<< <<"MATCH">>, <<"NODE">>, <<"WHERE">>, <<"props", ".", "p">>, <<"=">>, <<"NULL">> >>,
               Asked("MatchNodes", <<NullCondition>>))}
    \cup {Said(<< <<"GET">>, <<"NODE">>, <<n>> >>, Get("GetNode", n)) : n \in NodeRefs}
    \cup {Said(<< <<"GET">>, <<"EDGE">>, <<e>> >>, Get("GetEdge", e)) : e \in EdgeRefs}

\* What the sentences mean, and the same in small letters.
Meanings == Sentences \cup {[s EXCEPT !.text = Small(@)] : s \in Sentences}

Rest == IF Trailing THEN {<<>>, <<Blank, "OR", Blank, "label">>} ELSE {<<>>}

MCTexts ==
    {s.text : s \in Meanings} \cup {s.text \o r : s \in Sentences, r \in Rest}
    \cup IF Damages THEN UNION {Damaged(s.text) : s \in Sentences} ELSE {}
    \cup {<<"MATCH", Blank, "EDGE", Blank, "WHERE", Blank, "weight", Blank, "<", Blank, "NaN">>}

-----------------------------------------------------------------------------
\* The i-th condition that was read is part of the filter.
InFilter(i) ==
    LET field == tokens[4 * i]
        op == tokens[4 * i + 1]
        literal == tokens[4 * i + 2]
    IN  \/ /\ Is(field, "LABEL") /\ op = <<"=">>
           /\ result.label = <<Inner(literal)>>
        \/ /\ Is(field, "WEIGHT") /\ result.command = "MatchEdges"
           /\ result.weight_condition = <<[op |-> Operators[op], value |-> literal]>>
        \/ \E j \in DOMAIN result.property_conditions :
              LET c == result.property_conditions[j]
              IN  /\ field \in {<<p, ".">> \o c.key : p \in {"props", "PROPS"}}
                  /\ c.op = Operators[op]
                  /\ Literal(c.value) = literal \/ c.value.type \in {"Boolean", "Null"}

\* Whatever the text, a match that comes out is said by the words that were
\* read: they have the form of a sentence, and the filter consists of their
\* conditions, no more and no fewer.
SaysWhatWasRead ==
    Accepted /\ result.command \in {"MatchNodes", "MatchEdges"} =>
        LET n == (pos - 3) \div 4
        IN  /\ pos = 4 * n + 3
            /\ Is(tokens[1], "MATCH")
            /\ Is(tokens[2], IF result.command = "MatchNodes" THEN "NODE" ELSE "EDGE")
            /\ \A i \in 1 .. n : Is(tokens[4 * i - 1], IF i = 1 THEN "WHERE" ELSE "AND")
            /\ \A i \in 1 .. n : InFilter(i)
            /\ Len(result.label) + Len(result.weight_condition)
                  + Len(result.property_conditions) = n

\* "filter_chain = condition {AND condition}", "All conditions must hold": none
\* of the conditions that are read is lost.
AllConditionsHold ==
    Accepted => \A s \in Sentences :
        text = s.text /\ s.command.command = "MatchEdges" =>
            /\ ToSet(s.command.label) \subseteq ToSet(result.label)
            /\ ToSet(s.command.weight_condition) \subseteq ToSet(result.weight_condition)

\* "condition = label op string_lit": every sentence of the grammar is accepted.
SentencesAccepted ==
    at = "done" => \A s \in Sentences : text = s.text => Accepted

\* "query = match_cmd | get_cmd | ...": a text is accepted as a whole or not at
\* all.
WholeTextRead == Accepted => pos = Len(tokens) + 1
=============================================================================
