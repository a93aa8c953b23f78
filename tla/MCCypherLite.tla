---------------------------- MODULE MCCypherLite ----------------------------
(* CypherLite on the sentences of its grammar, whole and damaged.          *)
EXTENDS CypherLite, MCQueries

CONSTANT Damages    \* texts are damaged, too

Written(var, c) ==
    << <<var, ".", c.on>>, Spelled(c.op), Literal(c.value) >>

\* A node's label is part of its pattern, a relationship's too; the rest is
\* said in WHERE.
LabelOf(chain) == SelectSeq(chain, LAMBDA c : c.on = "label")
RestOf(chain) == SelectSeq(chain, LAMBDA c : c.on # "label")
Node(var, chain) ==
    <<"(">> \o var \o (IF LabelOf(chain) = <<>> THEN <<>> ELSE <<":">> \o LabelOf(chain)[1].value.of)
      \o <<")">>
Relation(var, chain) ==
    <<"(", ")", "-", "[">> \o Tail(SubSeq(Node(var, chain), 1, Len(Node(var, chain)) - 1))
      \o <<"]", "-", ">", "(", "n", ")">>
Where(var, chain) ==
    IF chain = <<>> THEN <<>>
    ELSE << <<"WHERE">> >> \o Written(var, chain[1])
         \o IF Len(chain) = 2 THEN << <<"AND">> >> \o Written(var, chain[2]) ELSE <<>>
Return_n == << <<"RETURN">>, <<"n", ",", "r">> >>

\* At most one label, and none that is a keyword.
CypherChains(C) ==
    {ch \in Chains(C) : Len(LabelOf(ch)) =< 1
                        /\ \A i \in DOMAIN ch : ch[i] # OnLabel("=", <<"match">>)}

Sentences ==
    Walks
    \cup {Said(<< <<"MATCH">>, Node(<<"n">>, ch) >> \o Where("n", RestOf(ch)) \o Return_n,
               Asked("MatchNodes", ch)) : ch \in CypherChains(Conditions)}
    \cup {Said(<< <<"MATCH">>, Relation(var, ch) >> \o Where("r", RestOf(ch)) \o Return_n,
               Asked("MatchEdges", ch)) :
             var \in {<<>>, <<"r">>}, ch \in CypherChains(Conditions \cup Weights)}

\* What the sentences mean, and the same in small letters.
Meanings == Sentences \cup {[s EXCEPT !.text = Small(@)] : s \in Sentences}

MCTexts ==
    {s.text : s \in Meanings}
    \cup {Append(s.text, "@") : s \in Sentences}
    \cup (IF Damages THEN UNION {Damaged(s.text) : s \in Sentences} ELSE {})
    \cup {<<"MATCH", Blank, "(", "n", ")", Blank, "WHERE", Blank, "n", ".", "weight", Blank, ">",
            Blank, "5", ".", Blank, "RETURN">>,
          <<"PATH", Blank, "FROM", Blank, HugeRef>>}

-----------------------------------------------------------------------------
\* The i-th condition behind WHERE, where WHERE is token w, is part of the filter.
InFilter(w, i) ==
    LET c == w + 6 * i - 5
        field == tokens[c + 2].of
        op == Operators[tokens[c + 3].of]
        literal == tokens[c + 4]
    IN  /\ tokens[c + 1] = Sign(<<".">>)
        /\ \/ \E k \in DOMAIN result.property_conditions :
                  result.property_conditions[k]
                      = Condition(field, op, Value(TypeOf[literal.t], literal.of))
           \/ /\ field \in {<<"weight">>, <<"WEIGHT">>} /\ result.command = "MatchEdges"
              /\ result.weight_condition = <<[op |-> op, value |-> literal.of]>>

\* Whatever the text, a match that comes out is said by the words that were
\* read: a pattern with the label, a condition for each one of the filter with
\* an AND between any two, and a RETURN behind.
SaysWhatWasRead ==
    Accepted /\ result.command \in {"MatchNodes", "MatchEdges"} =>
        \E r \in 1 .. pos - 1 :
            LET n == Len(result.weight_condition) + Len(result.property_conditions)
                w == IF n = 0 THEN r ELSE r - 6 * n
            IN  /\ tokens[r] = Keyword("RETURN")
                /\ \A i \in 1 .. r - 1 : tokens[i] # Keyword("RETURN")
                /\ tokens[1] = Keyword("MATCH") /\ tokens[2] = Sign(<<"(">>)
                /\ tokens[w - 1] = Sign(<<")">>)
                /\ \A i \in 1 .. n : /\ tokens[w + 6 * (i - 1)]
                                           = Keyword(IF i = 1 THEN "WHERE" ELSE "AND")
                                     /\ InFilter(w, i)
                /\ result.label # <<>> =>
                      \E i \in 2 .. w - 1 :
                          /\ SubSeq(tokens, i, i + 1) = <<Sign(<<":">>), Token("Ident", result.label[1])>>
                          /\ tokens[i + 2] = Sign(IF result.command = "MatchNodes" THEN <<")">>
                                                  ELSE <<"]">>)

\* A text that cannot be read to its end is refused, whatever was read of it.
UnreadableIsRefused == LexFails(text) => ~Accepted

\* "Lex eagerly; store errors and surface them in parse()."
LexErrorSurfaces == at = "done" /\ LexFails(text) => result = Error("lex error")

\* "Both parsers produce the same QueryCommand for equivalent queries", those
\* with a negative number among them.
NegativeNumbersToo ==
    at = "done" => \A s \in Sentences : text = s.text => result = s.command

\* "where_expr = where_cond {AND where_cond}", "All conditions must hold": none of
\* the conditions that are read is lost.
AllConditionsHold ==
    Accepted => \A s \in Sentences :
        text = s.text /\ s.command.command = "MatchEdges" =>
            ToSet(s.command.weight_condition) \subseteq ToSet(result.weight_condition)
=============================================================================
