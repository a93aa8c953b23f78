----------------------------- MODULE CypherLite -----------------------------
(***************************************************************************)
(* CypherLiteLanguage: lex() and the parser over its tokens, one action    *)
(* for each parse method.  A token is its variant and the pieces it is     *)
(* made of; an operator or a sign is its own variant.                      *)
(***************************************************************************)
EXTENDS QueryText

KEYWORDS == {"MATCH", "WHERE", "RETURN", "AND", "TRAVERSE", "PATH", "FROM", "TO", "COUNT",
             "NODES", "EDGES", "BFS", "DFS"}

Token(t, of) == [t |-> t, of |-> of]
Sign(pieces) == Token("Sign", pieces)
Keyword(kw) == Token("Keyword", <<kw>>)
End == Token("end of input", <<>>)
Bad == Token("lex error", <<>>)
Panics == Token("panic", <<>>)   \* unwrap() of a number that is no u64

TwoSigns == {<<"!", "=">>, <<"<", "=">>, <<">", "=">>, <<"-", ">">>}
OneSigns == {"(", ")", "[", "]", ":", ".", ",", "-", "=", "<", ">"}
Punctuation == OneSigns \cup {Blank, Quote, "!", "@"}

Lexed(token, next) == [token |-> token, next |-> next]

ScanString(t, p) ==
    LET end == RunEnd(t, p + 1, ToSet(t) \ {Quote})
    IN  IF end > Len(t) THEN Lexed(Bad, p)
        ELSE Lexed(Token("StringLit", SubSeq(t, p + 1, end - 1)), end + 1)

ScanNumber(t, p) ==
    LET dot == RunEnd(t, p, Digits)
        end == RunEnd(t, dot + 1, Digits)
    IN  IF dot =< Len(t) /\ t[dot] = "."
        THEN Lexed(Token("FloatLit", SubSeq(t, p, end - 1)), end)
        ELSE Lexed(Token("IntLit", SubSeq(t, p, dot - 1)), dot)

ScanWord(t, p) ==
    LET end == RunEnd(t, p, ToSet(t) \ Punctuation)
        word == SubSeq(t, p, end - 1)
        w == word[1]
    IN  Lexed(CASE word = <<HugeRef>> -> Panics
                [] Len(word) = 1 /\ w \in NodeRefs -> Token("NodeRef", word)
                [] Len(word) = 1 /\ Upper(w) \in {"TRUE", "FALSE"} -> Token("BoolLit", <<Upper(w)>>)
                [] Len(word) = 1 /\ Upper(w) \in KEYWORDS -> Keyword(Upper(w))
                [] OTHER -> Token("Ident", word),
              end)

\* Mutant of Scan: the characters one by one come before the pairs.
ScanOneFirst(t, p) ==
    CASE t[p] = Quote -> ScanString(t, p)
      [] t[p] \in OneSigns -> Lexed(Sign(<<t[p]>>), p + 1)
      [] t[p] \in Digits -> ScanNumber(t, p)
      [] t[p] \notin Punctuation \cup Digits -> ScanWord(t, p)
      [] OTHER -> Lexed(Bad, p)

\* The token that begins at p.  A minus is one of its own, even before a digit.
Scan(t, p) ==
    CASE t[p] = Quote -> ScanString(t, p)
      [] p < Len(t) /\ SubSeq(t, p, p + 1) \in TwoSigns -> Lexed(Sign(SubSeq(t, p, p + 1)), p + 2)
      [] t[p] \in OneSigns /\ ~(p < Len(t) /\ SubSeq(t, p, p + 1) \in TwoSigns) ->
            Lexed(Sign(<<t[p]>>), p + 1)
      [] t[p] \in Digits -> ScanNumber(t, p)
      [] t[p] \notin Punctuation \cup Digits -> ScanWord(t, p)
      [] OTHER -> Lexed(Bad, p)

\* The tokens of t; the last one says whether it could be read to its end.
lex(t) ==
    LET L[p \in 1 .. Len(t) + 2] ==
            IF p > Len(t) THEN <<>>
            ELSE IF t[p] = Blank THEN L[p + 1]
            ELSE LET s == Scan(t, p)
                 IN  IF s.token \in {Bad, Panics} THEN <<s.token>> ELSE <<s.token>> \o L[s.next]
    IN  L[1]
Fails(t, how) == lex(t) # <<>> /\ Last(lex(t)) = how
LexFails(t) == Fails(t, Bad)
LexPanics(t) == Fails(t, Panics)

-----------------------------------------------------------------------------
At(i) == IF i \in DOMAIN tokens THEN tokens[i] ELSE End
Tok(n) == At(pos + n)

IsIdent(token) == token.t = "Ident"
IsOp(token) == token.t = "Sign" /\ token.of \in DOMAIN Operators
IsLiteral(token) == token.t \in {"StringLit", "IntLit", "FloatLit", "BoolLit"}
TypeOf == [t \in {"StringLit", "IntLit", "FloatLit", "BoolLit"} |->
              CASE t = "StringLit" -> "Text" [] t = "IntLit" -> "Integer"
                [] t = "FloatLit" -> "Float" [] OTHER -> "Boolean"]

\* Parser::new: of a text that cannot be lexed, no token is left.
Lex ==
    /\ at = "lexer"
    /\ tokens' = IF LexFails(text) \/ LexPanics(text) THEN <<>> ELSE lex(text)
    /\ IF LexPanics(text) THEN Return(Panic, 0) ELSE Goto("query", 0)
    /\ UNCHANGED <<text, command>>

Methods == {"MATCH", "TRAVERSE", "PATH", "COUNT"}

Parse ==
    /\ at = "query"
    /\ \/ \E kw \in Methods : Tok(0) = Keyword(kw) /\ Goto(kw, 1)
       \/ Tok(0) = End /\ Return(Error("empty query"), 0)
       \/ Tok(0) \notin {End} \cup {Keyword(kw) : kw \in Methods} /\ Fail
    /\ UNCHANGED <<text, tokens, command>>

-----------------------------------------------------------------------------
(* MATCH.                                                                  *)

\* The parentheses open behind the i-th token.
Depth(i) ==
    Len(SelectSeq(SubSeq(tokens, pos, i), LAMBDA k : k = Sign(<<"(">>)))
        - Len(SelectSeq(SubSeq(tokens, pos, i), LAMBDA k : k = Sign(<<")">>)))

is_relationship_pattern ==
    \E dash \in pos .. Len(tokens) :
        /\ tokens[dash] = Sign(<<"-">>)
        /\ \E close \in pos .. dash : tokens[close] = Sign(<<")">>) /\ Depth(close) = 0
        /\ \A i \in pos .. dash : tokens[i] \notin {Keyword("WHERE"), Keyword("RETURN")}

\* `(var:label)` or `[var:label]` from the i-th token on; both are optional.
Pattern(i, open, close) ==
    LET v == IF IsIdent(At(i + 1)) THEN i + 2 ELSE i + 1
        labelled == At(v) = Sign(<<":">>)
        end == IF labelled THEN v + 2 ELSE v
    IN  [ok |-> /\ At(i) = Sign(<<open>>) /\ At(end) = Sign(<<close>>)
                /\ labelled => IsIdent(At(v + 1)),
         label |-> IF labelled THEN <<At(v + 1).of>> ELSE <<>>,
         next |-> end + 1]

\* What follows the pattern: WHERE, or RETURN and what it lists.
Matched(method, next) ==
    IF At(next) = Keyword("WHERE") THEN Goto(method, next + 1 - pos)
    ELSE Goto("RETURN", next - pos)

ParseNodeMatch ==
    /\ at = "MATCH" /\ ~is_relationship_pattern
    /\ LET n == Pattern(pos, "(", ")")
       IN  IF n.ok THEN /\ command' = [Match("MatchNodes") EXCEPT !.label = n.label]
                        /\ Matched("node condition", n.next)
           ELSE Fail /\ UNCHANGED command
    /\ UNCHANGED <<text, tokens>>

\* The labels of both ends are read, and count for nothing.
ParseRelMatch ==
    /\ at = "MATCH" /\ is_relationship_pattern
    /\ LET src == Pattern(pos, "(", ")")
           rel == Pattern(src.next + 1, "[", "]")
           dst == Pattern(rel.next + 1, "(", ")")
       IN  IF /\ src.ok /\ At(src.next) = Sign(<<"-">>)
              /\ rel.ok /\ At(rel.next) = Sign(<<"-", ">">>) /\ dst.ok
           THEN /\ command' = [Match("MatchEdges") EXCEPT !.label = rel.label]
                /\ Matched("edge condition", dst.next)
           ELSE Fail /\ UNCHANGED command
    /\ UNCHANGED <<text, tokens>>

\* var "." field op value; any token does for a variable.
IsCondition ==
    /\ Tok(0) # End /\ Tok(1) = Sign(<<".">>) /\ IsIdent(Tok(2))
    /\ IsOp(Tok(3)) /\ IsLiteral(Tok(4))
Weight == Len(Tok(2).of) = 1 /\ Upper(Tok(2).of[1]) = "WEIGHT"

ReadOn ==
    IF Tok(5) = Keyword("AND") THEN Goto(at, 6) ELSE Goto("RETURN", 5)

PropertyCondition ==
    /\ at \in {"node condition", "edge condition"} /\ IsCondition
    /\ ~(at = "edge condition" /\ Weight)
    /\ command' = [command EXCEPT !.property_conditions = Append(@,
                      Condition(Tok(2).of, Operators[Tok(3).of],
                                Value(TypeOf[Tok(4).t], Tok(4).of)))]
    /\ ReadOn
    /\ UNCHANGED <<text, tokens>>

WeightCondition ==
    /\ at = "edge condition" /\ IsCondition /\ Weight
    /\ IF Tok(4).t \in {"IntLit", "FloatLit"}
       THEN /\ command' = [command EXCEPT !.weight_condition =
                              <<[op |-> Operators[Tok(3).of], value |-> Tok(4).of]>>]
            /\ ReadOn
       ELSE Fail /\ UNCHANGED command
    /\ UNCHANGED <<text, tokens>>

NoCondition ==
    /\ at \in {"node condition", "edge condition"} /\ ~IsCondition
    /\ Fail
    /\ UNCHANGED <<text, tokens, command>>

\* Mutant of ReturnList: what is skipped need not begin with RETURN.
ReturnListUnchecked ==
    /\ at = "RETURN"
    /\ LET list == {i \in pos .. Len(tokens) : tokens[i].t = "Keyword"}
           end == CHOOSE i \in list \cup {Len(tokens) + 1} : \A j \in list : i =< j
       IN  Return(command, end - pos)
    /\ UNCHANGED <<text, tokens, command>>

\* RETURN, then skip_return_list: all there is up to a keyword, if anything.
ReturnList ==
    /\ at = "RETURN"
    /\ LET list == {i \in pos + 1 .. Len(tokens) : tokens[i].t = "Keyword"}
           end == CHOOSE i \in list \cup {Len(tokens) + 1} : \A j \in list : i =< j
       IN  IF Tok(0) = Keyword("RETURN") THEN Return(command, end - pos) ELSE Fail
    /\ UNCHANGED <<text, tokens, command>>

-----------------------------------------------------------------------------
IsNode(token) == token.t = "NodeRef"

ParseTraverse ==
    /\ at = "TRAVERSE"
    /\ IF Tok(0) \in {Keyword("BFS"), Keyword("DFS")} /\ Tok(1) = Keyword("FROM") /\ IsNode(Tok(2))
       THEN Return(Traverse(Tok(0).of[1], Tok(2).of[1]), 3)
       ELSE Fail
    /\ UNCHANGED <<text, tokens, command>>

ParsePath ==
    /\ at = "PATH"
    /\ IF /\ Tok(0) = Keyword("FROM") /\ IsNode(Tok(1))
          /\ Tok(2) = Keyword("TO") /\ IsNode(Tok(3))
       THEN Return(ShortestPath(Tok(1).of[1], Tok(3).of[1]), 4)
       ELSE Fail
    /\ UNCHANGED <<text, tokens, command>>

ParseCount ==
    /\ at = "COUNT"
    /\ IF Tok(0) = Keyword("NODES") THEN Return(Count("CountNodes"), 1)
       ELSE IF Tok(0) = Keyword("EDGES") THEN Return(Count("CountEdges"), 1)
       ELSE Fail
    /\ UNCHANGED <<text, tokens, command>>

Init == Start

Next ==
    \/ Lex \/ Parse \/ ParseNodeMatch \/ ParseRelMatch \/ PropertyCondition \/ WeightCondition
    \/ NoCondition \/ ReturnList \/ ParseTraverse \/ ParsePath \/ ParseCount

Spec == Init /\ [][Next]_vars
=============================================================================
