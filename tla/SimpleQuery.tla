---------------------------- MODULE SimpleQuery ----------------------------
(***************************************************************************)
(* SimpleQueryLanguage: tokenize() and the recursive descent over the      *)
(* tokens, one action for each parse method.                               *)
(***************************************************************************)
EXTENDS QueryText

Push(s, ch) == [s EXCEPT !.current = Append(@, ch)]
Emit(s) == [s EXCEPT !.tokens = Append(@, s.current), !.current = <<>>]

\* Mutant of Take: a blank ends a token inside quotes too.
TakeSplitting(s, ch) ==
    CASE ch = Quote /\ s.in_string -> [Emit(Push(s, ch)) EXCEPT !.in_string = FALSE]
      [] ch = Quote /\ ~s.in_string -> [Push(s, ch) EXCEPT !.in_string = TRUE]
      [] ch = Blank -> IF s.current = <<>> THEN s ELSE Emit(s)
      [] OTHER -> Push(s, ch)

\* One turn of tokenize's loop.
Take(s, ch) ==
    CASE ch = Quote /\ s.in_string -> [Emit(Push(s, ch)) EXCEPT !.in_string = FALSE]
      [] ch = Quote /\ ~s.in_string -> [Push(s, ch) EXCEPT !.in_string = TRUE]
      [] ch = Blank /\ ~s.in_string -> IF s.current = <<>> THEN s ELSE Emit(s)
      [] OTHER -> Push(s, ch)

tokenize(input) ==
    LET s == FoldLeft(Take, [tokens |-> <<>>, current |-> <<>>, in_string |-> FALSE], input)
    IN  IF s.current = <<>> THEN s.tokens ELSE Emit(s).tokens

-----------------------------------------------------------------------------
(* Tokens.  The end of the input reads as <<>>, which no token is.         *)

Tok(n) == IF pos + n \in DOMAIN tokens THEN tokens[pos + n] ELSE <<>>

Is(tok, word) == Len(tok) = 1 /\ Upper(tok[1]) = word
IsOp(tok) == tok \in DOMAIN Operators
IsString(tok) == Len(tok) >= 2 /\ tok[1] = Quote /\ Last(tok) = Quote
Inner(tok) == SubSeq(tok, 2, Len(tok) - 1)

Unsigned(tok) == IF tok # <<>> /\ tok[1] = "-" THEN Tail(tok) ELSE tok
IsInteger(tok) == LET u == Unsigned(tok) IN u # <<>> /\ \A i \in DOMAIN u : u[i] \in Digits
IsNumber(tok) ==
    \/ IsInteger(tok) \/ tok = <<"NaN">>
    \/ LET u == Unsigned(tok)
       IN  /\ Len(u) >= 2 /\ \A i \in DOMAIN u : u[i] \in Digits \cup {"."}
           /\ \E i \in DOMAIN u : u[i] = "." /\ \A j \in DOMAIN u : u[j] = "." => j = i

\* The value that tok is a literal of, if any.
value_lit(tok) ==
    CASE IsString(tok) -> <<Value("Text", Inner(tok))>>
      [] Is(tok, "TRUE") \/ Is(tok, "FALSE") -> <<Value("Boolean", <<Upper(tok[1])>>)>>
      [] Is(tok, "NULL") -> <<Value("Null", <<>>)>>
      [] IsInteger(tok) -> <<Value("Integer", tok)>>
      [] IsNumber(tok) /\ "." \in ToSet(tok) -> <<Value("Float", tok)>>
      [] OTHER -> <<>>

IsNode(tok) == Len(tok) = 1 /\ tok[1] \in NodeRefs
IsEdge(tok) == Len(tok) = 1 /\ tok[1] \in EdgeRefs

-----------------------------------------------------------------------------
Tokenize ==
    /\ at = "lexer"
    /\ tokens' = tokenize(text)
    /\ Goto("query", 0)
    /\ UNCHANGED <<text, command>>

Methods == {"MATCH", "GET", "TRAVERSE", "PATH", "COUNT"}

Parse ==
    /\ at = "query"
    /\ \/ \E kw \in Methods : Is(Tok(0), kw) /\ Goto(kw, 1)
       \/ ~(\E kw \in Methods : Is(Tok(0), kw)) /\ Fail
    /\ UNCHANGED <<text, tokens, command>>

ParseMatch ==
    /\ at = "MATCH"
    /\ command' = Match(IF Is(Tok(0), "EDGE") THEN "MatchEdges" ELSE "MatchNodes")
    /\ IF ~Is(Tok(0), "NODE") /\ ~Is(Tok(0), "EDGE") THEN Fail
       ELSE IF Is(Tok(1), "WHERE") THEN Goto("condition", 2) ELSE Return(command', 1)
    /\ UNCHANGED <<text, tokens>>

\* What follows a condition of three tokens.
ReadOn ==
    IF Is(Tok(3), "AND") THEN Goto("condition", 4) ELSE Return(command', 3)

LabelCondition ==
    /\ at = "condition" /\ Is(Tok(0), "LABEL")
    /\ IF Tok(1) = <<"=">> /\ IsString(Tok(2))
       THEN command' = [command EXCEPT !.label = <<Inner(Tok(2))>>] /\ ReadOn
       ELSE Fail /\ UNCHANGED command
    /\ UNCHANGED <<text, tokens>>

WeightCondition ==
    /\ at = "condition" /\ Is(Tok(0), "WEIGHT") /\ command.command = "MatchEdges"
    /\ IF IsOp(Tok(1)) /\ IsNumber(Tok(2))
       THEN /\ command' = [command EXCEPT !.weight_condition =
                              <<[op |-> Operators[Tok(1)], value |-> Tok(2)]>>]
            /\ ReadOn
       ELSE Fail /\ UNCHANGED command
    /\ UNCHANGED <<text, tokens>>

IsProperty(tok) == Len(tok) >= 2 /\ Upper(tok[1]) = "PROPS" /\ tok[2] = "."

PropertyCondition ==
    /\ at = "condition" /\ IsProperty(Tok(0))
    /\ IF IsOp(Tok(1)) /\ value_lit(Tok(2)) # <<>>
       THEN /\ command' = [command EXCEPT !.property_conditions = Append(@,
                              Condition(SubSeq(Tok(0), 3, Len(Tok(0))), Operators[Tok(1)],
                                        value_lit(Tok(2))[1]))]
            /\ ReadOn
       ELSE Fail /\ UNCHANGED command
    /\ UNCHANGED <<text, tokens>>

UnknownField ==
    /\ at = "condition"
    /\ ~Is(Tok(0), "LABEL") /\ ~IsProperty(Tok(0))
    /\ Is(Tok(0), "WEIGHT") => command.command = "MatchNodes"
    /\ Fail
    /\ UNCHANGED <<text, tokens, command>>

ParseGet ==
    /\ at = "GET"
    /\ IF Is(Tok(0), "NODE") /\ IsNode(Tok(1)) THEN Return(Get("GetNode", Tok(1)[1]), 2)
       ELSE IF Is(Tok(0), "EDGE") /\ IsEdge(Tok(1)) THEN Return(Get("GetEdge", Tok(1)[1]), 2)
       ELSE Fail
    /\ UNCHANGED <<text, tokens, command>>

ParseTraverse ==
    /\ at = "TRAVERSE"
    /\ IF (Is(Tok(0), "BFS") \/ Is(Tok(0), "DFS")) /\ Is(Tok(1), "FROM") /\ IsNode(Tok(2))
       THEN Return(Traverse(Upper(Tok(0)[1]), Tok(2)[1]), 3)
       ELSE Fail
    /\ UNCHANGED <<text, tokens, command>>

ParsePath ==
    /\ at = "PATH"
    /\ IF Is(Tok(0), "FROM") /\ IsNode(Tok(1)) /\ Is(Tok(2), "TO") /\ IsNode(Tok(3))
       THEN Return(ShortestPath(Tok(1)[1], Tok(3)[1]), 4)
       ELSE Fail
    /\ UNCHANGED <<text, tokens, command>>

ParseCount ==
    /\ at = "COUNT"
    /\ IF Is(Tok(0), "NODES") THEN Return(Count("CountNodes"), 1)
       ELSE IF Is(Tok(0), "EDGES") THEN Return(Count("CountEdges"), 1)
       ELSE Fail
    /\ UNCHANGED <<text, tokens, command>>

Init == Start

Next ==
    \/ Tokenize \/ Parse \/ ParseMatch \/ LabelCondition \/ WeightCondition \/ PropertyCondition
    \/ UnknownField \/ ParseGet \/ ParseTraverse \/ ParsePath \/ ParseCount

Spec == Init /\ [][Next]_vars
=============================================================================
