----------------------------- MODULE QueryText -----------------------------
(***************************************************************************)
(* What the parsers of the two query languages share: the text, the place  *)
(* in the tokens, and the QueryCommand that comes out.                     *)
(*                                                                         *)
(* A text is a sequence of pieces: a word (letters and digits from its     *)
(* first letter on), a run of digits, a blank, or a character that one of  *)
(* the grammars gives a meaning.  What is longer than a piece, the token   *)
(* of one language or the other, is a sequence of them.                    *)
(***************************************************************************)
EXTENDS Naturals, Sequences, SequencesExt, TLC

CONSTANT Texts      \* the texts that are asked

VARIABLES
    text,
    tokens, pos,    \* of the parser
    at,             \* the method that reads on
    command,        \* a Match, while its filter is built
    result          \* what parse() returns

vars == <<text, tokens, pos, at, command, result>>

Blank == " "
Quote == "\""
Digits == {"0", "5"}
NodeRefs == {"N0", "N5"}
EdgeRefs == {"E0"}
HugeRef == "N99999999999999999999"    \* of a number that is no u64

\* to_uppercase(), and eq_ignore_ascii_case() with it.
Uppercase == [w \in {"match", "where", "and", "node", "nodes", "label", "weight", "props",
                     "true", "count", "return"} |->
                CASE w = "match" -> "MATCH" [] w = "where" -> "WHERE" [] w = "and" -> "AND"
                  [] w = "node" -> "NODE" [] w = "nodes" -> "NODES" [] w = "label" -> "LABEL"
                  [] w = "weight" -> "WEIGHT" [] w = "props" -> "PROPS" [] w = "true" -> "TRUE"
                  [] w = "count" -> "COUNT" [] w = "return" -> "RETURN"]
Upper(w) == IF w \in DOMAIN Uppercase THEN Uppercase[w] ELSE w

Operators == (<<"=">> :> "=") @@ (<<"!", "=">> :> "!=") @@ (<<"<">> :> "<")
             @@ (<<"<", "=">> :> "<=") @@ (<<">">> :> ">") @@ (<<">", "=">> :> ">=")

\* The first place from p on whose piece is not in S.
RunEnd(t, p, S) == CHOOSE q \in p .. Len(t) + 1 :
                      /\ q > Len(t) \/ t[q] \notin S
                      /\ \A r \in p .. q - 1 : t[r] \in S

\* QueryCommand.  An Option is a sequence of at most one.
Match(kind) == [command |-> kind, label |-> <<>>, weight_condition |-> <<>>,
                property_conditions |-> <<>>]
Traverse(kind, start) == [command |-> "Traverse", kind |-> kind, start |-> start]
ShortestPath(start, goal) == [command |-> "ShortestPath", start |-> start, goal |-> goal]
Get(kind, id) == [command |-> kind, id |-> id]
Count(kind) == [command |-> kind]
Condition(key, op, value) == [key |-> key, op |-> op, value |-> value]
Value(type, of) == [type |-> type, of |-> of]

Error(why) == [command |-> "Error", why |-> why]
Panic == [command |-> "Panic"]
Pending == [command |-> "None"]
Accepted == result.command \notin {"None", "Error", "Panic"}

Start ==
    /\ text \in Texts
    /\ tokens = <<>> /\ pos = 1 /\ at = "lexer"
    /\ command = Match("MatchNodes") /\ result = Pending

\* The next n tokens are consumed.
Goto(method, n) == at' = method /\ pos' = pos + n /\ UNCHANGED result
Return(r, n) == at' = "done" /\ pos' = pos + n /\ result' = r
Fail == Return(Error("parse"), 0)
=============================================================================
