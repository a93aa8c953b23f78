----------------------------- MODULE MCParsers -----------------------------
(***************************************************************************)
(* The two query languages for TLC.  A behaviour parses one text in one of *)
(* them: a sentence of its grammar, whole or damaged.                      *)
(***************************************************************************)
EXTENDS Naturals

CONSTANTS
    Repeats,    \* one field may have two conditions on it
    Negative,   \* a negative number is compared with in CypherLite, too
    LabelOps,   \* the operators that a label is compared with
    Trailing,   \* a text may go on behind a sentence
    Damages     \* texts are damaged, too

VARIABLES language, text, tokens, pos, at, command, result

vars == <<language, text, tokens, pos, at, command, result>>

SimpleTexts == INSTANCE MCSimpleQuery WITH Negative <- TRUE, Texts <- {}
CypherTexts == INSTANCE MCCypherLite WITH Texts <- {}
MCSimpleTexts == SimpleTexts!MCTexts
MCCypherTexts == CypherTexts!MCTexts
SimpleMeanings == SimpleTexts!Meanings
CypherMeanings == CypherTexts!Meanings

Simple == INSTANCE MCSimpleQuery WITH Negative <- TRUE, Texts <- MCSimpleTexts
Cypher == INSTANCE MCCypherLite WITH Texts <- MCCypherTexts

Init ==
    \/ language = "simple" /\ Simple!Init
    \/ language = "cypher" /\ Cypher!Init

Next ==
    /\ UNCHANGED language
    /\ \/ language = "simple" /\ Simple!Next
       \/ language = "cypher" /\ Cypher!Next

Spec == Init /\ [][Next]_vars

-----------------------------------------------------------------------------
\* Every sentence is read as the command it stands for, its keywords in capitals
\* or not, and as the same command in either language.
ParsesAsMeant ==
    at = "done" =>
        \A s \in IF language = "simple" THEN SimpleMeanings ELSE CypherMeanings :
            text = s.text => result = s.command

\* Whatever the text, a match that comes out is said by the words that were
\* read; and a text of Cypher that cannot be read to its end is refused.
SaysWhatWasRead ==
    /\ language = "simple" => Simple!SaysWhatWasRead
    /\ language = "cypher" => Cypher!SaysWhatWasRead /\ Cypher!UnreadableIsRefused

-----------------------------------------------------------------------------
(* Statements of the documentation and the grammars.  TLC refutes each as  *)
(* the INVARIANT of Parsers.cfg, with the constant named set so.           *)

AllConditionsHold ==   \* Repeats = TRUE
    /\ language = "simple" => Simple!AllConditionsHold
    /\ language = "cypher" => Cypher!AllConditionsHold
SentencesAccepted ==   \* LabelOps = {"=", "!="}
    language = "simple" => Simple!SentencesAccepted
WholeTextRead ==       \* Trailing = TRUE
    language = "simple" => Simple!WholeTextRead
NegativeNumbersToo ==  \* Negative = TRUE
    language = "cypher" => Cypher!NegativeNumbersToo
LexErrorSurfaces == language = "cypher" => Cypher!LexErrorSurfaces
=============================================================================
