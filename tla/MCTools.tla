------------------------------ MODULE MCTools ------------------------------
(***************************************************************************)
(* The command-line tools for TLC.  A behaviour is of one of them: a few   *)
(* sessions of the REPL, with a line of every kind and two files, the one  *)
(* running the other; or a run of the runbook, on the sizes where its      *)
(* loops end early or wrap around.                                         *)
(***************************************************************************)
EXTENDS Runbook, Repl, TLC

CONSTANTS Cities, People, Runs

VARIABLE tool

MCConfigs == [cities : Cities, people : People, runs : Runs, serve : BOOLEAN]

Q(prefix) == [kind |-> "query", prefix |-> prefix]
MCLines ==
    {Q("cypher"), [kind |-> "explain", prefix |-> ""], [kind |-> "explain", prefix |-> "cypher"],
     [kind |-> "seed"], [kind |-> "use", lang |-> "cypher"], [kind |-> "time", on |-> FALSE],
     [kind |-> "limit", n |-> 0], [kind |-> "limit", n |-> -1], [kind |-> "show"],
     [kind |-> "compact"], [kind |-> "comment"], [kind |-> "blank"], [kind |-> "quit"],
     [kind |-> "run", path |-> "outer"], [kind |-> "run", path |-> "missing"]}

MCFiles ==
    ("outer" :> <<[kind |-> "comment"], Q(""), [kind |-> "run", path |-> "inner"],
                  [kind |-> "blank"], [kind |-> "seed"]>>)
    @@ ("inner" :> <<[kind |-> "use", lang |-> "simple"], [kind |-> "quit"], Q("")>>)

\* Two rails, there and back, between the first two cities.
MCRails == <<<<1, 2>>, <<2, 1>>>>

ASSUME ReplAssumption

mcvars == <<tool, vars, replVars>>

MCInit ==
    /\ Init /\ ReplInit
    /\ \/ tool = "runbook"
       \/ tool = "repl" /\ cfg = (CHOOSE c \in Configs : TRUE) /\ ~file

RunbookNext == tool = "runbook" /\ Next /\ UNCHANGED <<tool, replVars>>
SessionNext == tool = "repl" /\ ReplNext /\ UNCHANGED <<tool, vars>>
FileStep == tool = "repl" /\ (NextInFile \/ EndOfFile \/ SeedStep) /\ UNCHANGED <<tool, vars>>

\* The runbook and its threads run on; the REPL waits for its user, but never
\* in the middle of a file, nor of a :seed.
MCSpec ==
    MCInit /\ [][RunbookNext \/ SessionNext]_mcvars
           /\ WF_mcvars(RunbookNext) /\ WF_mcvars(FileStep)

-----------------------------------------------------------------------------
\* The runbook comes to an end, with no thread left waiting for the lock; and a
\* :run comes back to the prompt, as long as no file runs itself.
EachComesBack == (tool = "runbook" => RunEnds) /\ RunReturns

-----------------------------------------------------------------------------
(* Statements of the documentation and of the help texts that TLC refutes  *)
(* when one of them stands in Tools.cfg: ExplainPlansOnly as a PROPERTY,   *)
(* QuitExits as an INVARIANT, and so CleansUp and, with People = {5},      *)
(* KnowsNextTwo.  With FailedAppends = {"line"}, SampleGraphIntact.        *)
=============================================================================
