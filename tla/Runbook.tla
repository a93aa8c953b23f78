------------------------------ MODULE Runbook ------------------------------
(***************************************************************************)
(* The scale runbook: it fills a database in a temporary file, times       *)
(* queries, drives the SharedDatabase from many threads at once, and then  *)
(* serves the data or removes the file.                                    *)
(*                                                                         *)
(* People and cities are numbered as the vectors of their ids are.  The    *)
(* phases that only print (warming, schema, cache report) are no steps.    *)
(***************************************************************************)
EXTENDS SharedDatabase, Integers, FiniteSets, Sequences

CONSTANTS
    Configs,    \* of RunbookConfig: [cities, people, runs, serve]
    PerThread,  \* load_queries_per_thread; Threads are the concurrency
    MaxFaults   \* storage errors in one run

ASSUME RunbookAssumption ==
    /\ Configs \subseteq [cities : Nat, people : Nat, runs : Nat, serve : BOOLEAN]
    /\ PerThread \in Nat /\ MaxFaults \in Nat /\ IsFiniteSet(Threads)

VARIABLES
    cfg,
    phase,
    file,       \* db_path exists
    cities, people,  \* nodes inserted
    lives,      \* person -> the city of its LIVES_IN edge
    knows,      \* the KNOWS edges, in order
    turn,       \* the step of the loop at hand
    at, ok,     \* by thread: the loop variable i, and its count
    joined, total_ok,
    faults

NoCity == -1
graph == <<cities, people, lives, knows>>
load == <<at, ok, joined, total_ok>>
vars == <<shared, cfg, phase, file, graph, turn, load, faults>>

Init ==
    /\ SharedInit
    /\ cfg \in Configs
    /\ phase = "opening" /\ file \in BOOLEAN
    /\ cities = 0 /\ people = 0 /\ lives = <<>> /\ knows = <<>> /\ turn = 0
    /\ at = [t \in Threads |-> 0] /\ ok = [t \in Threads |-> 0]
    /\ joined = {} /\ total_ok = 0 /\ faults = 0

Goto(p) == phase' = p
Fault == faults < MaxFaults /\ faults' = faults + 1

\* expect() and unwrap() on a storage error: nothing is cleaned up.
Panics ==
    /\ phase \in {"opening", "cities", "people", "compacting"}
    /\ Fault
    /\ Goto("panicked")
    /\ file' \in IF phase = "opening" THEN BOOLEAN ELSE {file}
    /\ UNCHANGED <<shared, cfg, graph, turn, load>>

\* What an earlier run has left is removed first.
Open ==
    /\ phase = "opening"
    /\ file' = TRUE
    /\ Goto("cities")
    /\ UNCHANGED <<shared, cfg, graph, turn, load, faults>>

InsertCity ==
    /\ phase = "cities"
    /\ IF cities < cfg.cities THEN cities' = cities + 1 /\ UNCHANGED phase
       ELSE Goto("people") /\ UNCHANGED cities
    /\ UNCHANGED <<shared, cfg, file, people, lives, knows, turn, load, faults>>

InsertPerson ==
    /\ phase = "people"
    /\ IF people < cfg.people THEN people' = people + 1 /\ UNCHANGED phase
       ELSE Goto("lives_in") /\ UNCHANGED people
    /\ UNCHANGED <<shared, cfg, file, cities, lives, knows, turn, load, faults>>

\* An edge that cannot be inserted is left out without a word.
InsertLivesIn ==
    /\ phase = "lives_in"
    /\ IF cities > 0 /\ turn < people
       THEN /\ turn' = turn + 1 /\ UNCHANGED phase
            /\ \/ lives' = Append(lives, turn % cities) /\ UNCHANGED faults
               \/ Fault /\ lives' = Append(lives, NoCity)
       ELSE turn' = 0 /\ Goto("knows") /\ UNCHANGED <<lives, faults>>
    /\ UNCHANGED <<shared, cfg, file, cities, people, knows, load>>

Offsets == <<1, 3>>

\* Two turns for each person, one for each offset.
InsertKnows ==
    /\ phase = "knows"
    /\ IF people >= 2 /\ turn < 2 * people
       THEN LET i == turn \div 2
                j == (i + Offsets[(turn % 2) + 1]) % people
            IN  /\ turn' = turn + 1 /\ UNCHANGED phase
                /\ \/ knows' = Append(knows, <<i, j>>) /\ UNCHANGED faults
                   \/ Fault /\ UNCHANGED knows
       ELSE turn' = 0 /\ Goto("compacting") /\ UNCHANGED <<knows, faults>>
    /\ UNCHANGED <<shared, cfg, file, cities, people, lives, load>>

Compact ==
    /\ phase = "compacting"
    /\ Goto("benchmarks")
    /\ UNCHANGED <<shared, cfg, file, graph, turn, load, faults>>

\* The average divides by bench_runs.  Afterwards the metrics are reset, and
\* the threads of the load test are spawned.
Benchmarks ==
    /\ phase = "benchmarks"
    /\ Goto(IF cfg.runs = 0 THEN "panicked" ELSE "load")
    /\ UNCHANGED <<shared, cfg, file, graph, turn, load, faults>>

-----------------------------------------------------------------------------
(* The load test.                                                          *)

QueryStarts(t) ==
    /\ phase = "load" /\ at[t] < PerThread
    /\ Lock(t)
    /\ UNCHANGED <<cfg, phase, file, graph, turn, load, faults>>

QueryEnds(t) ==
    /\ phase = "load"
    /\ Unlock(t)
    /\ at' = [at EXCEPT ![t] = @ + 1]
    /\ \/ ok' = [ok EXCEPT ![t] = @ + 1] /\ UNCHANGED faults
       \/ Fault /\ UNCHANGED ok
    /\ UNCHANGED <<cfg, phase, file, graph, turn, joined, total_ok>>

\* Mutant of Join: the thread may be still at it.
JoinEarly(t) ==
    /\ phase = "load" /\ t \notin joined
    /\ joined' = joined \cup {t}
    /\ total_ok' = total_ok + ok[t]
    /\ UNCHANGED <<shared, cfg, phase, file, graph, turn, at, ok, faults>>

\* The main thread joins them one by one; which one first does not matter.
Join(t) ==
    /\ phase = "load" /\ t \notin joined /\ at[t] = PerThread
    /\ joined' = joined \cup {t}
    /\ total_ok' = total_ok + ok[t]
    /\ UNCHANGED <<shared, cfg, phase, file, graph, turn, at, ok, faults>>

\* A server runs until it is stopped.
Finish ==
    /\ phase = "load" /\ joined = Threads
    /\ file' = cfg.serve
    /\ Goto(IF cfg.serve THEN "serving" ELSE "done")
    /\ UNCHANGED <<shared, cfg, graph, turn, load, faults>>

Next ==
    \/ Open \/ InsertCity \/ InsertPerson \/ InsertLivesIn \/ InsertKnows \/ Compact
    \/ Benchmarks \/ Panics \/ Finish
    \/ \E t \in Threads : QueryStarts(t) \/ QueryEnds(t) \/ Join(t)

\* The process runs on, and so do its threads.
Spec == Init /\ [][Next]_vars /\ WF_vars(Next)

-----------------------------------------------------------------------------
(* Properties.                                                             *)

Over == phase \in {"done", "serving", "panicked"}

\* Once the load test is over every query it announced has been run and
\* counted, whatever the threads' order, and all but the failed ones are
\* reported as completed.
LoadTestAddsUp ==
    phase \in {"done", "serving"} =>
        /\ executed = PerThread * Cardinality(Threads)
        /\ total_ok >= executed - faults
        /\ total_ok =< executed

\* The run comes to an end: no thread is left waiting for the lock, or for a
\* thread to join.
RunEnds == <>Over

\* "Each person knows the next 2 people."
KnowsNextTwo ==
    \A k \in DOMAIN knows :
        LET i == knows[k][1]
        IN  knows[k][2] \in {(i + 1) % people, (i + 2) % people}

\* "runs all phases, prints results, then cleans up": whatever the options,
\* when it is over and serves nothing, the file is gone.
CleansUp == phase \in {"done", "panicked"} => ~file
=============================================================================
