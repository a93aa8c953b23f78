-------------------------------- MODULE Repl --------------------------------
(***************************************************************************)
(* The CLI in embedded mode: the loop over the user's lines, the meta-     *)
(* commands, and :run, which takes the lines of a file through the same    *)
(* handler, and through itself when the file has a :run.                   *)
(*                                                                         *)
(* A line is the command it stands for; "show" stands for all those that   *)
(* only print (:lang, :nodes, :edges, :labels, :schema, :stats, :time,     *)
(* :limit, :history, :clear, :help).                                       *)
(*                                                                         *)
(* Of the database there is what :seed, the one command that writes, puts  *)
(* into it: in memory, and in a log that later sessions open.  An insert   *)
(* is one step, and each may fail.                                         *)
(***************************************************************************)
EXTENDS Naturals, Sequences

CONSTANTS
    Lines,        \* what a user may enter
    Files,        \* path -> the lines of the file; a path not here cannot be read
    HistoryCap,   \* 100 in the code
    SampleNodes,  \* the cities :seed inserts, 5 in the code
    Rails,        \* the pairs of them that it then connects, 6 in the code
    FailedAppends, \* what a failing append leaves in the file: "nothing", a
                  \* "part" of the record, all of its "line" but the line feed
    MaxLines,     \* lines entered in one session
    MaxSessions,
    MaxBreaks,    \* writes that fail
    MaxDepth      \* :run inside :run, which the code does not bound

\* What an instance has to satisfy.
ReplAssumption ==
    /\ HistoryCap \in Nat \ {0} /\ SampleNodes \in Nat \ {0}
    /\ Rails \in Seq((1 .. SampleNodes) \X (1 .. SampleNodes))
    /\ FailedAppends \subseteq {"nothing", "part", "line"}
    /\ MaxLines \in Nat /\ MaxSessions \in Nat /\ MaxBreaks \in Nat /\ MaxDepth \in Nat

VARIABLES
    open,      \* the session goes on
    stack,     \* the files being run, innermost last: [path, next]
    lang, show_timing, result_limit, history,
    format,    \* of the log, "json" or "binary"
    known,     \* the cities and rails in memory
    gen,       \* the id generator: [node, edge]
    log,       \* the cities and rails that a replay of the file finds,
    behind,    \* and those behind a torn record, which it may find or not
    tail,      \* how the file ends: "whole", "torn", or in a whole record
               \* "unended", without its line feed
    seeding,   \* the call of :seed in progress: what is next, and ids
    queries_executed,
    entered, sessions, breaks,
    last       \* the last line handled

state == <<lang, show_timing, result_limit, history>>
logFile == <<log, behind, tail>>
stored == <<format, known, gen, logFile, seeding, breaks>>
db == <<stored, queries_executed>>
replVars == <<open, stack, state, db, entered, sessions, last>>

Languages == {"simple", "cypher"}
NoLine == [kind |-> "none"]
NoSeeding == [next |-> 0, ids |-> <<>>]
Idle == seeding = NoSeeding

ReplInit ==
    /\ open = TRUE /\ stack = <<>>
    /\ lang = "simple" /\ show_timing = TRUE /\ result_limit = 50 /\ history = <<>>
    /\ entered = 0 /\ last = NoLine
    /\ format \in {"json", "binary"}
    /\ known = {} /\ gen = [node |-> 0, edge |-> 0] /\ seeding = NoSeeding
    /\ log = {} /\ behind = {} /\ tail = "whole"
    /\ queries_executed = 0 /\ sessions = 1 /\ breaks = 0

-----------------------------------------------------------------------------
(* The graph and the file.                                                 *)

City(id, c) == [kind |-> "city", id |-> id, city |-> c]
CitiesOf(g) == {x \in g : x.kind = "city"}
RailsOf(g) == {x \in g : x.kind = "rail"}

\* The keys of the engine's outgoing edges: an edge enters its source, be it a
\* node or not.
Counted == {x.id : x \in CitiesOf(known)} \cup {x.src : x \in RailsOf(known)}

Break == breaks < MaxBreaks /\ breaks' = breaks + 1

\* What is appended to a line without its line feed makes one bad line of two.
Appended(x) ==
    /\ IF tail = "whole" THEN log' = log \cup {x} /\ UNCHANGED behind
       ELSE behind' = behind \cup {x} /\ UNCHANGED log
    /\ tail' = IF tail = "whole" THEN "whole" ELSE "torn"

AppendFails(x) ==
    /\ Break /\ UNCHANGED behind
    /\ \/ "nothing" \in FailedAppends /\ UNCHANGED <<log, tail>>
       \/ "part" \in FailedAppends /\ tail' = "torn" /\ UNCHANGED log
       \/ /\ "line" \in FailedAppends /\ format = "json" /\ tail = "whole"
          /\ log' = log \cup {x} /\ tail' = "unended"

\* A bad line makes any replay an error.  A torn record of the binary log does
\* not, but the replay goes on in its bytes, and what is behind it is found or
\* passed over.  What it has passed over, later ones pass over too; what it has
\* found, they may pass over once more has been appended.
Readable == format = "json" => tail # "torn"

-----------------------------------------------------------------------------
(* One line.                                                               *)

Top == stack[Len(stack)]

\* record(): a line like the one before is not kept twice.
Recorded(line) ==
    LET grown == IF history # <<>> /\ history[Len(history)] = line THEN history
                 ELSE Append(history, line)
    IN  IF Len(grown) > HistoryCap THEN Tail(grown) ELSE grown

\* Mutant of Popped: the file's line is read again.
NotPopped == stack

\* The lines left to the files once the current one is taken.
Popped ==
    IF stack = <<>> THEN <<>> ELSE [stack EXCEPT ![Len(stack)].next = @ + 1]

\* split_lang_prefix and run_query_embedded: a query that fails to parse is
\* counted too.
RunQuery(line) ==
    /\ line.kind \in {"query", "comment"}
    /\ queries_executed' = queries_executed + 1
    /\ UNCHANGED <<open, stored, lang, show_timing, result_limit>> /\ stack' = Popped

\* A prefix in front of the query is not looked for, and no language parses
\* it; then nothing is executed or counted.
Explain(line) ==
    /\ line.kind = "explain"
    /\ queries_executed' = IF line.prefix = "" THEN queries_executed + 1 ELSE queries_executed
    /\ UNCHANGED <<open, stored, lang, show_timing, result_limit>> /\ stack' = Popped

\* seed_sample_graph refuses if there is something.
Seed(line) ==
    /\ line.kind = "seed"
    /\ seeding' = IF Counted = {} THEN [NoSeeding EXCEPT !.next = 1] ELSE NoSeeding
    /\ UNCHANGED <<format, known, gen, logFile, breaks>>
    /\ UNCHANGED <<open, queries_executed, lang, show_timing, result_limit>> /\ stack' = Popped

Use(line) ==
    /\ line.kind = "use"
    /\ lang' = line.lang
    /\ UNCHANGED <<open, db, show_timing, result_limit>> /\ stack' = Popped

SetTime(line) ==
    /\ line.kind = "time"
    /\ show_timing' = line.on
    /\ UNCHANGED <<open, db, lang, result_limit>> /\ stack' = Popped

\* A number; anything else prints the usage.
SetLimit(line) ==
    /\ line.kind = "limit"
    /\ result_limit' = IF line.n \in Nat THEN line.n ELSE result_limit
    /\ UNCHANGED <<open, db, lang, show_timing>> /\ stack' = Popped

Show(line) ==
    /\ line.kind = "show"
    /\ UNCHANGED <<open, db, lang, show_timing, result_limit>> /\ stack' = Popped

\* The graph in memory stays; the file becomes what a replay finds in it.
CompactLine(line) ==
    /\ line.kind = "compact"
    /\ \/ /\ Readable /\ tail' = "whole" /\ behind' = {} /\ UNCHANGED breaks
          /\ \E found \in SUBSET behind : log' = log \cup found
       \/ Readable /\ Break /\ UNCHANGED logFile
       \/ ~Readable /\ UNCHANGED <<logFile, breaks>>
    /\ UNCHANGED <<format, known, gen, seeding>>
    /\ UNCHANGED <<open, queries_executed, lang, show_timing, result_limit>> /\ stack' = Popped

Run(line) ==
    /\ line.kind = "run"
    /\ stack' = IF line.path \in DOMAIN Files
                THEN Append(Popped, [path |-> line.path, next |-> 1]) ELSE Popped
    /\ UNCHANGED <<open, db, lang, show_timing, result_limit>>

\* At the prompt :quit ends the session; in a file, that file.
Quit(line) ==
    /\ line.kind = "quit"
    /\ IF stack = <<>> THEN open' = FALSE /\ UNCHANGED stack
       ELSE stack' = SubSeq(stack, 1, Len(stack) - 1) /\ UNCHANGED open
    /\ UNCHANGED <<db, lang, show_timing, result_limit>>

Handle(line) ==
    /\ history' = Recorded(line)
    /\ last' = line
    /\ UNCHANGED sessions
    /\ \/ RunQuery(line) \/ Explain(line) \/ Seed(line) \/ Use(line) \/ SetTime(line)
       \/ SetLimit(line) \/ Show(line) \/ CompactLine(line) \/ Run(line) \/ Quit(line)

-----------------------------------------------------------------------------
(* :seed, insert by insert: the cities, then the rails between them.       *)

NextInsert(ids) ==
    IF seeding.next = SampleNodes + Len(Rails) THEN NoSeeding
    ELSE [next |-> seeding.next + 1, ids |-> ids]

NewCity == City(gen.node, seeding.next)

SeedsCity ==
    /\ open /\ seeding.next \in 1 .. SampleNodes
    /\ Appended(NewCity)
    /\ known' = known \cup {NewCity}
    /\ gen' = [gen EXCEPT !.node = @ + 1]
    /\ seeding' = NextInsert(Append(seeding.ids, gen.node))
    /\ UNCHANGED <<open, stack, state, format, queries_executed, entered, sessions, breaks, last>>

\* Mutant of SeedingFails: the loop goes on with the next city.
SeedingGoesOn ==
    /\ open /\ seeding.next \in 1 .. SampleNodes
    /\ AppendFails(NewCity)
    /\ gen' = [gen EXCEPT !.node = @ + 1]
    /\ seeding' = NextInsert(seeding.ids)
    /\ UNCHANGED <<open, stack, state, format, known, queries_executed, entered, sessions, last>>

\* A city that cannot be inserted ends the call; the id is spent.
SeedingFails ==
    /\ open /\ seeding.next \in 1 .. SampleNodes
    /\ AppendFails(NewCity)
    /\ gen' = [gen EXCEPT !.node = @ + 1]
    /\ seeding' = NoSeeding
    /\ UNCHANGED <<open, stack, state, format, known, queries_executed, entered, sessions, last>>

Rail(id, r, ids) ==
    [kind |-> "rail", id |-> id, rail |-> r, src |-> ids[Rails[r][1]], tgt |-> ids[Rails[r][2]]]

NextRail == seeding.next - SampleNodes
NewRail == Rail(gen.edge, NextRail, seeding.ids)

\* ids.get() finds both cities, as all have been inserted.  A rail that cannot
\* be inserted is only not counted.
SeedsRail ==
    /\ open /\ NextRail \in DOMAIN Rails
    /\ Rails[NextRail] \in (DOMAIN seeding.ids) \X (DOMAIN seeding.ids)
    /\ \/ Appended(NewRail) /\ known' = known \cup {NewRail} /\ UNCHANGED breaks
       \/ AppendFails(NewRail) /\ UNCHANGED known
    /\ gen' = [gen EXCEPT !.edge = @ + 1]
    /\ seeding' = NextInsert(seeding.ids)
    /\ UNCHANGED <<open, stack, state, format, queries_executed, entered, sessions, last>>

SeedStep == SeedsCity \/ SeedingFails \/ SeedsRail

-----------------------------------------------------------------------------
(* The loops.                                                              *)

\* Blank lines are passed over; at the prompt a line of # is a query.
Enter ==
    /\ open /\ Idle /\ stack = <<>> /\ entered < MaxLines
    /\ entered' = entered + 1
    /\ \E line \in Lines : line.kind # "blank" /\ Handle(line)

FileLine == Files[Top.path][Top.next]

NextInFile ==
    /\ open /\ Idle /\ stack # <<>> /\ Len(stack) =< MaxDepth
    /\ Top.next =< Len(Files[Top.path])
    /\ IF FileLine.kind \in {"blank", "comment"}
       THEN stack' = Popped /\ UNCHANGED <<open, state, db, sessions, last>>
       ELSE Handle(FileLine)
    /\ UNCHANGED entered

EndOfFile ==
    /\ open /\ Idle /\ stack # <<>>
    /\ Top.next > Len(Files[Top.path])
    /\ stack' = SubSeq(stack, 1, Len(stack) - 1)
    /\ UNCHANGED <<open, state, db, entered, sessions, last>>

\* Ctrl-D.
EndOfInput ==
    /\ open /\ Idle /\ stack = <<>>
    /\ open' = FALSE
    /\ UNCHANGED <<stack, state, db, entered, sessions, last>>

\* Ctrl-C, or the end of the machine, between any two writes.
Killed ==
    /\ open /\ open' = FALSE
    /\ stack' = <<>> /\ seeding' = NoSeeding
    /\ UNCHANGED <<state, format, known, gen, logFile, breaks, queries_executed,
                   entered, sessions, last>>

\* seed_from_node, or seed_from_edge, over the ids leaves the counter at n.
SeededPast(n, ids) == n \in {0} \cup {id + 1 : id \in ids} /\ \A id \in ids : id < n

\* The CLI is started again on the same file, and replays it; if it cannot, it
\* exits.
Restart ==
    /\ ~open /\ sessions < MaxSessions /\ Readable
    /\ \E found \in SUBSET behind : behind' = found /\ known' = log \cup found
    /\ \E n, e \in {0} \cup {x.id + 1 : x \in known'} :
          /\ SeededPast(n, {x.id : x \in CitiesOf(known')})
          /\ SeededPast(e, {x.id : x \in RailsOf(known')})
          /\ gen' = [node |-> n, edge |-> e]
    /\ open' = TRUE /\ lang' = "simple" /\ show_timing' = TRUE /\ result_limit' = 50
    /\ history' = <<>> /\ entered' = 0 /\ last' = NoLine
    /\ sessions' = sessions + 1 /\ queries_executed' = 0
    /\ UNCHANGED <<stack, format, log, tail, seeding, breaks>>

ReplNext ==
    Enter \/ NextInFile \/ EndOfFile \/ SeedStep \/ EndOfInput \/ Killed \/ Restart

\* The files are run, and :seed inserts, without waiting for anything.
ReplSpec ==
    ReplInit /\ [][ReplNext]_replVars /\ WF_replVars(NextInFile \/ EndOfFile \/ SeedStep)

-----------------------------------------------------------------------------
(* Properties.                                                             *)

\* However often :seed is entered, and whatever of it has failed or was cut
\* short, in this session or an earlier one, the database holds no city and no
\* rail twice, and no rail joins other cities than the list says, be it by ids
\* that have moved in the loop, or that are given out again to other cities
\* after a replay.  In a JSON log, which is read whole or not at all, a rail
\* never comes without its cities.
SampleGraphIntact ==
    /\ \A x, y \in CitiesOf(known) : x.city = y.city => x = y
    /\ \A x, y \in RailsOf(known) : x.rail = y.rail => x = y
    /\ \A r \in RailsOf(known), x \in CitiesOf(known) :
          /\ x.id = r.src => x.city = Rails[r.rail][1]
          /\ x.id = r.tgt => x.city = Rails[r.rail][2]
    /\ format = "json" =>
          \A r \in RailsOf(known) : {r.src, r.tgt} \subseteq {x.id : x \in CitiesOf(known)}

\* A :run comes back to the prompt, as long as no file runs itself.
RunReturns == stack # <<>> ~> stack = <<>>

\* "Does not execute the query - plan only."
ExplainPlansOnly ==
    [][last'.kind = "explain" => queries_executed' = queries_executed]_<<history, db, last, entered>>

\* ":quit / :exit     Exit the REPL"
QuitExits == last.kind = "quit" => ~open
=============================================================================
