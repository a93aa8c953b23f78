---------------------------- MODULE GraphServer ----------------------------
(***************************************************************************)
(* GraphServer and its clients.  Each connection has a thread of its own   *)
(* that reads a line, runs it against the SharedDatabase and writes the    *)
(* response; a client sends a line and reads until the line ---END---.     *)
(*                                                                         *)
(* A client is the CLI in remote mode, or any program that writes lines    *)
(* itself ("raw", as the protocol's examples do with nc).  A line is one   *)
(* of the kinds the server tells apart; a query is further told by what    *)
(* becomes of it: it is answered, refused, makes the thread panic, or is   *)
(* answered with a text that has a line ---END--- in it.  A connection's   *)
(* thread is named as its client is.                                       *)
(***************************************************************************)
EXTENDS SharedDatabase, SequencesExt

CONSTANTS
    CliClients,   \* the clients that are a CLI; the others are raw
    Outcomes,     \* of queries: a subset of {"ok", "refused", "panics", "split"}
    MaxRequests   \* lines one client sends

ASSUME ServerAssumption ==
    /\ CliClients \subseteq Threads
    /\ MaxRequests \in Nat

VARIABLES
    thread,     \* what the connection's thread is doing
    line,       \* the line it works on
    response,   \* what it is about to write
    lang,       \* its language for lines without a prefix
    client,     \* what the client is doing
    request,    \* the last line the client sent
    sent,       \* how many it has sent
    reply,      \* the lines of the response it read last
    prompt,     \* state.lang of a CLI
    up, down    \* what is on its way to the server, and back

connection == <<thread, line, response, lang>>
session == <<client, request, sent, reply, prompt>>
vars == <<shared, thread, line, response, lang, client, request, sent, reply,
          prompt, up, down>>

Languages == {"simple", "cypher"}
END == [text |-> "---END---"]

NoLine == [kind |-> "none"]
Blank == [kind |-> "blank"]
QuitLine == [kind |-> "quit"]
UseLine(l) == [kind |-> "use", lang |-> l]

\* `prefix` is a language, or "" for none; n numbers the client's lines, and
\* `typed` is the language its user means.
QueryLine(prefix, outcome, n, typed) ==
    [kind |-> "query", prefix |-> prefix, outcome |-> outcome, n |-> n, typed |-> typed]

Init ==
    /\ SharedInit
    /\ thread = [c \in Threads |-> "none"]
    /\ line = [c \in Threads |-> NoLine]
    /\ response = [c \in Threads |-> <<>>]
    /\ lang = [c \in Threads |-> "simple"]
    /\ client = [c \in Threads |-> "off"]
    /\ request = [c \in Threads |-> NoLine]
    /\ sent = [c \in Threads |-> 0]
    /\ reply = [c \in Threads |-> <<>>]
    /\ prompt = [c \in Threads |-> "simple"]
    /\ up = [c \in Threads |-> <<>>] /\ down = [c \in Threads |-> <<>>]

-----------------------------------------------------------------------------
(* The server: handle_connection.                                          *)

Become(c, state) == thread' = [thread EXCEPT ![c] = state]
Write(c, lines) == down' = [down EXCEPT ![c] = @ \o lines]

\* accept, spawn, and the banner.
Accept(c) ==
    /\ client[c] # "off" /\ thread[c] = "none"
    /\ Become(c, "reading")
    /\ Write(c, <<[text |-> "banner"], END>>)
    /\ UNCHANGED <<shared, line, response, lang, session, up>>

\* The next line that is not blank: :quit, a switch of language, or a query.
TakeLine(c) ==
    /\ thread[c] = "reading" /\ up[c] # <<>>
    /\ up' = [up EXCEPT ![c] = Tail(@)]

\* Mutant of SkipBlank: a blank line gets an answer as well.
AnswerBlank(c) ==
    /\ TakeLine(c) /\ Head(up[c]) = Blank
    /\ Write(c, <<[text |-> "ERR"], END>>)
    /\ UNCHANGED <<shared, connection, session>>

SkipBlank(c) ==
    /\ TakeLine(c) /\ Head(up[c]) = Blank
    /\ UNCHANGED <<shared, connection, session, down>>

SayBye(c) ==
    /\ TakeLine(c) /\ Head(up[c]) = QuitLine
    /\ Write(c, <<[text |-> "bye"], END>>)
    /\ Become(c, "closed")
    /\ UNCHANGED <<shared, line, response, lang, session>>

SwitchLanguage(c) ==
    /\ TakeLine(c) /\ Head(up[c]).kind = "use"
    /\ lang' = [lang EXCEPT ![c] = Head(up[c]).lang]
    /\ Write(c, <<[text |-> "OK"], END>>)
    /\ UNCHANGED <<shared, thread, line, response, session>>

ReadQuery(c) ==
    /\ TakeLine(c) /\ Head(up[c]).kind = "query"
    /\ line' = [line EXCEPT ![c] = Head(up[c])]
    /\ Become(c, "locking")
    /\ UNCHANGED <<shared, response, lang, session, down>>

\* Mutant of StartQuery: it does not wait for the guard.
StartUnlocked(c) ==
    /\ thread[c] = "locking"
    /\ holder' = c /\ seen' = [seen EXCEPT ![c] = executed]
    /\ UNCHANGED <<poisoned, executed, completed>>
    /\ Become(c, "executing")
    /\ UNCHANGED <<line, response, lang, session, up, down>>

StartQuery(c) ==
    /\ thread[c] = "locking"
    /\ Lock(c)
    /\ Become(c, "executing")
    /\ UNCHANGED <<line, response, lang, session, up, down>>

\* A thread that panics drops its stream.
StartPanics(c) ==
    /\ thread[c] = "locking"
    /\ LockPanics(c)
    /\ Become(c, "closed")
    /\ UNCHANGED <<line, response, lang, session, up, down>>

EffectiveLanguage(c) == IF line[c].prefix = "" THEN lang[c] ELSE line[c].prefix

\* The line of its text a response shows, with the query it answers.
Text(c) == [text |-> "result", n |-> line[c].n, lang |-> EffectiveLanguage(c)]

ResponseTo(c) ==
    IF line[c].outcome = "split" THEN <<Text(c), END, Text(c), END>> ELSE <<Text(c), END>>

\* Mutant of FinishQuery: a query that is refused keeps the guard.
FinishKeepsGuard(c) ==
    /\ thread[c] = "executing" /\ line[c].outcome # "panics"
    /\ IF line[c].outcome = "refused" THEN UNCHANGED shared ELSE Unlock(c)
    /\ response' = [response EXCEPT ![c] = ResponseTo(c)]
    /\ Become(c, "writing")
    /\ UNCHANGED <<line, lang, session, up, down>>

FinishQuery(c) ==
    /\ thread[c] = "executing" /\ line[c].outcome # "panics"
    /\ Unlock(c)
    /\ response' = [response EXCEPT ![c] = ResponseTo(c)]
    /\ Become(c, "writing")
    /\ UNCHANGED <<line, lang, session, up, down>>

\* The parsers panic on an id too large for u64, with the database locked.
QueryPanics(c) ==
    /\ thread[c] = "executing" /\ line[c].outcome = "panics"
    /\ PanicHolding(c)
    /\ Become(c, "closed")
    /\ UNCHANGED <<line, response, lang, session, up, down>>

\* Mutant of WriteResponse: after an error the connection is closed.
WriteAndClose(c) ==
    /\ thread[c] = "writing"
    /\ Write(c, response[c])
    /\ Become(c, IF line[c].outcome = "refused" THEN "closed" ELSE "reading")
    /\ UNCHANGED <<shared, line, response, lang, session, up>>

WriteResponse(c) ==
    /\ thread[c] = "writing"
    /\ Write(c, response[c])
    /\ Become(c, "reading")
    /\ UNCHANGED <<shared, line, response, lang, session, up>>

\* lines() ends: the client is gone.
SeeHangup(c) ==
    /\ thread[c] = "reading" /\ up[c] = <<>> /\ client[c] = "gone"
    /\ Become(c, "closed")
    /\ UNCHANGED <<shared, line, response, lang, session, up, down>>

-----------------------------------------------------------------------------
(* The clients.                                                            *)

ClientIs(c, state) == client' = [client EXCEPT ![c] = state]

Connect(c) ==
    /\ client[c] = "off"
    /\ ClientIs(c, "awaiting")
    /\ UNCHANGED <<shared, connection, request, sent, reply, prompt, up, down>>

Send(c, l) ==
    /\ client[c] = "ready" /\ sent[c] < MaxRequests
    /\ up' = [up EXCEPT ![c] = Append(@, l)]
    /\ request' = [request EXCEPT ![c] = l]
    /\ sent' = [sent EXCEPT ![c] = @ + 1]
    /\ UNCHANGED <<shared, connection, reply, prompt, down>>

\* Mutant of CliQueries: the line goes out as it was typed.
CliQueriesBare(c) ==
    /\ c \in CliClients
    /\ \E prefix \in Languages \cup {""}, outcome \in Outcomes :
          Send(c, QueryLine(prefix, outcome, sent[c],
                            IF prefix = "" THEN prompt[c] ELSE prefix))
    /\ ClientIs(c, "awaiting")

\* The CLI always puts the language in front, the user's prefix or its own.
CliQueries(c) ==
    /\ c \in CliClients
    /\ \E typed \in Languages \cup {""}, outcome \in Outcomes :
          LET means == IF typed = "" THEN prompt[c] ELSE typed
          IN  Send(c, QueryLine(means, outcome, sent[c], means))
    /\ ClientIs(c, "awaiting")

\* :use is the CLI's own business.
CliUses(c) ==
    /\ c \in CliClients /\ client[c] = "ready"
    /\ \E l \in Languages \ {prompt[c]} : prompt' = [prompt EXCEPT ![c] = l]
    /\ UNCHANGED <<shared, connection, client, request, sent, reply, up, down>>

RawQueries(c) ==
    /\ c \notin CliClients
    /\ \E prefix \in Languages \cup {""}, outcome \in Outcomes :
          Send(c, QueryLine(prefix, outcome, sent[c], prefix))
    /\ ClientIs(c, "awaiting")

RawSwitches(c) ==
    /\ c \notin CliClients
    /\ \E l \in Languages : Send(c, UseLine(l))
    /\ ClientIs(c, "awaiting")

\* No response is due to a blank line.
RawSendsBlank(c) ==
    /\ c \notin CliClients
    /\ Send(c, Blank)
    /\ UNCHANGED client

Quit(c) ==
    /\ Send(c, QuitLine)
    /\ ClientIs(c, "awaiting")

\* read_until_end: the lines up to the first ---END---, or all there are once
\* the connection is closed, which reads like an empty response.
ReadReply(c) ==
    /\ client[c] = "awaiting"
    /\ END \in ToSet(down[c]) \/ thread[c] = "closed"
    /\ LET n == IF END \in ToSet(down[c])
                THEN CHOOSE i \in DOMAIN down[c] :
                        down[c][i] = END /\ \A j \in 1 .. i - 1 : down[c][j] # END
                ELSE Len(down[c]) + 1
       IN  /\ reply' = [reply EXCEPT ![c] = SubSeq(down[c], 1, n - 1)]
           /\ down' = [down EXCEPT ![c] = SubSeq(@, n + 1, Len(@))]
    /\ ClientIs(c, IF request[c] = QuitLine THEN "gone" ELSE "ready")
    /\ UNCHANGED <<shared, connection, request, sent, prompt, up>>

\* End of the client's input: it goes without a word.
Leave(c) ==
    /\ client[c] = "ready"
    /\ ClientIs(c, "gone")
    /\ UNCHANGED <<shared, connection, request, sent, reply, prompt, up, down>>

-----------------------------------------------------------------------------

Serve(c) ==
    \/ Accept(c) \/ SkipBlank(c) \/ SayBye(c) \/ SwitchLanguage(c) \/ ReadQuery(c)
    \/ StartQuery(c) \/ StartPanics(c) \/ FinishQuery(c) \/ QueryPanics(c)
    \/ WriteResponse(c) \/ SeeHangup(c)

Ask(c) ==
    \/ Connect(c) \/ CliQueries(c) \/ CliUses(c) \/ RawQueries(c) \/ RawSwitches(c)
    \/ RawSendsBlank(c) \/ Quit(c) \/ Leave(c)

Next == \E c \in Threads : Serve(c) \/ Ask(c) \/ ReadReply(c)

\* A thread that can go on does, and a client reads what has come.  A Mutex
\* promises no more: a thread might lose the race for it for ever, but against
\* clients that ask no more than MaxRequests times it cannot.
Fairness == \A c \in Threads : WF_vars(Serve(c)) /\ WF_vars(ReadReply(c))

Spec == Init /\ [][Next]_vars /\ Fairness

-----------------------------------------------------------------------------
(* Properties.                                                             *)

TypeOK ==
    /\ holder \in Threads \cup {NoThread} /\ poisoned \in BOOLEAN
    /\ executed \in Nat /\ completed \in Nat /\ seen \in [Threads -> Nat]
    /\ thread \in [Threads -> {"none", "reading", "locking", "executing", "writing", "closed"}]
    /\ lang \in [Threads -> Languages]
    /\ client \in [Threads -> {"off", "awaiting", "ready", "gone"}]
    /\ sent \in [Threads -> 0 .. MaxRequests]

\* Only one thread is inside the database at a time, the one with the guard,
\* so no query's update is lost to another's.
OneQueryAtATime ==
    /\ \A c \in Threads : thread[c] = "executing" => holder = c
    /\ executed = completed

\* What a client reads after a query is the response to that query, and not
\* what an earlier one left in the stream, or nothing because of a dead thread.
ReplyIsForRequest ==
    \A c \in Threads : client[c] = "ready" /\ request[c].kind = "query" /\ reply[c] # <<>> =>
        /\ reply[c][1].text = "result"
        /\ reply[c][1].n = request[c].n

\* A CLI's query is run in the language its prompt showed, or its prefix said.
RunsInTheLanguageMeant ==
    \A c \in CliClients : client[c] = "ready" /\ request[c].kind = "query" /\ reply[c] # <<>> =>
        reply[c][1].lang = request[c].typed

\* The server hangs up on a client only after :quit, once it has left, or when
\* a query has panicked.
NoOtherHangup ==
    \A c \in Threads :
        thread[c] = "closed" => request[c] = QuitLine \/ client[c] = "gone" \/ poisoned

\* A client that waits gets to go on, to a response or a closed connection.
EveryRequestEnds == \A c \in Threads : client[c] = "awaiting" ~> client[c] # "awaiting"

\* "This is correct for all workloads": a connection that asked nothing that
\* panics itself is not hung up on.
PanicStaysLocal ==
    \A c \in Threads : thread[c] = "closed" =>
        \/ request[c] = QuitLine \/ client[c] = "gone"
        \/ line[c].kind = "query" /\ line[c].outcome = "panics"
=============================================================================
