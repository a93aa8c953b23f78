-------------------------- MODULE GraphServer_proofs --------------------------
(***************************************************************************)
(* Theorems about the server and its clients, for any number of clients    *)
(* of either kind and of requests.                                         *)
(***************************************************************************)
EXTENDS GraphServer, SequenceTheorems, TLAPS

-----------------------------------------------------------------------------
(* The lines on their way to the server.                                   *)

QueryLines ==
    [kind : {"query"}, prefix : Languages \cup {""}, outcome : Outcomes, n : Nat,
     typed : Languages \cup {""}]

UseLines == [kind : {"use"}, lang : Languages]

Lines == {Blank, QuitLine} \cup UseLines \cup QueryLines

LEMMA LineKinds ==
    /\ \A l \in UseLines : l.kind = "use" /\ l.lang \in Languages
    /\ \A l \in QueryLines :
          /\ l.kind = "query" /\ l.prefix \in Languages \cup {""}
          /\ l.outcome \in Outcomes /\ l.n \in Nat
    /\ Blank.kind = "blank" /\ QuitLine.kind = "quit" /\ NoLine.kind = "none"
BY DEF UseLines, QueryLines, Blank, QuitLine, NoLine

LEMMA LinesByKind ==
    ASSUME NEW l \in Lines
    PROVE  /\ l.kind = "use" => l \in UseLines
           /\ l.kind = "query" => l \in QueryLines
           /\ l.kind = "blank" <=> l = Blank
           /\ l.kind = "quit" <=> l = QuitLine
BY LineKinds DEF Lines

\* What a client may send.
LEMMA SentLines ==
    ASSUME NEW c \in Threads, sent[c] \in Nat, prompt[c] \in Languages
    PROVE  /\ \A typed \in Languages \cup {""}, outcome \in Outcomes :
                 LET means == IF typed = "" THEN prompt[c] ELSE typed
                 IN  QueryLine(means, outcome, sent[c], means) \in QueryLines
           /\ \A prefix \in Languages \cup {""}, outcome \in Outcomes :
                 QueryLine(prefix, outcome, sent[c], prefix) \in QueryLines
BY DEF QueryLines, QueryLine

-----------------------------------------------------------------------------
(* Types.                                                                  *)

Types ==
    /\ TypeOK
    /\ line \in [Threads -> {NoLine} \cup QueryLines]
    /\ prompt \in [Threads -> Languages]
    /\ request \in [Threads -> {NoLine} \cup Lines]
    /\ up \in [Threads -> Seq(Lines)]

LEMMA InitTypes == Init => Types
<1> SUFFICES ASSUME Init PROVE Types
  OBVIOUS
<1>1. 0 \in 0 .. MaxRequests
  BY ServerAssumption
<1>2. <<>> \in Seq(Lines)
  OBVIOUS
<1>3. /\ line \in [Threads -> {NoLine} \cup QueryLines]
      /\ prompt \in [Threads -> Languages]
      /\ request \in [Threads -> {NoLine} \cup Lines]
  BY DEF Init, Languages
<1> QED
  BY <1>1, <1>2, <1>3 DEF Init, SharedInit, Types, TypeOK, Languages

LEMMA TakenLine ==
    ASSUME Types, NEW c \in Threads, TakeLine(c)
    PROVE  /\ Head(up[c]) \in Lines
           /\ up' \in [Threads -> Seq(Lines)]
BY DEF Types, TakeLine

LEMMA ServeTypes ==
    ASSUME Types, NEW c \in Threads, Serve(c)
    PROVE  Types'
<1> USE DEF Types, TypeOK, session, connection, shared
<1>1. CASE Accept(c)
  BY <1>1 DEF Accept, Become
<1>2. CASE SkipBlank(c)
  BY <1>2, TakenLine DEF SkipBlank
<1>3. CASE SayBye(c)
  BY <1>3, TakenLine DEF SayBye, Become
<1>4. CASE SwitchLanguage(c)
  <2>1. Head(up[c]).lang \in Languages
    BY <1>4, TakenLine, LinesByKind, LineKinds DEF SwitchLanguage
  <2> QED BY <1>4, <2>1, TakenLine DEF SwitchLanguage
<1>5. CASE ReadQuery(c)
  <2>1. Head(up[c]) \in QueryLines
    BY <1>5, TakenLine, LinesByKind DEF ReadQuery
  <2> QED BY <1>5, <2>1, TakenLine DEF ReadQuery, Become
<1>6. CASE StartQuery(c)
  BY <1>6 DEF StartQuery, Lock, Become
<1>7. CASE StartPanics(c)
  BY <1>7 DEF StartPanics, LockPanics, Become
<1>8. CASE FinishQuery(c)
  BY <1>8 DEF FinishQuery, Unlock, Become
<1>9. CASE QueryPanics(c)
  BY <1>9 DEF QueryPanics, PanicHolding, Become
<1>10. CASE WriteResponse(c)
  BY <1>10 DEF WriteResponse, Become
<1>11. CASE SeeHangup(c)
  BY <1>11 DEF SeeHangup, Become
<1> QED
  BY <1>1, <1>2, <1>3, <1>4, <1>5, <1>6, <1>7, <1>8, <1>9, <1>10, <1>11 DEF Serve

LEMMA SendTypes ==
    ASSUME Types, NEW c \in Threads, NEW l \in Lines, Send(c, l),
           client' \in [Threads -> {"off", "awaiting", "ready", "gone"}]
    PROVE  Types'
<1>1. sent' \in [Threads -> 0 .. MaxRequests]
  BY ServerAssumption DEF Send, Types, TypeOK
<1>2. up' \in [Threads -> Seq(Lines)]
  BY DEF Send, Types
<1>3. request' \in [Threads -> {NoLine} \cup Lines]
  BY DEF Send, Types
<1> QED
  BY <1>1, <1>2, <1>3 DEF Send, Types, TypeOK, connection, shared

LEMMA ClientTypes ==
    ASSUME Types, NEW c \in Threads, Ask(c) \/ ReadReply(c)
    PROVE  Types'
<1>1. \A s \in {"awaiting", "ready", "gone"} :
         ClientIs(c, s) \/ UNCHANGED client =>
            client' \in [Threads -> {"off", "awaiting", "ready", "gone"}]
  BY DEF ClientIs, Types, TypeOK
<1>2. CASE Connect(c) \/ Leave(c) \/ CliUses(c) \/ ReadReply(c)
  <2> USE DEF Types, TypeOK, connection, shared, session
  <2>1. CASE Connect(c)
    BY <2>1 DEF Connect, ClientIs
  <2>2. CASE Leave(c)
    BY <2>2 DEF Leave, ClientIs
  <2>3. CASE CliUses(c)
    BY <2>3 DEF CliUses
  <2>4. CASE ReadReply(c)
    <3>1. client' \in [Threads -> {"off", "awaiting", "ready", "gone"}]
      BY <2>4 DEF ReadReply, ClientIs
    <3> QED BY <2>4, <3>1 DEF ReadReply
  <2> QED BY <1>2, <2>1, <2>2, <2>3, <2>4
<1>3. sent[c] \in Nat /\ prompt[c] \in Languages
  BY ServerAssumption DEF Types, TypeOK
<1>4. CASE CliQueries(c) \/ RawQueries(c)
  <2>1. PICK l \in QueryLines : Send(c, l) /\ ClientIs(c, "awaiting")
    BY <1>3, <1>4, SentLines DEF CliQueries, RawQueries
  <2> QED BY <1>1, <2>1, SendTypes DEF Lines
<1>5. CASE RawSwitches(c) \/ RawSendsBlank(c) \/ Quit(c)
  <2>1. \E l \in Lines : Send(c, l) /\ (ClientIs(c, "awaiting") \/ UNCHANGED client)
    BY <1>5 DEF RawSwitches, RawSendsBlank, Quit, Lines, UseLines, UseLine
  <2> QED BY <1>1, <2>1, SendTypes
<1> QED
  BY <1>2, <1>4, <1>5 DEF Ask

LEMMA NextTypes == Types /\ [Next]_vars => Types'
<1> SUFFICES ASSUME Types, [Next]_vars PROVE Types'
  OBVIOUS
<1>1. CASE UNCHANGED vars
  BY <1>1 DEF vars, shared, Types, TypeOK
<1>2. CASE Next
  BY <1>2, ServeTypes, ClientTypes DEF Next
<1> QED
  BY <1>1, <1>2

\* Every variable keeps its type: the server speaks one of its languages
\* whatever it is sent, and no client sends more than it may.
THEOREM TypeCorrect == Spec => []TypeOK
<1>1. Types => TypeOK
  BY DEF Types
<1> QED
  BY <1>1, InitTypes, NextTypes, PTL DEF Spec

-----------------------------------------------------------------------------
(* The mutex.                                                              *)

\* A thread executes a query exactly while it has the guard, and has then seen
\* every query that was completed before.
Guarded ==
    /\ \A c \in Threads : thread[c] = "executing" <=> holder = c
    /\ \A c \in Threads : holder = c => seen[c] = executed
    /\ executed = completed

LEMMA ServeGuarded ==
    ASSUME Types, Guarded, NEW c \in Threads, Serve(c)
    PROVE  Guarded'
<1> USE DEF Types, TypeOK, Guarded, connection, session, shared
<1>1. CASE Accept(c) \/ SayBye(c) \/ ReadQuery(c) \/ WriteResponse(c) \/ SeeHangup(c)
  BY <1>1 DEF Accept, SayBye, ReadQuery, WriteResponse, SeeHangup, TakeLine, Become
<1>2. CASE SkipBlank(c) \/ SwitchLanguage(c)
  BY <1>2 DEF SkipBlank, SwitchLanguage
<1>3. CASE StartQuery(c)
  BY <1>3, NoThreadAssumption DEF StartQuery, Lock, Become
<1>4. CASE StartPanics(c)
  BY <1>4 DEF StartPanics, LockPanics, Become
<1>5. CASE FinishQuery(c)
  BY <1>5, NoThreadAssumption DEF FinishQuery, Unlock, Become
<1>6. CASE QueryPanics(c)
  BY <1>6, NoThreadAssumption DEF QueryPanics, PanicHolding, Become
<1> QED
  BY <1>1, <1>2, <1>3, <1>4, <1>5, <1>6 DEF Serve

\* Clients have no part in it.
LEMMA ClientsLeaveServer ==
    ASSUME NEW c \in Threads, Ask(c) \/ ReadReply(c)
    PROVE  UNCHANGED <<shared, connection>>
BY DEF Ask, ReadReply, Connect, CliQueries, CliUses, RawQueries, RawSwitches, RawSendsBlank,
       Quit, Leave, Send, shared, connection

LEMMA NextGuarded == Types /\ Guarded /\ [Next]_vars => Guarded'
<1> SUFFICES ASSUME Types, Guarded, [Next]_vars PROVE Guarded'
  OBVIOUS
<1>1. CASE UNCHANGED <<shared, connection>>
  BY <1>1 DEF Guarded, shared, connection
<1>2. CASE Next
  BY <1>1, <1>2, ServeGuarded, ClientsLeaveServer DEF Next
<1> QED
  BY <1>1, <1>2 DEF vars, connection

\* However many connections there are, one query is in the database at a time,
\* and none misses what the one before it did, also after a panic.
THEOREM QueriesAreSerial == Spec => []OneQueryAtATime
<1>1. Init => Guarded
  BY NoThreadAssumption DEF Init, SharedInit, Guarded
<1>2. Guarded => OneQueryAtATime
  BY DEF Guarded, OneQueryAtATime
<1> QED
  BY <1>1, <1>2, InitTypes, NextTypes, NextGuarded, PTL DEF Spec

-----------------------------------------------------------------------------
(* Hanging up.                                                             *)

\* After :quit a client sends nothing more, so a :quit on its way to the server
\* is its last line.
QuitIsLast ==
    \A c \in Threads :
        /\ request[c] = QuitLine => client[c] \in {"awaiting", "gone"}
        /\ QuitLine \in ToSet(up[c]) => request[c] = QuitLine

LEMMA SendQuit ==
    ASSUME Types, QuitIsLast, NEW c \in Threads, NEW l \in Lines, Send(c, l),
           ClientIs(c, "awaiting") \/ (l = Blank /\ UNCHANGED client)
    PROVE  QuitIsLast'
<1>1. request[c] # QuitLine /\ client[c] = "ready"
  BY DEF QuitIsLast, Send
<1>2. QuitLine \notin ToSet(up[c])
  BY <1>1 DEF QuitIsLast
<1>3. up'[c] = Append(up[c], l) /\ request'[c] = l
  BY DEF Send, Types
<1>4. QuitLine \in ToSet(up'[c]) => l = QuitLine
  BY <1>2, <1>3 DEF ToSet, Types
<1>5. request'[c] = QuitLine => client'[c] \in {"awaiting", "gone"}
  BY <1>3, LineKinds DEF ClientIs, Types, TypeOK
<1>6. \A d \in Threads \ {c} :
        request'[d] = request[d] /\ client'[d] = client[d] /\ up'[d] = up[d]
  BY DEF Send, ClientIs, Types, TypeOK
<1> QED
  BY <1>3, <1>4, <1>5, <1>6 DEF QuitIsLast

LEMMA NextQuitIsLast == Types /\ QuitIsLast /\ [Next]_vars => QuitIsLast'
<1> SUFFICES ASSUME Types, QuitIsLast, [Next]_vars PROVE QuitIsLast'
  OBVIOUS
<1>1. CASE UNCHANGED <<client, request, up>>
  BY <1>1 DEF QuitIsLast
<1>2. ASSUME NEW c \in Threads, Serve(c) PROVE QuitIsLast'
  <2>1. UNCHANGED <<client, request>>
    BY <1>2 DEF Serve, Accept, SkipBlank, SayBye, SwitchLanguage, ReadQuery, StartQuery,
                StartPanics, FinishQuery, QueryPanics, WriteResponse, SeeHangup, session
  <2>2. CASE TakeLine(c)
    <3>1. ToSet(up'[c]) \subseteq ToSet(up[c])
      BY <2>2 DEF TakeLine, ToSet, Types
    <3>2. \A d \in Threads \ {c} : up'[d] = up[d]
      BY <2>2 DEF TakeLine, Types
    <3> QED BY <2>1, <3>1, <3>2 DEF QuitIsLast
  <2>3. CASE UNCHANGED up
    BY <1>1, <2>1, <2>3
  <2> QED
    BY <1>2, <2>2, <2>3
       DEF Serve, Accept, SkipBlank, SayBye, SwitchLanguage, ReadQuery, StartQuery,
           StartPanics, FinishQuery, QueryPanics, WriteResponse, SeeHangup
<1>3. ASSUME NEW c \in Threads, Ask(c) \/ ReadReply(c) PROVE QuitIsLast'
  <2>1. CASE Connect(c) \/ Leave(c) \/ ReadReply(c)
    BY <2>1 DEF Connect, Leave, ReadReply, ClientIs, QuitIsLast, Types, TypeOK
  <2>2. CASE CliUses(c)
    BY <1>1, <2>2 DEF CliUses
  <2>3. sent[c] \in Nat /\ prompt[c] \in Languages
    BY ServerAssumption DEF Types, TypeOK
  <2>4. CASE CliQueries(c) \/ RawQueries(c)
    <3>1. PICK l \in QueryLines : Send(c, l) /\ ClientIs(c, "awaiting")
      BY <2>3, <2>4, SentLines DEF CliQueries, RawQueries
    <3> QED BY <3>1, SendQuit DEF Lines
  <2>5. CASE RawSwitches(c) \/ RawSendsBlank(c) \/ Quit(c)
    <3>1. PICK l \in Lines : /\ Send(c, l)
                             /\ ClientIs(c, "awaiting") \/ (l = Blank /\ UNCHANGED client)
      BY <2>5 DEF RawSwitches, RawSendsBlank, Quit, Lines, UseLines, UseLine
    <3> QED BY <3>1, SendQuit
  <2> QED
    BY <1>3, <2>1, <2>2, <2>4, <2>5 DEF Ask
<1> QED
  BY <1>1, <1>2, <1>3 DEF Next, vars

LEMMA NextHangup == Types /\ QuitIsLast /\ NoOtherHangup /\ [Next]_vars => NoOtherHangup'
<1> SUFFICES ASSUME Types, QuitIsLast, NoOtherHangup, [Next]_vars PROVE NoOtherHangup'
  OBVIOUS
<1>1. CASE UNCHANGED vars
  BY <1>1 DEF vars, shared, NoOtherHangup
<1>2. ASSUME NEW c \in Threads, Serve(c) PROVE NoOtherHangup'
  <2>1. UNCHANGED <<client, request>> /\ (poisoned => poisoned')
    BY <1>2 DEF Serve, Accept, SkipBlank, SayBye, SwitchLanguage, ReadQuery, StartQuery,
                StartPanics, FinishQuery, QueryPanics, WriteResponse, SeeHangup, session,
                shared, Lock, LockPanics, Unlock, PanicHolding
  <2>2. \A d \in Threads \ {c} : thread'[d] = thread[d]
    BY <1>2 DEF Serve, Accept, SkipBlank, SayBye, SwitchLanguage, ReadQuery, StartQuery,
                StartPanics, FinishQuery, QueryPanics, WriteResponse, SeeHangup, connection,
                Become, Types, TypeOK
  <2>3. CASE SayBye(c)
    <3>1. Head(up[c]) \in ToSet(up[c])
      BY <2>3 DEF SayBye, TakeLine, ToSet, Types
    <3>2. request[c] = QuitLine
      BY <2>3, <3>1 DEF SayBye, QuitIsLast
    <3> QED BY <2>1, <2>2, <3>2 DEF NoOtherHangup
  <2>4. CASE StartPanics(c) \/ QueryPanics(c)
    BY <2>1, <2>2, <2>4 DEF StartPanics, LockPanics, QueryPanics, PanicHolding, shared,
                            NoOtherHangup
  <2>5. CASE SeeHangup(c)
    BY <2>1, <2>2, <2>5 DEF SeeHangup, NoOtherHangup
  <2>6. CASE thread'[c] = "closed" => thread[c] = "closed"
    BY <2>1, <2>2, <2>6 DEF NoOtherHangup
  <2>7. Serve(c) /\ ~SayBye(c) /\ ~StartPanics(c) /\ ~QueryPanics(c) /\ ~SeeHangup(c) =>
           (thread'[c] = "closed" => thread[c] = "closed")
    BY DEF Serve, Accept, SkipBlank, SwitchLanguage, ReadQuery, StartQuery, FinishQuery,
           WriteResponse, connection, Become, Types, TypeOK
  <2> QED
    BY <1>2, <2>3, <2>4, <2>5, <2>6, <2>7
<1>3. ASSUME NEW c \in Threads, Ask(c) \/ ReadReply(c) PROVE NoOtherHangup'
  <2>1. UNCHANGED <<thread, poisoned>>
    BY <1>3, ClientsLeaveServer DEF connection, shared
  <2>2. \A d \in Threads : request[d] = QuitLine \/ client[d] = "gone" =>
                             request'[d] = QuitLine \/ client'[d] = "gone"
    <3> USE DEF ClientIs, Types, TypeOK
    <3>1. CASE Connect(c) \/ Leave(c) \/ CliUses(c) \/ ReadReply(c)
      BY <3>1 DEF Connect, Leave, CliUses, ReadReply
    <3>2. ASSUME NEW l, Send(c, l), ClientIs(c, "awaiting") \/ UNCHANGED client
          PROVE  \A d \in Threads : request[d] = QuitLine \/ client[d] = "gone" =>
                                     request'[d] = QuitLine \/ client'[d] = "gone"
      BY <3>2 DEF Send, QuitIsLast
    <3> QED
      BY <1>3, <3>1, <3>2 DEF Ask, CliQueries, RawQueries, RawSwitches, RawSendsBlank, Quit
  <2> QED
    BY <2>1, <2>2 DEF NoOtherHangup
<1> QED
  BY <1>1, <1>2, <1>3 DEF Next

\* No refused query, blank line, switch of language or race of two clients makes
\* the server hang up: only :quit, a client that left, and a panic do.
THEOREM HangsUpForCause == Spec => []NoOtherHangup
<1>1. Init => QuitIsLast /\ NoOtherHangup
  BY DEF Init, QuitIsLast, NoOtherHangup, NoLine, QuitLine, ToSet
<1> QED
  BY <1>1, InitTypes, NextTypes, NextQuitIsLast, NextHangup, PTL DEF Spec

-----------------------------------------------------------------------------
(* Requests and responses.                                                 *)

\* A reply with its first line r answers the line l.
Answers(r, l) ==
    /\ r # END
    /\ l.kind = "query" =>
          r.text = "result" /\ r.n = l.n /\ (l.prefix # "" => r.lang = l.prefix)

AllBlank(s) == \A i \in 1 .. Len(s) : s[i] = Blank

BlanksThen(s, l) ==
    s # <<>> /\ \A i \in 1 .. Len(s) : s[i] = IF i = Len(s) THEN l ELSE Blank

\* Where a client and its thread are, together.
Unaccepted(c) == thread[c] = "none" /\ request[c] = NoLine /\ up[c] = <<>> /\ down[c] = <<>>

Asked(c) ==
    /\ thread[c] = "reading" /\ down[c] = <<>>
    /\ request[c] # Blank /\ BlanksThen(up[c], request[c])

InHand(c) ==
    /\ thread[c] \in {"locking", "executing"} /\ up[c] = <<>> /\ down[c] = <<>>
    /\ line[c] = request[c] /\ line[c] \in QueryLines

Answering(c) ==
    /\ thread[c] = "writing" /\ up[c] = <<>> /\ down[c] = <<>>
    /\ \E r : response[c] = <<r, END>> /\ Answers(r, request[c])

Answered(c) ==
    /\ thread[c] = "closed" \/ (thread[c] = "reading" /\ up[c] = <<>>)
    /\ \E r : down[c] = <<r, END>> /\ Answers(r, request[c])

HungUp(c) == thread[c] = "closed" /\ down[c] = <<>>

Idle(c) ==
    /\ thread[c] = "closed" \/ (thread[c] = "reading" /\ AllBlank(up[c]))
    /\ down[c] = <<>>
    /\ request[c].kind = "query" /\ reply[c] # <<>> => Answers(reply[c][1], request[c])

InStep(c) ==
    \/ client[c] = "off" /\ Unaccepted(c)
    \/ /\ client[c] = "awaiting"
       /\ \/ Unaccepted(c) \/ Asked(c) \/ InHand(c) \/ Answering(c) \/ Answered(c)
          \/ HungUp(c)
    \/ client[c] = "ready" /\ Idle(c)
    \/ client[c] = "gone"

\* The CLI's prefix is the language its user means.
Prefixed ==
    \A c \in CliClients : request[c].kind = "query" =>
        request[c].prefix = request[c].typed /\ request[c].prefix # ""

Wired ==
    /\ down = [c \in Threads |-> down[c]]
    /\ reply = [c \in Threads |-> reply[c]]
    /\ response = [c \in Threads |-> response[c]]

Protocol == Wired /\ Prefixed /\ \A c \in Threads : InStep(c)

LEMMA TailOfLines ==
    ASSUME NEW s \in Seq(Lines), s # <<>>
    PROVE  /\ Len(s) \in Nat /\ Len(s) > 0 /\ Head(s) = s[1] /\ 1 \in 1 .. Len(s)
           /\ Tail(s) \in Seq(Lines) /\ Len(Tail(s)) = Len(s) - 1
           /\ \A i \in 1 .. Len(Tail(s)) : Tail(s)[i] = s[i + 1] /\ i + 1 \in 1 .. Len(s)
OBVIOUS

LEMMA TakeBlanks ==
    ASSUME NEW s \in Seq(Lines), s # <<>>, AllBlank(s)
    PROVE  AllBlank(Tail(s))
BY TailOfLines DEF AllBlank

LEMMA TakeBlank ==
    ASSUME NEW s \in Seq(Lines), NEW l, l # Blank, Head(s) = Blank, BlanksThen(s, l)
    PROVE  BlanksThen(Tail(s), l)
<1>1. s # <<>> /\ Len(s) # 1
  BY TailOfLines DEF BlanksThen
<1>2. Len(Tail(s)) # 0
  BY <1>1, TailOfLines
<1>3. Tail(s) = <<>> => Len(Tail(s)) = Len(<<>>)
  OBVIOUS
<1>4. Tail(s) # <<>>
  BY <1>2, <1>3, EmptySeq, Zenon
<1>5. \A i \in 1 .. Len(Tail(s)) : i = Len(Tail(s)) <=> i + 1 = Len(s)
  BY <1>1, TailOfLines
<1> QED
  BY <1>1, <1>4, <1>5, TailOfLines DEF BlanksThen

LEMMA TakeLast ==
    ASSUME NEW s \in Seq(Lines), NEW l, BlanksThen(s, l), Head(s) # Blank
    PROVE  Head(s) = l /\ Tail(s) = <<>>
<1>1. Len(s) \in Nat /\ Len(s) > 0 /\ Head(s) = s[1] /\ 1 \in 1 .. Len(s)
  BY DEF BlanksThen
<1>2. Len(s) = 1 /\ s[1] = l
  BY <1>1 DEF BlanksThen
<1>3. Tail(s) \in Seq(Lines) /\ Len(Tail(s)) = 0
  BY <1>1, <1>2
<1> QED
  BY <1>1, <1>2, <1>3, EmptySeq

LEMMA AddLine ==
    ASSUME NEW s \in Seq(Lines), NEW l \in Lines, AllBlank(s)
    PROVE  BlanksThen(Append(s, l), l)
<1>1. Len(s) \in Nat /\ Append(s, l) # <<>> /\ Len(Append(s, l)) = Len(s) + 1
  OBVIOUS
<1>2. \A i \in 1 .. Len(s) + 1 : Append(s, l)[i] = IF i = Len(s) + 1 THEN l ELSE s[i]
  OBVIOUS
<1> QED
  BY <1>1, <1>2 DEF BlanksThen, AllBlank

LEMMA WriteTo ==
    ASSUME Wired, NEW c \in Threads, NEW lines, Write(c, lines)
    PROVE  /\ down'[c] = down[c] \o lines
           /\ down' = [d \in Threads |-> down'[d]]
           /\ \A d \in Threads \ {c} : down'[d] = down[d]
<1>1. DOMAIN down = Threads
  BY DEF Wired
<1> QED
  BY <1>1 DEF Write

LEMMA WriteReply ==
    ASSUME Wired, NEW c \in Threads, NEW r, Write(c, <<r, END>>), down[c] = <<>>
    PROVE  down'[c] = <<r, END>>
<1>1. <<r, END>> \in Seq({r, END})
  OBVIOUS
<1>2. <<>> \o <<r, END>> = <<r, END>>
  BY <1>1, ConcatEmptySeq
<1> QED
  BY <1>2, WriteTo

LEMMA ServeInStep ==
    ASSUME "split" \notin Outcomes, Types, Protocol, NEW c \in Threads, Serve(c)
    PROVE  InStep(c)'
<1> USE DEF Types, TypeOK, connection, session, shared
<1>1. /\ InStep(c) /\ Wired
      /\ UNCHANGED <<client, request, reply>>
      /\ thread' = [thread EXCEPT ![c] = thread'[c]]
  BY DEF Protocol, Serve, Accept, SkipBlank, SayBye, SwitchLanguage, ReadQuery, StartQuery,
         StartPanics, FinishQuery, QueryPanics, WriteResponse, SeeHangup, Become
<1> USE <1>1
<1>2. CASE Accept(c)
  <2>1. client[c] = "gone" \/ (client[c] = "awaiting" /\ Unaccepted(c))
    BY <1>2 DEF Accept, InStep, Idle, Asked, InHand, Answering, Answered, HungUp
  <2>2. CASE Unaccepted(c)
    <3>1. down'[c] = <<[text |-> "banner"], END>>
      BY <1>2, <2>2, WriteReply DEF Accept, Unaccepted
    <3>2. Answers([text |-> "banner"], request[c])
      BY <2>2, LineKinds DEF Unaccepted, Answers, END
    <3> QED BY <1>2, <2>1, <2>2, <3>1, <3>2 DEF Accept, Become, InStep, Answered, Unaccepted
  <2> QED BY <2>1, <2>2 DEF InStep
<1>3. CASE SkipBlank(c)
  <2>1. thread[c] = "reading" /\ up[c] # <<>> /\ up'[c] = Tail(up[c]) /\ Head(up[c]) = Blank
    BY <1>3 DEF SkipBlank, TakeLine
  <2>2. \/ client[c] = "gone"
        \/ client[c] = "ready" /\ Idle(c)
        \/ client[c] = "awaiting" /\ Asked(c)
    BY <2>1 DEF InStep, Unaccepted, InHand, Answering, Answered, HungUp
  <2>3. UNCHANGED <<thread, down>>
    BY <1>3 DEF SkipBlank
  <2>4. CASE client[c] = "ready" /\ Idle(c)
    <3>1. AllBlank(up'[c])
      BY <2>1, <2>4, TakeBlanks DEF Idle
    <3> QED BY <2>3, <2>4, <3>1 DEF Idle, InStep
  <2>5. CASE client[c] = "awaiting" /\ Asked(c)
    <3>1. BlanksThen(up'[c], request[c])
      BY <2>1, <2>5, TakeBlank DEF Asked
    <3> QED BY <2>3, <2>5, <3>1 DEF Asked, InStep
  <2> QED BY <2>2, <2>4, <2>5 DEF InStep
<1>4. ASSUME TakeLine(c), Head(up[c]) # Blank
      PROVE  /\ up'[c] = Tail(up[c])
             /\ \/ client[c] = "gone"
                \/ /\ client[c] = "awaiting" /\ down[c] = <<>>
                   /\ request[c] = Head(up[c]) /\ up'[c] = <<>>
  <2>1. thread[c] = "reading" /\ up[c] # <<>> /\ up'[c] = Tail(up[c])
    BY <1>4 DEF TakeLine
  <2>2. ~Idle(c)
    BY <1>4, <2>1 DEF Idle, AllBlank
  <2>3. client[c] = "gone" \/ (client[c] = "awaiting" /\ Asked(c))
    BY <2>1, <2>2 DEF InStep, Unaccepted, InHand, Answering, Answered, HungUp
  <2> QED BY <1>4, <2>1, <2>3, TakeLast DEF Asked
<1>5. CASE SayBye(c)
  <2>1. CASE client[c] = "awaiting"
    <3>1. down'[c] = <<[text |-> "bye"], END>>
      <4>1. TakeLine(c) /\ Head(up[c]) # Blank
        BY <1>5, LineKinds DEF SayBye
      <4>2. down[c] = <<>>
        BY <1>4, <2>1, <4>1
      <4>3. Write(c, <<[text |-> "bye"], END>>)
        BY <1>5 DEF SayBye
      <4> QED BY <4>2, <4>3, WriteReply
    <3>2. Answers([text |-> "bye"], request[c])
      BY <1>4, <1>5, <2>1, LineKinds DEF SayBye, Answers, END
    <3> QED BY <1>5, <2>1, <3>1, <3>2 DEF SayBye, Become, InStep, Answered
  <2> QED BY <1>4, <1>5, <2>1, LineKinds DEF SayBye, InStep
<1>6. CASE SwitchLanguage(c)
  <2>1. CASE client[c] = "awaiting"
    <3>1. down'[c] = <<[text |-> "OK"], END>>
      <4>1. TakeLine(c) /\ Head(up[c]) # Blank
        BY <1>6, LineKinds DEF SwitchLanguage
      <4>2. down[c] = <<>>
        BY <1>4, <2>1, <4>1
      <4>3. Write(c, <<[text |-> "OK"], END>>)
        BY <1>6 DEF SwitchLanguage
      <4> QED BY <4>2, <4>3, WriteReply
    <3>2. Answers([text |-> "OK"], request[c])
      BY <1>4, <1>6, <2>1, LineKinds DEF SwitchLanguage, Answers, END
    <3>3. thread'[c] = "reading" /\ up'[c] = <<>>
      BY <1>4, <1>6, <2>1, LineKinds DEF SwitchLanguage, TakeLine
    <3> QED BY <2>1, <3>1, <3>2, <3>3 DEF InStep, Answered
  <2> QED BY <1>4, <1>6, <2>1, LineKinds DEF SwitchLanguage, InStep
<1>7. CASE ReadQuery(c)
  <2>1. CASE client[c] = "awaiting"
    <3>1. Head(up[c]) \in QueryLines
      BY <1>7, TakenLine, LinesByKind DEF ReadQuery
    <3>2. request[c] = Head(up[c]) /\ up'[c] = <<>> /\ down'[c] = <<>>
      BY <1>4, <1>7, <2>1, LineKinds DEF ReadQuery
    <3> QED BY <1>7, <2>1, <3>1, <3>2 DEF ReadQuery, Become, InStep, InHand
  <2> QED BY <1>4, <1>7, <2>1, LineKinds DEF ReadQuery, InStep
<1>8. thread[c] \in {"locking", "executing"} =>
         client[c] = "gone" \/ (client[c] = "awaiting" /\ InHand(c))
  BY DEF InStep, Unaccepted, Idle, Asked, Answering, Answered, HungUp
<1>9. CASE StartQuery(c)
  BY <1>8, <1>9 DEF StartQuery, Become, InStep, InHand
<1>10. CASE StartPanics(c)
  BY <1>8, <1>10 DEF StartPanics, Become, InStep, InHand, HungUp
<1>11. CASE FinishQuery(c)
  <2>1. CASE client[c] = "awaiting"
    <3>1. InHand(c)
      BY <1>8, <1>11, <2>1 DEF FinishQuery
    <3>2. response'[c] = <<Text(c), END>>
      <4>1. line[c].outcome # "split"
        <5>1. line[c] \in QueryLines
          BY <3>1 DEF InHand
        <5>2. line[c].outcome \in Outcomes
          BY <5>1, LineKinds
        <5> QED BY <5>2
      <4>2. DOMAIN response = Threads
        BY DEF Wired
      <4> QED BY <1>11, <4>1, <4>2 DEF FinishQuery, ResponseTo
    <3>3. Answers(Text(c), request[c])
      BY <3>1 DEF InHand, Answers, Text, END, EffectiveLanguage
    <3> QED BY <1>11, <2>1, <3>1, <3>2, <3>3 DEF FinishQuery, Become, InStep, InHand, Answering
  <2> QED BY <1>8, <1>11, <2>1 DEF FinishQuery, InStep
<1>12. CASE QueryPanics(c)
  BY <1>8, <1>12 DEF QueryPanics, Become, InStep, InHand, HungUp
<1>13. CASE WriteResponse(c)
  <2>1. client[c] = "gone" \/ (client[c] = "awaiting" /\ Answering(c))
    BY <1>13 DEF WriteResponse, InStep, Unaccepted, Idle, Asked, InHand, Answered, HungUp
  <2>2. CASE Answering(c)
    <3>1. PICK r : response[c] = <<r, END>> /\ Answers(r, request[c])
      BY <2>2 DEF Answering
    <3>2. down'[c] = <<r, END>>
      BY <1>13, <2>2, <3>1, WriteReply DEF WriteResponse, Answering
    <3> QED BY <1>13, <2>1, <2>2, <3>1, <3>2 DEF WriteResponse, Become, InStep, Answering, Answered
  <2> QED BY <2>1, <2>2 DEF InStep
<1>14. CASE SeeHangup(c)
  BY <1>14 DEF SeeHangup, InStep
<1> QED
  BY <1>2, <1>3, <1>5, <1>6, <1>7, <1>9, <1>10, <1>11, <1>12, <1>13, <1>14 DEF Serve

LEMMA SendInStep ==
    ASSUME Types, Protocol, NEW c \in Threads, NEW l \in Lines, Send(c, l),
           \/ l # Blank /\ ClientIs(c, "awaiting")
           \/ l = Blank /\ UNCHANGED client
    PROVE  InStep(c)'
<1> USE DEF Types, TypeOK
<1>1. /\ UNCHANGED <<connection, reply, down>>
      /\ up'[c] = Append(up[c], l) /\ request'[c] = l
      /\ client[c] = "ready" /\ up[c] \in Seq(Lines)
  BY DEF Send
<1>2. Idle(c)
  BY <1>1 DEF Protocol, InStep
<1>3. BlanksThen(up[c], l) \/ AllBlank(up[c]) => up[c] \in Seq(Lines)
  BY <1>1
<1>4. CASE l # Blank /\ ClientIs(c, "awaiting")
  <2>1. client'[c] = "awaiting"
    BY <1>4 DEF ClientIs
  <2>2. CASE thread[c] = "closed"
    BY <1>1, <1>2, <2>1, <2>2 DEF Idle, InStep, HungUp, connection
  <2>3. CASE AllBlank(up[c]) /\ thread[c] = "reading"
    <3>1. BlanksThen(up'[c], l)
      BY <1>1, <2>3, AddLine
    <3> QED BY <1>1, <1>2, <1>4, <2>1, <2>3, <3>1 DEF Idle, InStep, Asked, connection
  <2> QED BY <1>2, <2>2, <2>3 DEF Idle
<1>5. CASE l = Blank /\ UNCHANGED client
  <2>1. AllBlank(up[c]) => AllBlank(up'[c])
    BY <1>1, <1>5, AddLine DEF BlanksThen, AllBlank
  <2>2. request'[c].kind # "query"
    BY <1>1, <1>5, LineKinds
  <2> QED BY <1>1, <1>2, <1>5, <2>1, <2>2 DEF Idle, InStep, connection
<1> QED
  BY <1>4, <1>5

\* read_until_end takes the whole response, or what a closed connection leaves.
LEMMA ReadInStep ==
    ASSUME Types, Protocol, NEW c \in Threads, ReadReply(c)
    PROVE  InStep(c)' /\ Wired'
<1> USE DEF Types, TypeOK
<1> DEFINE n == IF END \in ToSet(down[c])
                THEN CHOOSE i \in DOMAIN down[c] :
                        down[c][i] = END /\ \A j \in 1 .. i - 1 : down[c][j] # END
                ELSE Len(down[c]) + 1
<1>1. /\ client[c] = "awaiting" /\ (END \in ToSet(down[c]) \/ thread[c] = "closed")
      /\ reply' = [reply EXCEPT ![c] = SubSeq(down[c], 1, n - 1)]
      /\ down' = [down EXCEPT ![c] = SubSeq(@, n + 1, Len(@))]
      /\ client'[c] \in {"gone", "ready"}
      /\ UNCHANGED <<connection, request, up>>
  BY DEF ReadReply, ClientIs, connection
<1> HIDE DEF n
<1>2. DOMAIN down = Threads /\ DOMAIN reply = Threads
  BY DEF Protocol, Wired
<1>3. /\ reply'[c] = SubSeq(down[c], 1, n - 1)
      /\ down'[c] = SubSeq(down[c], n + 1, Len(down[c]))
  BY <1>1, <1>2
<1>7. Wired'
  <2>1. down' = [d \in Threads |-> down'[d]]
    BY <1>1, <1>2
  <2>2. reply' = [d \in Threads |-> reply'[d]]
    BY <1>1, <1>2
  <2>3. response' = response
    BY <1>1 DEF connection
  <2> QED BY <2>1, <2>2, <2>3 DEF Protocol, Wired
<1>4. Answered(c) \/ HungUp(c)
  <2>1. down[c] = <<>> => ToSet(down[c]) = {}
    BY DEF ToSet
  <2> QED BY <1>1, <2>1 DEF Protocol, InStep, Unaccepted, Asked, InHand, Answering
<1>5. CASE Answered(c)
  <2>1. PICK r : down[c] = <<r, END>> /\ Answers(r, request[c])
    BY <1>5 DEF Answered
  <2>2. n = 2
    <3>1. DOMAIN down[c] = 1 .. 2 /\ down[c][1] = r /\ down[c][2] = END
      BY <2>1
    <3>2. END \in ToSet(down[c])
      BY <3>1 DEF ToSet
    <3>3. \A i \in 1 .. 2 :
            (down[c][i] = END /\ \A j \in 1 .. i - 1 : down[c][j] # END) <=> i = 2
      <4> SUFFICES ASSUME NEW i \in 1 .. 2
                   PROVE  (down[c][i] = END /\ \A j \in 1 .. i - 1 : down[c][j] # END) <=> i = 2
        OBVIOUS
      <4>1. down[c][1] # END
        BY <2>1, <3>1 DEF Answers
      <4>2. i = 1 \/ i = 2
        OBVIOUS
      <4>3. CASE i = 1
        BY <4>1, <4>3
      <4>4. CASE i = 2
        <5>1. \A j \in 1 .. i - 1 : j = 1
          BY <4>4
        <5> QED BY <3>1, <4>1, <4>4, <5>1
      <4> QED BY <4>2, <4>3, <4>4
    <3> QED BY <3>1, <3>2, <3>3 DEF n
  <2>3. SubSeq(down[c], 1, 1) = <<r>> /\ SubSeq(down[c], 3, Len(down[c])) = <<>>
    <3>1. <<r, END>> \in Seq({r, END}) /\ <<r>> \in Seq({r, END})
      OBVIOUS
    <3>2. SubSeq(<<r, END>>, 1, 1) = <<r>>
      <4> DEFINE s == SubSeq(<<r, END>>, 1, 1)
      <4>1. \A i \in 1 .. 1 : <<r, END>>[i] \in {r, END}
        OBVIOUS
      <4>2. s \in Seq({r, END}) /\ Len(s) = 1 /\ s[1] = r
        BY <4>1, SubSeqProperties
      <4>3. Len(<<r>>) = 1 /\ <<r>>[1] = r
        OBVIOUS
      <4> HIDE DEF s
      <4>4. s = <<r>>
        BY <3>1, <4>2, <4>3, SeqEqual
      <4> QED BY <4>4 DEF s
    <3>3. Len(<<r, END>>) = 2
      OBVIOUS
    <3> QED BY <2>1, <3>2, <3>3, SubSeqEmpty
  <2>4. reply'[c] = <<r>> /\ down'[c] = <<>>
    BY <1>3, <2>2, <2>3
  <2>5. thread[c] = "closed" \/ (thread[c] = "reading" /\ AllBlank(up[c]))
    BY <1>5 DEF Answered, AllBlank
  <2>6. UNCHANGED <<thread, request, up>>
    BY <1>1 DEF connection
  <2>7. Idle(c)'
    <3>1. reply'[c][1] = r
      BY <2>4
    <3> QED BY <2>1, <2>4, <2>5, <2>6, <3>1 DEF Idle
  <2> QED BY <1>1, <1>7, <2>7 DEF InStep
<1>6. CASE HungUp(c)
  <2>1. n = 1
    BY <1>6 DEF HungUp, ToSet, n
  <2>2. SubSeq(<<>>, 1, 0) = <<>> /\ SubSeq(<<>>, 2, 0) = <<>>
    BY SubSeqEmpty
  <2>3. reply'[c] = <<>> /\ down'[c] = <<>>
    BY <1>3, <1>6, <2>1, <2>2 DEF HungUp
  <2> QED BY <1>1, <1>6, <1>7, <2>3 DEF InStep, Idle, HungUp, connection
<1> QED
  BY <1>4, <1>5, <1>6, <1>7

LEMMA AskInStep ==
    ASSUME Types, Protocol, NEW c \in Threads, Ask(c)
    PROVE  InStep(c)'
<1> USE DEF Types, TypeOK
<1>1. InStep(c)
  BY DEF Protocol
<1>2. CASE Connect(c)
  BY <1>1, <1>2 DEF Connect, ClientIs, InStep, Unaccepted, connection
<1>3. CASE CliUses(c)
  BY <1>1, <1>3 DEF CliUses, InStep, Idle, connection
<1>4. CASE Leave(c)
  BY <1>4 DEF Leave, ClientIs, InStep
<1>5. sent[c] \in Nat /\ prompt[c] \in Languages
  BY ServerAssumption
<1>6. CASE CliQueries(c) \/ RawQueries(c)
  <2>1. PICK l \in QueryLines : Send(c, l) /\ ClientIs(c, "awaiting")
    BY <1>5, <1>6, SentLines DEF CliQueries, RawQueries
  <2> QED BY <2>1, SendInStep, LineKinds DEF Lines
<1>7. CASE RawSwitches(c) \/ Quit(c)
  <2>1. PICK l \in UseLines \cup {QuitLine} : Send(c, l) /\ ClientIs(c, "awaiting")
    BY <1>7 DEF RawSwitches, Quit, UseLines, UseLine
  <2> QED BY <2>1, SendInStep, LineKinds DEF Lines
<1>8. CASE RawSendsBlank(c)
  BY <1>8, SendInStep DEF RawSendsBlank, Lines
<1> QED
  BY <1>2, <1>3, <1>4, <1>6, <1>7, <1>8 DEF Ask

\* A step of one client or its thread is none of another's.
OthersUntouched(c) ==
    \A d \in Threads \ {c} :
        /\ thread'[d] = thread[d] /\ line'[d] = line[d] /\ response'[d] = response[d]
        /\ client'[d] = client[d] /\ request'[d] = request[d] /\ reply'[d] = reply[d]
        /\ up'[d] = up[d] /\ down'[d] = down[d]

LEMMA ServeAlone ==
    ASSUME Types, Wired, NEW c \in Threads, Serve(c)
    PROVE  OthersUntouched(c) /\ Wired' /\ UNCHANGED request
<1> USE DEF OthersUntouched, connection, session
<1>1. DOMAIN response = Threads /\ DOMAIN line = Threads /\ DOMAIN up = Threads
  BY DEF Wired, Types
<1>2. CASE Accept(c) \/ SayBye(c) \/ SwitchLanguage(c) \/ WriteResponse(c)
  <2>1. /\ down' = [d \in Threads |-> down'[d]]
        /\ \A d \in Threads \ {c} : down'[d] = down[d]
    BY <1>2, WriteTo DEF Accept, SayBye, SwitchLanguage, WriteResponse
  <2>2. UNCHANGED <<line, response, session>>
    BY <1>2 DEF Accept, SayBye, SwitchLanguage, WriteResponse
  <2>3. \A d \in Threads \ {c} : thread'[d] = thread[d] /\ up'[d] = up[d]
    BY <1>1, <1>2 DEF Accept, SayBye, SwitchLanguage, WriteResponse, TakeLine, Become, Types,
                      TypeOK
  <2> QED BY <2>1, <2>2, <2>3 DEF Wired
<1>3. CASE SkipBlank(c) \/ ReadQuery(c)
  BY <1>1, <1>3 DEF SkipBlank, ReadQuery, TakeLine, Become, Types, TypeOK, Wired
<1>4. CASE StartQuery(c) \/ StartPanics(c) \/ QueryPanics(c) \/ SeeHangup(c)
  BY <1>4 DEF StartQuery, StartPanics, QueryPanics, SeeHangup, Become, Types, TypeOK, Wired
<1>5. CASE FinishQuery(c)
  <2>1. response' = [d \in Threads |-> response'[d]]
    BY <1>1, <1>5 DEF FinishQuery
  <2>2. UNCHANGED <<line, session, up, down>>
    BY <1>5 DEF FinishQuery
  <2>3. \A d \in Threads \ {c} : thread'[d] = thread[d] /\ response'[d] = response[d]
    BY <1>1, <1>5 DEF FinishQuery, Become, Types, TypeOK
  <2> QED BY <2>1, <2>2, <2>3 DEF Wired
<1> QED
  BY <1>2, <1>3, <1>4, <1>5 DEF Serve

LEMMA AskAlone ==
    ASSUME Types, NEW c \in Threads, Ask(c)
    PROVE  OthersUntouched(c) /\ UNCHANGED <<down, reply, response>>
<1> USE DEF OthersUntouched, connection, Types, TypeOK
<1>1. CASE Connect(c) \/ Leave(c) \/ CliUses(c)
  BY <1>1 DEF Connect, Leave, CliUses, ClientIs
<1>2. ASSUME NEW l, Send(c, l), ClientIs(c, "awaiting") \/ UNCHANGED client
      PROVE  OthersUntouched(c) /\ UNCHANGED <<down, reply, response>>
  BY <1>2 DEF Send, ClientIs
<1> QED
  BY <1>1, <1>2 DEF Ask, CliQueries, RawQueries, RawSwitches, RawSendsBlank, Quit

LEMMA ReadAlone ==
    ASSUME Types, Wired, NEW c \in Threads, ReadReply(c)
    PROVE  OthersUntouched(c) /\ UNCHANGED request
<1>1. DOMAIN down = Threads /\ DOMAIN reply = Threads
  BY DEF Wired
<1>2. PICK n : /\ reply' = [reply EXCEPT ![c] = SubSeq(down[c], 1, n - 1)]
               /\ down' = [down EXCEPT ![c] = SubSeq(@, n + 1, Len(@))]
  BY DEF ReadReply
<1>3. \A d \in Threads \ {c} : reply'[d] = reply[d] /\ down'[d] = down[d]
  BY <1>1, <1>2
<1> QED
  BY <1>3 DEF ReadReply, ClientIs, OthersUntouched, connection, Types, TypeOK

\* The CLI's user is taken at their word.
LEMMA AskPrefixed ==
    ASSUME Types, Prefixed, NEW c \in Threads, Ask(c)
    PROVE  Prefixed'
<1>1. CASE UNCHANGED request
  BY <1>1 DEF Prefixed
<1>2. ASSUME NEW l, Send(c, l),
             l.kind = "query" /\ c \in CliClients => l.prefix = l.typed /\ l.prefix # ""
      PROVE  Prefixed'
  BY <1>2, ServerAssumption DEF Send, Prefixed, Types
<1>3. CASE CliQueries(c)
  <2>1. PICK typed \in Languages \cup {""}, outcome \in Outcomes :
           LET means == IF typed = "" THEN prompt[c] ELSE typed
           IN  Send(c, QueryLine(means, outcome, sent[c], means))
    BY <1>3 DEF CliQueries
  <2> DEFINE means == IF typed = "" THEN prompt[c] ELSE typed
  <2>2. means # ""
    BY DEF Types, Languages
  <2>3. /\ QueryLine(means, outcome, sent[c], means).prefix = means
        /\ QueryLine(means, outcome, sent[c], means).typed = means
    BY DEF QueryLine
  <2> QED BY <1>2, <2>1, <2>2, <2>3
<1>4. CASE RawQueries(c)
  BY <1>2, <1>4 DEF RawQueries
<1>5. CASE RawSwitches(c) \/ RawSendsBlank(c) \/ Quit(c)
  <2>1. PICK l \in UseLines \cup {Blank, QuitLine} : Send(c, l)
    BY <1>5 DEF RawSwitches, RawSendsBlank, Quit, UseLines, UseLine
  <2> QED BY <1>2, <2>1, LineKinds
<1>6. CASE Connect(c) \/ Leave(c) \/ CliUses(c)
  BY <1>1, <1>6 DEF Connect, Leave, CliUses
<1> QED
  BY <1>3, <1>4, <1>5, <1>6 DEF Ask

LEMMA NextProtocol ==
    ASSUME "split" \notin Outcomes, Types, Protocol, [Next]_vars
    PROVE  Protocol'
<1>1. CASE UNCHANGED vars
  <2>1. Wired' /\ Prefixed'
    BY <1>1 DEF vars, Protocol, Wired, Prefixed
  <2>2. ASSUME NEW d \in Threads PROVE InStep(d)'
    <3>1. InStep(d)
      BY DEF Protocol
    <3> QED BY <1>1, <3>1 DEF vars, InStep, Unaccepted, Asked, InHand, Answering, Answered,
                              HungUp, Idle
  <2> QED BY <2>1, <2>2 DEF Protocol
<1>2. ASSUME NEW c \in Threads, OthersUntouched(c), InStep(c)'
      PROVE  \A d \in Threads : InStep(d)'
  <2>1. ASSUME NEW d \in Threads, d # c PROVE InStep(d)'
    BY <1>2, <2>1 DEF OthersUntouched, Protocol, InStep, Unaccepted, Asked, InHand, Answering,
                      Answered, HungUp, Idle
  <2> QED BY <1>2, <2>1
<1>3. ASSUME NEW c \in Threads, Serve(c) PROVE Protocol'
  <2>1. OthersUntouched(c) /\ Wired' /\ UNCHANGED request
    BY <1>3, ServeAlone DEF Protocol
  <2>2. Prefixed'
    BY <2>1 DEF Protocol, Prefixed
  <2> QED BY <1>2, <1>3, <2>1, <2>2, ServeInStep DEF Protocol
<1>4. ASSUME NEW c \in Threads, Ask(c) PROVE Protocol'
  <2>1. OthersUntouched(c) /\ UNCHANGED <<down, reply, response>>
    BY <1>4, AskAlone
  <2>2. Wired'
    BY <2>1 DEF Protocol, Wired
  <2>3. Prefixed'
    BY <1>4, AskPrefixed DEF Protocol
  <2> QED BY <1>2, <1>4, <2>1, <2>2, <2>3, AskInStep DEF Protocol
<1>5. ASSUME NEW c \in Threads, ReadReply(c) PROVE Protocol'
  <2>1. OthersUntouched(c) /\ UNCHANGED request
    BY <1>5, ReadAlone DEF Protocol
  <2>2. Prefixed'
    BY <2>1 DEF Protocol, Prefixed
  <2> QED BY <1>2, <1>5, <2>1, <2>2, ReadInStep DEF Protocol
<1> QED
  BY <1>1, <1>3, <1>4, <1>5 DEF Next

LEMMA ProtocolHolds ==
    ASSUME "split" \notin Outcomes
    PROVE  Spec => [](Types /\ Protocol)
<1>1. ASSUME Init PROVE Protocol
  <2>1. Wired
    BY <1>1 DEF Init, Wired
  <2>2. Prefixed
    BY <1>1, LineKinds, ServerAssumption DEF Init, Prefixed
  <2>3. \A c \in Threads : InStep(c)
    BY <1>1 DEF Init, InStep, Unaccepted
  <2> QED BY <2>1, <2>2, <2>3 DEF Protocol
<1>2. Types /\ Protocol /\ [Next]_vars => Protocol'
  BY NextProtocol
<1> QED
  BY <1>1, <1>2, InitTypes, NextTypes, PTL DEF Spec

\* As long as no response has a line ---END--- in its text, every client reads
\* the response to the query it asked last: the stream never falls behind,
\* whatever blank lines, switches, panics and other clients there are.
THEOREM RepliesMatch ==
    ASSUME "split" \notin Outcomes
    PROVE  Spec => []ReplyIsForRequest
<1>1. Types /\ Protocol => ReplyIsForRequest
  BY DEF Protocol, InStep, Idle, Answers, ReplyIsForRequest
<1> QED
  BY <1>1, ProtocolHolds, PTL

\* Under the same condition a CLI's query runs in the language its user meant,
\* although the CLI never tells the server of a :use.
THEOREM LanguageIsTheUsers ==
    ASSUME "split" \notin Outcomes
    PROVE  Spec => []RunsInTheLanguageMeant
<1>1. Types /\ Protocol => RunsInTheLanguageMeant
  BY ServerAssumption DEF Protocol, InStep, Idle, Answers, Prefixed, RunsInTheLanguageMeant
<1> QED
  BY <1>1, ProtocolHolds, PTL
=============================================================================
