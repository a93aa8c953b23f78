---------------------------- MODULE Tools_proofs ----------------------------
(***************************************************************************)
(* The load test of the runbook adds up for any number of threads and of   *)
(* queries, and what :seed leaves is the sample graph or a part of it, for *)
(* any lines, files, failures and sessions.                                *)
(***************************************************************************)
EXTENDS Runbook, Repl, FiniteSetTheorems, TLAPS

-----------------------------------------------------------------------------
(* The turns that the threads of S have taken, as many of each as f says.  *)

Turns(f, S) == {p \in S \X (1 .. PerThread) : p[2] =< f[p[1]]}

LEMMA TurnsFinite ==
    ASSUME NEW f, NEW S, S \subseteq Threads
    PROVE  IsFiniteSet(Turns(f, S)) /\ Cardinality(Turns(f, S)) \in Nat
<1>1. IsFiniteSet(S) /\ IsFiniteSet(1 .. PerThread)
  BY RunbookAssumption, FS_Subset, FS_Interval
<1>2. IsFiniteSet(S \X (1 .. PerThread))
  BY <1>1, FS_Product
<1> QED
  BY <1>2, FS_Subset, FS_CardinalityType DEF Turns

\* One more turn of a thread in S is one more turn, of another thread none.
LEMMA OneMoreTurn ==
    ASSUME NEW f \in [Threads -> Nat], NEW S, S \subseteq Threads, NEW t \in Threads,
           f[t] < PerThread
    PROVE  LET g == [f EXCEPT ![t] = @ + 1]
           IN Cardinality(Turns(g, S)) = Cardinality(Turns(f, S)) + (IF t \in S THEN 1 ELSE 0)
<1> DEFINE g == [f EXCEPT ![t] = @ + 1]
<1>1. CASE t \in S
  <2>1. Turns(g, S) = Turns(f, S) \cup {<<t, f[t] + 1>>}
    BY <1>1, RunbookAssumption DEF Turns
  <2>2. <<t, f[t] + 1>> \notin Turns(f, S)
    BY DEF Turns
  <2> QED BY <1>1, <2>1, <2>2, TurnsFinite, FS_AddElement
<1>2. CASE t \notin S
  <2>1. Turns(g, S) = Turns(f, S)
    BY <1>2 DEF Turns
  <2> QED BY <1>2, <2>1, TurnsFinite
<1> QED
  BY <1>1, <1>2

\* With a thread come its turns.
LEMMA OneMoreThread ==
    ASSUME NEW f \in [Threads -> Nat], NEW S, S \subseteq Threads, NEW t \in Threads \ S,
           f[t] =< PerThread
    PROVE  Cardinality(Turns(f, S \cup {t})) = Cardinality(Turns(f, S)) + f[t]
<1> DEFINE mine == {t} \X (1 .. f[t])
<1>1. Turns(f, S \cup {t}) = Turns(f, S) \cup mine /\ Turns(f, S) \cap mine = {}
  BY RunbookAssumption DEF Turns
<1>2. IsFiniteSet(mine) /\ Cardinality(mine) = f[t]
  <2>1. IsFiniteSet({t}) /\ Cardinality({t}) = 1
    BY FS_Singleton
  <2>2. IsFiniteSet(1 .. f[t]) /\ Cardinality(1 .. f[t]) = f[t]
    BY FS_Interval
  <2>3. IsFiniteSet(mine) /\ Cardinality(mine) = 1 * f[t]
    BY <2>1, <2>2, FS_Product
  <2> QED BY <2>3
<1>3. Cardinality(Turns(f, S) \cap mine) = 0
  BY <1>1, FS_EmptySet
<1>4. IsFiniteSet(Turns(f, S)) /\ Cardinality(Turns(f, S)) \in Nat
  BY TurnsFinite
<1> HIDE DEF mine
<1>5. Cardinality(Turns(f, S) \cup mine)
        = Cardinality(Turns(f, S)) + Cardinality(mine) - Cardinality(Turns(f, S) \cap mine)
  BY <1>2, <1>4, FS_Union
<1>6. f[t] \in Nat
  OBVIOUS
<1>7. Cardinality(Turns(f, S) \cup mine) = Cardinality(Turns(f, S)) + f[t]
  BY <1>2, <1>3, <1>4, <1>5, <1>6
<1> QED
  BY <1>1, <1>7

-----------------------------------------------------------------------------
(* The load test.                                                          *)

Typed ==
    /\ at \in [Threads -> Nat] /\ ok \in [Threads -> Nat] /\ seen \in [Threads -> Nat]
    /\ executed \in Nat /\ faults \in Nat
    /\ joined \subseteq Threads

\* Every turn taken has raised the counter, since the counter has not moved
\* while a query is under way; every turn not counted as ok is a fault; and
\* what the joined threads report is theirs.
LoadInv ==
    /\ Typed
    /\ \A t \in Threads : ok[t] =< at[t] /\ at[t] =< PerThread
    /\ \A t \in joined : at[t] = PerThread
    /\ holder \in Threads => at[holder] < PerThread /\ seen[holder] = executed
    /\ executed = Cardinality(Turns(at, Threads))
    /\ executed =< Cardinality(Turns(ok, Threads)) + faults
    /\ total_ok = Cardinality(Turns(ok, joined))
    /\ phase \in {"done", "serving"} => joined = Threads

LEMMA LoadInit == Init => LoadInv
<1> SUFFICES ASSUME Init PROVE LoadInv
  OBVIOUS
<1>1. ASSUME NEW S, S \subseteq Threads
      PROVE  Turns(at, S) = {} /\ Turns(ok, S) = {}
  <2>1. ASSUME NEW p \in S \X (1 .. PerThread)
        PROVE  ~(p[2] =< at[p[1]]) /\ ~(p[2] =< ok[p[1]])
    BY <1>1, <2>1, RunbookAssumption DEF Init
  <2> QED BY <2>1 DEF Turns
<1>2. Cardinality(Turns(at, Threads)) = 0 /\ Cardinality(Turns(ok, Threads)) = 0
  BY <1>1, FS_EmptySet
<1>3. Cardinality(Turns(ok, {})) = 0
  BY <1>1, FS_EmptySet
<1> QED
  BY <1>2, <1>3, NoThreadAssumption, RunbookAssumption DEF Init, SharedInit, LoadInv, Typed

\* A step of no thread leaves the load test alone.
LEMMA OthersKeep ==
    ASSUME LoadInv, UNCHANGED <<shared, load>>, faults' \in Nat, faults =< faults',
           phase' \in {"done", "serving"} => joined = Threads
    PROVE  LoadInv'
<1>1. Cardinality(Turns(ok, Threads)) \in Nat
  BY TurnsFinite
<1>2. Turns(at, Threads)' = Turns(at, Threads) /\ Turns(ok, Threads)' = Turns(ok, Threads)
      /\ Turns(ok, joined)' = Turns(ok, joined)
  BY DEF shared, load, Turns
<1> QED
  BY <1>1, <1>2 DEF LoadInv, Typed, shared, load

LEMMA QueryStartsKeeps ==
    ASSUME LoadInv, NEW t \in Threads, QueryStarts(t)
    PROVE  LoadInv'
<1>1. Turns(at, Threads)' = Turns(at, Threads) /\ Turns(ok, Threads)' = Turns(ok, Threads)
      /\ Turns(ok, joined)' = Turns(ok, joined)
  BY DEF QueryStarts, load, Turns
<1> QED
  BY <1>1 DEF LoadInv, Typed, QueryStarts, Lock, load

LEMMA QueryEndsKeeps ==
    ASSUME LoadInv, NEW t \in Threads, QueryEnds(t)
    PROVE  LoadInv'
<1>1. /\ holder = t /\ at[t] < PerThread /\ executed' = executed + 1 /\ holder' = NoThread
      /\ at' = [at EXCEPT ![t] = @ + 1] /\ seen' = seen
      /\ joined' = joined /\ total_ok' = total_ok /\ phase' = "load"
  BY DEF LoadInv, QueryEnds, Unlock
<1>2. t \notin joined /\ joined \subseteq Threads /\ ok[t] < PerThread
  BY <1>1, RunbookAssumption DEF LoadInv, Typed
<1>3. Cardinality(Turns(at', Threads)) = Cardinality(Turns(at, Threads)) + 1
  BY <1>1, OneMoreTurn DEF LoadInv, Typed
<1>4. Cardinality(Turns(ok, Threads)) \in Nat /\ Cardinality(Turns(ok, joined)) \in Nat
  BY <1>2, TurnsFinite
<1>5. CASE ok' = [ok EXCEPT ![t] = @ + 1] /\ UNCHANGED faults
  <2>1. Cardinality(Turns(ok', Threads)) = Cardinality(Turns(ok, Threads)) + 1
    BY <1>2, <1>5, OneMoreTurn DEF LoadInv, Typed
  <2>2. Cardinality(Turns(ok', joined)) = Cardinality(Turns(ok, joined))
    <3>1. ok \in [Threads -> Nat]
      BY DEF LoadInv, Typed
    <3>2. Cardinality(Turns(ok', joined)) = Cardinality(Turns(ok, joined)) + 0
      BY <1>2, <1>5, <3>1, OneMoreTurn
    <3> QED BY <1>4, <3>2
  <2> QED
    BY <1>1, <1>2, <1>3, <1>4, <1>5, <2>1, <2>2, RunbookAssumption, NoThreadAssumption
       DEF LoadInv, Typed, Turns
<1>6. CASE Fault /\ UNCHANGED ok
  BY <1>1, <1>2, <1>3, <1>4, <1>6, RunbookAssumption, NoThreadAssumption
     DEF LoadInv, Typed, Fault, Turns
<1> QED
  BY <1>5, <1>6 DEF QueryEnds

LEMMA JoinKeeps ==
    ASSUME LoadInv, NEW t \in Threads, Join(t)
    PROVE  LoadInv'
<1>1. Cardinality(Turns(ok, joined \cup {t})) = Cardinality(Turns(ok, joined)) + ok[t]
  BY OneMoreThread DEF LoadInv, Typed, Join
<1> QED
  BY <1>1 DEF LoadInv, Typed, Join, shared, Turns

LEMMA LoadNext == LoadInv /\ [Next]_vars => LoadInv'
<1> SUFFICES ASSUME LoadInv, [Next]_vars PROVE LoadInv'
  OBVIOUS
<1>1. CASE UNCHANGED vars
  BY <1>1, OthersKeep DEF vars, LoadInv, Typed
<1>2. CASE Open \/ InsertCity \/ InsertPerson \/ Compact \/ Benchmarks
  BY <1>2, OthersKeep
     DEF Open, InsertCity, InsertPerson, Compact, Benchmarks, Goto, LoadInv, Typed
<1>3. CASE InsertLivesIn \/ InsertKnows \/ Panics
  BY <1>3, OthersKeep DEF InsertLivesIn, InsertKnows, Panics, Fault, Goto, LoadInv, Typed
<1>4. CASE Finish
  BY <1>4, OthersKeep DEF Finish, LoadInv, Typed
<1> QED
  BY <1>1, <1>2, <1>3, <1>4, QueryStartsKeeps, QueryEndsKeeps, JoinKeeps DEF Next

\* When every thread has been joined all turns have been taken.
LEMMA AllTurns ==
    ASSUME LoadInv, joined = Threads
    PROVE  executed = PerThread * Cardinality(Threads)
<1>1. Turns(at, Threads) = Threads \X (1 .. PerThread)
  BY RunbookAssumption DEF LoadInv, Typed, Turns
<1>2. IsFiniteSet(1 .. PerThread) /\ Cardinality(1 .. PerThread) = PerThread
  BY RunbookAssumption, FS_Interval
<1>3. Cardinality(Threads \X (1 .. PerThread)) = Cardinality(Threads) * PerThread
  BY <1>2, RunbookAssumption, FS_Product
<1>4. Cardinality(Threads) \in Nat
  BY RunbookAssumption, FS_CardinalityType
<1> QED
  BY <1>1, <1>3, <1>4, RunbookAssumption DEF LoadInv

\* What the threads report is what they have done, less the faults.
LEMMA Reported ==
    ASSUME LoadInv, joined = Threads
    PROVE  total_ok >= executed - faults /\ total_ok =< executed
<1>1. Turns(ok, Threads) \subseteq Turns(at, Threads)
  BY RunbookAssumption DEF LoadInv, Typed, Turns
<1>2. Cardinality(Turns(ok, Threads)) =< Cardinality(Turns(at, Threads))
  BY <1>1, TurnsFinite, FS_Subset
<1>3. Cardinality(Turns(ok, Threads)) \in Nat
  BY TurnsFinite
<1> QED
  BY <1>2, <1>3 DEF LoadInv, Typed

\* However many threads there are and however they take turns, when the load
\* test is over each query has run once, and all but the failed are reported.
THEOREM LoadAddsUp == Spec => []LoadTestAddsUp
<1>1. LoadInv => LoadTestAddsUp
  BY AllTurns, Reported DEF LoadTestAddsUp, LoadInv
<1> QED
  BY <1>1, LoadInit, LoadNext, PTL DEF Spec

-----------------------------------------------------------------------------
(* The REPL, for any lines, files and bounds.                              *)

\* What every part of the sample graph has, and a part of a part as well.
PartOfSample(g) ==
    /\ \A x \in g : x.kind \in {"city", "rail"}
    /\ \A x \in CitiesOf(g) : x.id \in Nat /\ x.city \in 1 .. SampleNodes
    /\ \A r \in RailsOf(g) : r.id \in Nat /\ r.rail \in 1 .. Len(Rails)
    /\ \A x, y \in CitiesOf(g) : x.city = y.city \/ x.id = y.id => x = y
    /\ \A x, y \in RailsOf(g) : x.rail = y.rail => x = y
    /\ \A r \in RailsOf(g), x \in CitiesOf(g) :
          /\ x.id = r.src => x.city = Rails[r.rail][1]
          /\ x.id = r.tgt => x.city = Rails[r.rail][2]

NoLooseEnds(g) == \A r \in RailsOf(g) : {r.src, r.tgt} \subseteq {x.id : x \in CitiesOf(g)}

\* The call of :seed has inserted what comes before the next city or rail.
CallInv ==
    /\ seeding \in [next : 0 .. SampleNodes + Len(Rails), ids : Seq(Nat)]
    /\ open \/ Idle
    /\ seeding.next > 0 =>
          /\ \A x \in CitiesOf(known) : x.city < seeding.next
          /\ \A r \in RailsOf(known) : r.rail + SampleNodes < seeding.next
          /\ Len(seeding.ids) = IF seeding.next =< SampleNodes THEN seeding.next - 1 ELSE SampleNodes
          /\ \A c \in 1 .. Len(seeding.ids) : City(seeding.ids[c], c) \in known

\* The file has nothing that memory has not, so that whatever part of it is
\* replayed is a part of the sample graph; a JSON log has all of it.
FileInv ==
    /\ format \in {"json", "binary"} /\ tail \in {"whole", "torn"}
    /\ log \subseteq known /\ behind \subseteq known
    /\ format = "json" => NoLooseEnds(known) /\ (tail = "whole" => log = known)

SampleInv ==
    /\ gen \in [node : Nat, edge : Nat]
    /\ PartOfSample(known)
    /\ \A x \in CitiesOf(known) : x.id < gen.node
    /\ CallInv /\ FileInv

\* A failing append leaves no whole record.
NoStrayLine == "line" \notin FailedAppends

LEMMA SampleInit == ASSUME ReplAssumption PROVE ReplInit => SampleInv
<1> SUFFICES ASSUME ReplInit PROVE SampleInv
  OBVIOUS
<1>1. Len(Rails) \in Nat
  BY DEF ReplAssumption
<1> QED
  BY <1>1 DEF ReplInit, ReplAssumption, SampleInv, CallInv, FileInv, PartOfSample,
              NoLooseEnds, CitiesOf, RailsOf, Idle, NoSeeding

\* A line at most begins a call of :seed, in an empty database, or rewrites the
\* file.
LEMMA LineKeepsSample ==
    ASSUME ReplAssumption, SampleInv, Idle, open, NEW line, Handle(line)
    PROVE  SampleInv'
<1>1. CASE Seed(line)
  <2>1. CASE Counted = {}
    <3>1. known = {}
      <4> SUFFICES ASSUME NEW x \in known PROVE FALSE
        OBVIOUS
      <4>1. x \in CitiesOf(known) \/ x \in RailsOf(known)
        BY DEF SampleInv, PartOfSample, CitiesOf, RailsOf
      <4>2. x \in CitiesOf(known) => x.id \in Counted
        BY DEF Counted
      <4>3. x \in RailsOf(known) => x.src \in Counted
        BY DEF Counted
      <4> QED BY <2>1, <4>1, <4>2, <4>3
    <3>2. seeding' = [next |-> 1, ids |-> <<>>]
      BY <1>1, <2>1 DEF Seed, NoSeeding
    <3>3. UNCHANGED <<open, format, known, gen, log, behind, tail>>
      BY <1>1 DEF Seed, logFile
    <3>4. CallInv'
      BY <3>1, <3>2, <3>3 DEF CallInv, CitiesOf, RailsOf, ReplAssumption
    <3> QED
      BY <3>3, <3>4 DEF SampleInv, FileInv, PartOfSample, NoLooseEnds, CitiesOf, RailsOf
  <2>2. CASE Counted # {}
    BY <1>1, <2>2
       DEF Seed, SampleInv, CallInv, FileInv, PartOfSample, NoLooseEnds, CitiesOf, RailsOf,
           Idle, NoSeeding, logFile
  <2> QED BY <2>1, <2>2
<1>2. CASE CompactLine(line)
  <2>1. FileInv'
    BY <1>2 DEF CompactLine, SampleInv, FileInv, NoLooseEnds, CitiesOf, RailsOf, logFile, Readable
  <2> QED
    BY <1>2, <2>1 DEF CompactLine, SampleInv, CallInv, PartOfSample, CitiesOf, RailsOf, Idle
<1>3. CASE ~Seed(line) /\ ~CompactLine(line)
  <2>1. UNCHANGED stored
    BY <1>3 DEF Handle, RunQuery, Explain, Use, SetTime, SetLimit, Show, Run, Quit, db
  <2> QED
    BY <2>1 DEF stored, logFile, SampleInv, CallInv, FileInv, PartOfSample, NoLooseEnds,
                CitiesOf, RailsOf, Idle
<1> QED
  BY <1>1, <1>2, <1>3

\* A thing more in memory, and in the file or behind its tear.
LEMMA AppendedKeepsFile ==
    ASSUME FileInv, NEW x, Appended(x), known' = known \cup {x}, UNCHANGED format,
           format = "json" => NoLooseEnds(known \cup {x})
    PROVE  FileInv'
  BY DEF FileInv, Appended, NoLooseEnds, CitiesOf, RailsOf

LEMMA FailingKeepsFile ==
    ASSUME NoStrayLine, FileInv, NEW x, AppendFails(x), UNCHANGED <<format, known>>
    PROVE  FileInv'
  BY DEF FileInv, AppendFails, NoStrayLine, NoLooseEnds, CitiesOf, RailsOf

\* A city comes with an id of its own, before the rails.
LEMMA SeedsCityKeeps ==
    ASSUME ReplAssumption, SampleInv, SeedsCity
    PROVE  SampleInv'
<1> DEFINE n == seeding.next
<1>1. /\ n \in 1 .. SampleNodes /\ gen.node \in Nat /\ SampleNodes \in Nat
      /\ Len(Rails) \in Nat
      /\ NewCity = [kind |-> "city", id |-> gen.node, city |-> n]
  BY DEF SeedsCity, NewCity, City, SampleInv, ReplAssumption
<1>2. RailsOf(known) = {}
  BY <1>1 DEF SampleInv, CallInv, PartOfSample, RailsOf
<1>3. CitiesOf(known') = CitiesOf(known) \cup {NewCity} /\ RailsOf(known') = {}
  BY <1>1, <1>2 DEF SeedsCity, CitiesOf, RailsOf
<1>4. PartOfSample(known')
  <2>1. \A x \in known' : x.kind \in {"city", "rail"}
    BY <1>1 DEF SeedsCity, SampleInv, PartOfSample
  <2>2. ASSUME NEW x \in CitiesOf(known)
        PROVE  x.id < gen.node /\ x.city < n /\ x.id \in Nat /\ x.city \in 1 .. SampleNodes
    BY <1>1 DEF SampleInv, CallInv, PartOfSample
  <2>3. \A x, y \in CitiesOf(known') : x.city = y.city \/ x.id = y.id => x = y
    BY <1>1, <1>3, <2>2 DEF SampleInv, PartOfSample
  <2> QED
    BY <1>1, <1>3, <2>1, <2>2, <2>3 DEF PartOfSample
<1>5. FileInv'
  BY <1>3, AppendedKeepsFile DEF SeedsCity, SampleInv, NoLooseEnds
<1>6. CallInv'
  <2> DEFINE longer == Append(seeding.ids, gen.node)
  <2>1. Len(seeding.ids) = n - 1 /\ seeding.ids \in Seq(Nat)
        /\ \A c \in 1 .. n - 1 : City(seeding.ids[c], c) \in known
    BY <1>1 DEF SampleInv, CallInv
  <2>2. longer \in Seq(Nat) /\ Len(longer) = n
        /\ \A c \in 1 .. n : longer[c] = IF c = n THEN gen.node ELSE seeding.ids[c]
    BY <1>1, <2>1
  <2>3. \A c \in 1 .. n : City(longer[c], c) \in known'
    BY <1>1, <2>1, <2>2 DEF City, SeedsCity
  <2>4. \A x \in CitiesOf(known') : x.city < n + 1
    BY <1>1, <1>3 DEF SampleInv, CallInv, PartOfSample
  <2> HIDE DEF longer
  <2>5. seeding' = IF n = SampleNodes + Len(Rails) THEN NoSeeding ELSE [next |-> n + 1, ids |-> longer]
    BY DEF SeedsCity, NextInsert, longer
  <2> QED
    <3>1. open' /\ RailsOf(known') = {} /\ <<>> \in Seq(Nat)
      <4>1. open'
        BY DEF SeedsCity
      <4>2. <<>> \in Seq(Nat)
        OBVIOUS
      <4> QED BY <1>3, <4>1, <4>2
    <3>2. CASE n = SampleNodes + Len(Rails)
      BY <1>1, <2>5, <3>1, <3>2 DEF CallInv, NoSeeding
    <3>3. CASE n # SampleNodes + Len(Rails)
      <4>1. seeding'.next = n + 1 /\ seeding'.ids = longer
            /\ seeding' \in [next : 0 .. SampleNodes + Len(Rails), ids : Seq(Nat)]
        BY <1>1, <2>2, <2>5, <3>3
      <4>2. n = IF n + 1 =< SampleNodes THEN n + 1 - 1 ELSE SampleNodes
        BY <1>1
      <4> QED BY <2>2, <2>3, <2>4, <3>1, <4>1, <4>2 DEF CallInv
    <3> QED BY <3>2, <3>3
<1>7. gen' \in [node : Nat, edge : Nat] /\ \A x \in CitiesOf(known') : x.id < gen'.node
  <2>1. gen' = [gen EXCEPT !.node = @ + 1] /\ gen \in [node : Nat, edge : Nat]
    BY DEF SeedsCity, SampleInv
  <2>2. gen'.node = gen.node + 1 /\ gen' \in [node : Nat, edge : Nat]
    BY <2>1
  <2>3. \A x \in CitiesOf(known) : x.id < gen.node /\ x.id \in Nat
    BY DEF SampleInv, PartOfSample
  <2> QED BY <1>1, <1>3, <2>2, <2>3
<1> QED
  BY <1>4, <1>5, <1>6, <1>7 DEF SampleInv

LEMMA SeedingFailsKeeps ==
    ASSUME ReplAssumption, NoStrayLine, SampleInv, SeedingFails
    PROVE  SampleInv'
<1>1. FileInv'
  BY FailingKeepsFile DEF SeedingFails, SampleInv
<1>2. CallInv'
  BY DEF SeedingFails, SampleInv, CallInv, NoSeeding, Idle, ReplAssumption
<1> QED
  BY <1>1, <1>2 DEF SeedingFails, SampleInv, PartOfSample, CitiesOf, RailsOf

\* All cities are there; their ids tell them apart.
LEMMA SeedsRailKeeps ==
    ASSUME ReplAssumption, NoStrayLine, SampleInv, SeedsRail
    PROVE  SampleInv'
<1> DEFINE r == NextRail
           s == seeding.ids[Rails[r][1]]
           t == seeding.ids[Rails[r][2]]
<1>1. /\ r \in 1 .. Len(Rails) /\ SampleNodes \in Nat /\ Len(Rails) \in Nat
      /\ seeding.next = r + SampleNodes
      /\ Rails[r][1] \in 1 .. SampleNodes /\ Rails[r][2] \in 1 .. SampleNodes
      /\ gen.edge \in Nat
  <2>1. SampleNodes \in Nat \ {0} /\ Rails \in Seq((1 .. SampleNodes) \X (1 .. SampleNodes))
    BY DEF ReplAssumption
  <2>2. seeding.next \in 0 .. SampleNodes + Len(Rails) /\ gen.edge \in Nat
    BY DEF SampleInv, CallInv
  <2>3. r \in 1 .. Len(Rails) /\ Len(Rails) \in Nat
    BY <2>1 DEF SeedsRail
  <2>4. Rails[r] \in (1 .. SampleNodes) \X (1 .. SampleNodes)
    BY <2>1, <2>3
  <2>5. Rails[r][1] \in 1 .. SampleNodes /\ Rails[r][2] \in 1 .. SampleNodes
    BY <2>4
  <2>6. seeding.next = r + SampleNodes
    BY <2>1, <2>2, <2>3 DEF NextRail
  <2> QED BY <2>1, <2>2, <2>3, <2>5, <2>6
<1>2. Len(seeding.ids) = SampleNodes /\ seeding.ids \in Seq(Nat)
  BY <1>1 DEF SampleInv, CallInv
<1>3. /\ \A x \in CitiesOf(known) : x.city < seeding.next /\ x.city \in Nat
      /\ \A q \in RailsOf(known) : q.rail + SampleNodes < seeding.next /\ q.rail \in Nat
  BY <1>1 DEF SampleInv, CallInv, PartOfSample
<1>4. City(s, Rails[r][1]) \in known /\ City(t, Rails[r][2]) \in known /\ s \in Nat /\ t \in Nat
  <2>1. \A c \in 1 .. SampleNodes : City(seeding.ids[c], c) \in known
    <3>1. CallInv /\ seeding.next > 0
      BY <1>1 DEF SampleInv
    <3> QED BY <1>2, <3>1 DEF CallInv
  <2>2. \A c \in 1 .. SampleNodes : seeding.ids[c] \in Nat
    BY <1>2
  <2>3. ASSUME NEW c \in 1 .. SampleNodes
        PROVE  City(seeding.ids[c], c) \in known /\ seeding.ids[c] \in Nat
    BY <2>1, <2>2
  <2>4. Rails[r][1] \in 1 .. SampleNodes /\ Rails[r][2] \in 1 .. SampleNodes
    BY <1>1
  <2>5. City(s, Rails[r][1]) \in known /\ s \in Nat
    BY <2>3, <2>4
  <2>6. City(t, Rails[r][2]) \in known /\ t \in Nat
    BY <2>3, <2>4
  <2> QED BY <2>5, <2>6
<1>5. NewRail = [kind |-> "rail", id |-> gen.edge, rail |-> r, src |-> s, tgt |-> t]
  BY DEF NewRail, Rail
<1>6. ASSUME \A q \in RailsOf(known') : q.rail + SampleNodes < seeding.next + 1,
             \A x \in CitiesOf(known') : x.city < seeding.next + 1,
             \A c \in 1 .. Len(seeding.ids) : City(seeding.ids[c], c) \in known'
      PROVE  CallInv'
  <2>1. open' /\ seeding.next \in 1 .. SampleNodes + Len(Rails)
    BY <1>1 DEF SeedsRail
  <2>2. CASE seeding.next = SampleNodes + Len(Rails)
    <3>1. seeding' = [next |-> 0, ids |-> <<>>] /\ <<>> \in Seq(Nat)
      BY <2>2 DEF SeedsRail, NextInsert, NoSeeding
    <3> QED BY <1>1, <2>1, <3>1 DEF CallInv
  <2>3. CASE seeding.next # SampleNodes + Len(Rails)
    <3>1. seeding' = [next |-> seeding.next + 1, ids |-> seeding.ids]
      BY <2>3 DEF SeedsRail, NextInsert
    <3>2. seeding'.next = seeding.next + 1 /\ seeding'.ids = seeding.ids
          /\ seeding' \in [next : 0 .. SampleNodes + Len(Rails), ids : Seq(Nat)]
      <4>1. seeding.next + 1 \in 0 .. SampleNodes + Len(Rails)
        BY <1>1, <2>1, <2>3
      <4>2. seeding.ids \in Seq(Nat)
        BY <1>2
      <4> QED BY <3>1, <4>1, <4>2
    <3>3. ~(seeding'.next =< SampleNodes)
      BY <1>1, <3>2
    <3> QED BY <1>2, <1>6, <2>1, <3>2, <3>3 DEF CallInv
  <2> QED BY <2>2, <2>3
<1>7. CASE Appended(NewRail) /\ known' = known \cup {NewRail}
  <2>1. RailsOf(known') = RailsOf(known) \cup {NewRail} /\ CitiesOf(known') = CitiesOf(known)
    BY <1>5, <1>7 DEF CitiesOf, RailsOf
  <2>2. City(s, Rails[r][1]) \in CitiesOf(known) /\ City(t, Rails[r][2]) \in CitiesOf(known)
    BY <1>4 DEF City, CitiesOf
  <2>3. PartOfSample(known')
    <3>1. /\ \A x \in known' : x.kind \in {"city", "rail"}
          /\ \A x \in CitiesOf(known') : x.id \in Nat /\ x.city \in 1 .. SampleNodes
          /\ \A q \in RailsOf(known') : q.id \in Nat /\ q.rail \in 1 .. Len(Rails)
      <4>1. NewRail.kind = "rail" /\ NewRail.id \in Nat /\ NewRail.rail \in 1 .. Len(Rails)
        BY <1>1, <1>5
      <4> QED BY <1>7, <2>1, <4>1 DEF SampleInv, PartOfSample
    <3>2. ASSUME NEW q \in RailsOf(known) PROVE q.rail < r
      BY <1>1 DEF SampleInv, CallInv, PartOfSample, RailsOf
    <3>3. \A x, y \in RailsOf(known') : x.rail = y.rail => x = y
      BY <1>1, <1>5, <2>1, <3>2 DEF SampleInv, PartOfSample
    <3>4. ASSUME NEW x \in CitiesOf(known)
          PROVE  (x.id = s => x.city = Rails[r][1]) /\ (x.id = t => x.city = Rails[r][2])
      BY <2>2 DEF City, SampleInv, PartOfSample
    <3> QED
      BY <1>5, <2>1, <3>1, <3>3, <3>4 DEF SampleInv, PartOfSample
  <2>4. FileInv'
    <3>1. {s, t} \subseteq {x.id : x \in CitiesOf(known)}
      BY <2>2 DEF City
    <3>2. format = "json" => NoLooseEnds(known')
      BY <1>5, <2>1, <3>1 DEF SampleInv, FileInv, NoLooseEnds
    <3> QED BY <1>7, <3>2, AppendedKeepsFile DEF SeedsRail, SampleInv
  <2>5. CallInv'
    <3>1. \A q \in RailsOf(known') : q.rail + SampleNodes < seeding.next + 1
      BY <1>1, <1>3, <1>5, <2>1
    <3>2. \A x \in CitiesOf(known') : x.city < seeding.next + 1
      BY <1>1, <1>3, <2>1
    <3>3. \A c \in 1 .. Len(seeding.ids) : City(seeding.ids[c], c) \in known'
      <4>1. CallInv /\ seeding.next > 0
        BY <1>1 DEF SampleInv
      <4> QED BY <1>7, <4>1 DEF CallInv
    <3> QED BY <1>6, <3>1, <3>2, <3>3
  <2> QED
    BY <1>1, <2>1, <2>3, <2>4, <2>5 DEF SeedsRail, SampleInv
<1>8. CASE AppendFails(NewRail) /\ UNCHANGED known
  <2>1. FileInv'
    BY <1>8, FailingKeepsFile DEF SeedsRail, SampleInv
  <2>2. /\ \A q \in RailsOf(known') : q.rail + SampleNodes < seeding.next + 1
        /\ \A x \in CitiesOf(known') : x.city < seeding.next + 1
    BY <1>1, <1>3, <1>8 DEF CitiesOf, RailsOf
  <2>3. \A c \in 1 .. Len(seeding.ids) : City(seeding.ids[c], c) \in known'
    <3>1. CallInv /\ seeding.next > 0
      BY <1>1 DEF SampleInv
    <3> QED BY <1>8, <3>1 DEF CallInv
  <2>4. CallInv'
    BY <1>6, <2>2, <2>3
  <2>5. PartOfSample(known') /\ (\A x \in CitiesOf(known') : x.id < gen'.node)
    BY <1>8 DEF SeedsRail, SampleInv, PartOfSample, CitiesOf, RailsOf
  <2> QED
    BY <1>1, <2>1, <2>4, <2>5 DEF SeedsRail, SampleInv
<1> QED
  BY <1>7, <1>8 DEF SeedsRail

\* What is replayed is a part of what there was, of JSON all of it.
LEMMA RestartKeeps ==
    ASSUME ReplAssumption, SampleInv, Restart
    PROVE  SampleInv'
<1>1. known' \subseteq known /\ known' = log \cup behind' /\ behind' \subseteq behind
  BY DEF Restart, SampleInv, FileInv
<1>2. format = "json" => log = known /\ tail = "whole"
  BY <1>1 DEF Restart, Readable, SampleInv, FileInv
<1>3. PartOfSample(known')
  BY <1>1 DEF SampleInv, PartOfSample, CitiesOf, RailsOf
<1>4. FileInv'
  BY <1>1, <1>2 DEF Restart, SampleInv, FileInv, NoLooseEnds, CitiesOf, RailsOf
<1>5. CallInv'
  BY DEF Restart, SampleInv, CallInv, Idle, NoSeeding
<1>6. gen' \in [node : Nat, edge : Nat] /\ \A x \in CitiesOf(known') : x.id < gen'.node
  <2>1. \A x \in known' : x.id + 1 \in Nat
    BY <1>3 DEF PartOfSample, CitiesOf, RailsOf
  <2>2. PICK n \in {0} \cup {x.id + 1 : x \in known'}, e \in {0} \cup {x.id + 1 : x \in known'} :
          SeededPast(n, {x.id : x \in CitiesOf(known')}) /\ gen' = [node |-> n, edge |-> e]
    BY DEF Restart
  <2> QED BY <2>1, <2>2 DEF SeededPast
<1> QED
  BY <1>3, <1>4, <1>5, <1>6 DEF SampleInv

\* However often :seed is entered, at the prompt or in files, whatever of it
\* fails or is cut short, and in whatever sessions, the database holds the sample
\* graph or a part of it, each city and rail once and each rail between its cities.
THEOREM SeedLeavesSample ==
    ASSUME ReplAssumption, NoStrayLine PROVE ReplSpec => []SampleGraphIntact
<1>1. SampleInv /\ [ReplNext]_replVars => SampleInv'
  <2> SUFFICES ASSUME SampleInv, [ReplNext]_replVars PROVE SampleInv'
    OBVIOUS
  <2>1. CASE Enter
    BY <2>1, LineKeepsSample DEF Enter
  <2>2. CASE NextInFile /\ Handle(FileLine)
    BY <2>2, LineKeepsSample DEF NextInFile
  <2>3. CASE UNCHANGED <<stored, open>>
    BY <2>3 DEF stored, logFile, SampleInv, CallInv, FileInv, PartOfSample, NoLooseEnds,
                CitiesOf, RailsOf, Idle
  <2>4. CASE EndOfInput
    BY <2>4 DEF EndOfInput, db, stored, logFile, SampleInv, CallInv, FileInv, PartOfSample,
                NoLooseEnds, CitiesOf, RailsOf, Idle
  <2>5. CASE Killed
    BY <2>5 DEF Killed, logFile, SampleInv, CallInv, FileInv, PartOfSample, NoLooseEnds,
                CitiesOf, RailsOf, Idle, NoSeeding, ReplAssumption
  <2> QED
    BY <2>1, <2>2, <2>3, <2>4, <2>5, SeedsCityKeeps, SeedingFailsKeeps, SeedsRailKeeps,
       RestartKeeps
       DEF ReplNext, SeedStep, NextInFile, EndOfFile, db, replVars
<1>2. SampleInv => SampleGraphIntact
  BY DEF SampleInv, FileInv, PartOfSample, NoLooseEnds, SampleGraphIntact
<1> QED
  BY <1>1, <1>2, SampleInit, PTL DEF ReplSpec
=============================================================================
