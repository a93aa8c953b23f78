-------------------------- MODULE Algorithms_proofs --------------------------
(***************************************************************************)
(* Breadth-first and depth-first search are right on every graph, of any   *)
(* size, and Dijkstra's search finds the least weight, and a path that has *)
(* it, in every graph with weights that are natural numbers.  As in        *)
(* MCAlgorithms the traversals share their variables; `queue` is the stack *)
(* of the depth-first one.                                                 *)
(***************************************************************************)
EXTENDS MCAlgorithms, SequenceTheorems, FiniteSetTheorems, WellFoundedInduction, TLAPS

-----------------------------------------------------------------------------
(* What is in a sequence that grows and shrinks at its ends, and what can  *)
(* be reached.                                                             *)

Distinct(s) == \A i, j \in DOMAIN s : s[i] = s[j] => i = j

LEMMA ElementsOfEmpty == Elements(<<>>) = {} /\ Distinct(<<>>)
BY DEF Elements, Distinct

LEMMA ElementsSubset ==
    ASSUME NEW s \in Seq(Nodes)
    PROVE  Elements(s) \subseteq Nodes
BY DEF Elements

LEMMA Appending ==
    ASSUME NEW s \in Seq(Nodes), NEW x \in Nodes
    PROVE  /\ Append(s, x) \in Seq(Nodes)
           /\ Elements(Append(s, x)) = Elements(s) \cup {x}
           /\ Distinct(s) /\ x \notin Elements(s) => Distinct(Append(s, x))
<1>1. /\ Append(s, x) \in Seq(Nodes)
      /\ DOMAIN Append(s, x) = 1 .. Len(s) + 1 /\ DOMAIN s = 1 .. Len(s) /\ Len(s) \in Nat
      /\ \A i \in 1 .. Len(s) + 1 : Append(s, x)[i] = IF i = Len(s) + 1 THEN x ELSE s[i]
  OBVIOUS
<1>2. \A i : i \in 1 .. Len(s) + 1 <=> i \in 1 .. Len(s) \/ i = Len(s) + 1
  BY <1>1
<1>3. Len(s) + 1 \notin 1 .. Len(s)
  BY <1>1
<1>4. Elements(Append(s, x)) = Elements(s) \cup {x}
  BY <1>1, <1>2, <1>3 DEF Elements
<1>5. Distinct(s) /\ x \notin Elements(s) => Distinct(Append(s, x))
  BY <1>1, <1>2, <1>3 DEF Elements, Distinct
<1> QED
  BY <1>1, <1>4, <1>5

LEMMA Taking ==
    ASSUME NEW s \in Seq(Nodes), s # <<>>
    PROVE  /\ Head(s) \in Nodes /\ Tail(s) \in Seq(Nodes)
           /\ Elements(s) = Elements(Tail(s)) \cup {Head(s)}
           /\ Distinct(s) => Distinct(Tail(s)) /\ Head(s) \notin Elements(Tail(s))
<1>1. /\ Head(s) \in Nodes /\ Tail(s) \in Seq(Nodes) /\ Len(s) \in Nat /\ Len(s) > 0
      /\ DOMAIN s = 1 .. Len(s) /\ DOMAIN Tail(s) = 1 .. Len(s) - 1 /\ Head(s) = s[1]
      /\ \A i \in 1 .. Len(s) - 1 : Tail(s)[i] = s[i + 1]
  OBVIOUS
<1>2. \A i \in 1 .. Len(s) - 1 : i + 1 \in 1 .. Len(s) /\ i + 1 # 1
  BY <1>1
<1>3. \A i \in 1 .. Len(s) : i # 1 => i - 1 \in 1 .. Len(s) - 1 /\ (i - 1) + 1 = i
  BY <1>1
<1>4. 1 \in 1 .. Len(s)
  BY <1>1
<1>5. Elements(Tail(s)) \cup {Head(s)} \subseteq Elements(s)
  BY <1>1, <1>2, <1>4 DEF Elements
<1>6. Elements(s) \subseteq Elements(Tail(s)) \cup {Head(s)}
  <2>1. \A i \in 1 .. Len(s) : i # 1 => i - 1 \in DOMAIN Tail(s) /\ Tail(s)[i - 1] = s[i]
    BY <1>1, <1>3
  <2>2. \A i \in 1 .. Len(s) : s[i] = Head(s) \/ s[i] \in Elements(Tail(s))
    BY <1>1, <2>1 DEF Elements
  <2> QED BY <1>1, <2>2 DEF Elements
<1>7. Distinct(s) => Head(s) \notin Elements(Tail(s))
  BY <1>1, <1>2, <1>4 DEF Elements, Distinct
<1>8. Distinct(s) => Distinct(Tail(s))
  <2> SUFFICES ASSUME Distinct(s), NEW i \in 1 .. Len(s) - 1, NEW j \in 1 .. Len(s) - 1,
                      Tail(s)[i] = Tail(s)[j]
               PROVE  i = j
    BY <1>1 DEF Distinct
  <2>1. s[i + 1] = s[j + 1]
    BY <1>1
  <2>2. i + 1 = j + 1
    BY <1>1, <1>2, <2>1 DEF Distinct
  <2> QED BY <1>1, <2>2
<1> QED
  BY <1>1, <1>5, <1>6, <1>7, <1>8

LEMMA TakingTheLast ==
    ASSUME NEW s \in Seq(Nodes), s # <<>>
    PROVE  LET top == s[Len(s)]
               rest == SubSeq(s, 1, Len(s) - 1)
           IN  /\ top \in Nodes /\ rest \in Seq(Nodes)
               /\ Elements(s) = Elements(rest) \cup {top}
               /\ Len(rest) = Len(s) - 1 /\ \A i \in 1 .. Len(s) - 1 : rest[i] = s[i]
<1> DEFINE rest == SubSeq(s, 1, Len(s) - 1)
<1>1. Len(s) \in Nat /\ Len(s) > 0 /\ DOMAIN s = 1 .. Len(s) /\ s[Len(s)] \in Nodes
  OBVIOUS
<1>2. \A i \in 1 .. Len(s) - 1 : s[i] \in Nodes
  OBVIOUS
<1>3. /\ rest \in Seq(Nodes) /\ Len(rest) = Len(s) - 1
      /\ \A i \in 1 .. Len(s) - 1 : rest[i] = s[i]
  BY <1>1, <1>2, SubSeqProperties
<1>4. DOMAIN rest = 1 .. Len(s) - 1
  BY <1>3
<1>5. \A i : i \in 1 .. Len(s) <=> i \in 1 .. Len(s) - 1 \/ i = Len(s)
  BY <1>1
<1> HIDE DEF rest
<1>6. Elements(s) = Elements(rest) \cup {s[Len(s)]}
  BY <1>1, <1>3, <1>4, <1>5 DEF Elements
<1> QED
  BY <1>1, <1>3, <1>6 DEF rest

LEMMA GraphTypes ==
    ASSUME NEW g \in Graphs, NEW n \in Nodes
    PROVE  g[n] \in Seq(Nodes)
BY GraphAssumption DEF Graphs, NeighborLists

\* A neighbour of a reachable node is reachable, and what is reachable lies in
\* every closed set with the start.
LEMMA Reaching ==
    ASSUME NEW g, NEW s \in Nodes
    PROVE  /\ s \in Reachable(g, s)
           /\ \A n \in Reachable(g, s) : \A m \in Neighbors(g, n) \cap Nodes : m \in Reachable(g, s)
           /\ \A S \in SUBSET Nodes : s \in S /\ Closed(g, S) => Reachable(g, s) \subseteq S
BY DEF Reachable, Closed

-----------------------------------------------------------------------------
(* Breadth first.                                                           *)

\* The HashSet is what has been visited or queued; nothing was queued twice;
\* the neighbours of a visited node are in the set or about to be looked at;
\* and nothing gets there but by an edge.
BfsInv ==
    /\ TypeOK
    /\ visited = Elements(order) \cup Elements(queue)
    /\ Distinct(order) /\ Distinct(queue) /\ Elements(order) \cap Elements(queue) = {}
    /\ \A n \in Elements(order) : Neighbors(adj, n) \subseteq visited \cup Elements(pending)
    /\ start \in Nodes => /\ start \in visited
                          /\ visited \cup Elements(pending) \subseteq Reachable(adj, start)
    /\ start \notin Nodes => visited = {} /\ pending = <<>>

LEMMA BfsInit == Init => BfsInv
<1> SUFFICES ASSUME Init PROVE BfsInv
  OBVIOUS
<1>1. <<>> \in Seq(Nodes) /\ adj \in [Nodes -> Seq(Nodes)]
  BY GraphTypes DEF Init, Graphs
<1>2. CASE start \in Nodes
  <2>1. /\ <<start>> \in Seq(Nodes) /\ Elements(<<start>>) = {start} /\ Distinct(<<start>>)
        /\ start \in Reachable(adj, start)
    BY <1>2, Reaching DEF Elements, Distinct
  <2> QED BY <1>1, <1>2, <2>1, ElementsOfEmpty DEF Init, BfsInv, TypeOK
<1>3. CASE start \notin Nodes
  BY <1>1, <1>3, ElementsOfEmpty DEF Init, BfsInv, TypeOK
<1> QED
  BY <1>2, <1>3

LEMMA BfsVisit ==
    ASSUME BfsInv, Visit
    PROVE  BfsInv'
<1> DEFINE n == Head(queue)
<1>1. /\ queue # <<>> /\ pending = <<>> /\ pending' = adj[n] /\ queue' = Tail(queue)
      /\ order' = Append(order, n) /\ UNCHANGED <<adj, start, visited>>
  BY DEF Visit
<1>2. /\ n \in Nodes /\ queue' \in Seq(Nodes) /\ Elements(queue) = Elements(queue') \cup {n}
      /\ Distinct(queue') /\ n \notin Elements(queue')
  BY <1>1, Taking DEF BfsInv, TypeOK
<1>3. n \notin Elements(order)
  BY <1>2 DEF BfsInv
<1>4. /\ order' \in Seq(Nodes) /\ Elements(order') = Elements(order) \cup {n} /\ Distinct(order')
  BY <1>1, <1>2, <1>3, Appending DEF BfsInv, TypeOK
<1>5. adj[n] \in Seq(Nodes) /\ Elements(adj[n]) = Neighbors(adj, n)
  BY <1>2 DEF BfsInv, TypeOK, Neighbors
<1>6. TypeOK'
  BY <1>1, <1>2, <1>4, <1>5 DEF BfsInv, TypeOK
<1>7. \A m \in Elements(order') : Neighbors(adj, m) \subseteq visited \cup Elements(pending')
  BY <1>1, <1>4, <1>5, ElementsOfEmpty DEF BfsInv
<1>8. start \in Nodes /\ n \in visited
  BY <1>2 DEF BfsInv
<1>9. Elements(pending') \subseteq Reachable(adj, start)
  <2>1. n \in Reachable(adj, start) /\ Neighbors(adj, n) \subseteq Nodes
    BY <1>5, <1>8, ElementsSubset DEF BfsInv
  <2> QED BY <1>1, <1>5, <1>8, <2>1, Reaching
<1> HIDE DEF n
<1> QED
  BY <1>1, <1>2, <1>3, <1>4, <1>6, <1>7, <1>8, <1>9 DEF BfsInv

LEMMA BfsExamine ==
    ASSUME BfsInv, Examine
    PROVE  BfsInv'
<1> DEFINE m == Head(pending)
<1>1. /\ pending # <<>> /\ pending' = Tail(pending) /\ UNCHANGED <<adj, start, order>>
      /\ \/ m \in visited /\ UNCHANGED <<queue, visited>>
         \/ m \notin visited /\ queue' = Append(queue, m) /\ visited' = visited \cup {m}
  BY DEF Examine
<1>2. /\ m \in Nodes /\ pending' \in Seq(Nodes)
      /\ Elements(pending) = Elements(pending') \cup {m}
  BY <1>1, Taking DEF BfsInv, TypeOK
<1>3. visited' = visited \cup {m}
  BY <1>1
<1>4. /\ queue' \in Seq(Nodes) /\ Distinct(queue')
      /\ Elements(queue') = Elements(queue) \cup (IF m \in visited THEN {} ELSE {m})
  <2>1. CASE m \in visited
    BY <1>1, <2>1 DEF BfsInv, TypeOK
  <2>2. CASE m \notin visited
    <3>1. m \notin Elements(queue) /\ queue \in Seq(Nodes) /\ Distinct(queue)
      BY <2>2 DEF BfsInv, TypeOK
    <3>2. queue' = Append(queue, m)
      BY <1>1, <2>2
    <3> HIDE DEF m
    <3> QED BY <1>2, <2>2, <3>1, <3>2, Appending
  <2> QED BY <2>1, <2>2
<1>5. start \in Nodes
  BY <1>1 DEF BfsInv
<1> HIDE DEF m
<1>6. TypeOK'
  BY <1>1, <1>2, <1>3, <1>4 DEF BfsInv, TypeOK
<1>7. visited' = Elements(order') \cup Elements(queue') /\ Elements(order') \cap Elements(queue') = {}
  BY <1>1, <1>3, <1>4 DEF BfsInv
<1> QED
  BY <1>1, <1>2, <1>3, <1>4, <1>5, <1>6, <1>7 DEF BfsInv

LEMMA BfsInvariant == Spec => []BfsInv
<1>1. BfsInv /\ [Next]_vars => BfsInv'
  <2>1. BfsInv /\ UNCHANGED vars => BfsInv'
    BY DEF vars, BfsInv, TypeOK
  <2> QED BY <2>1, BfsVisit, BfsExamine DEF Next
<1> QED
  BY <1>1, BfsInit, PTL DEF Spec

\* Every variable keeps its type: nothing that is not a node of the graph is
\* ever queued or visited, whatever start is asked for.
THEOREM BfsTypeCorrect == Spec => []TypeOK
<1>1. BfsInv => TypeOK
  BY DEF BfsInv
<1> QED
  BY <1>1, BfsInvariant, PTL

\* No node is visited twice, on any graph.
THEOREM BfsVisitsOnce == Spec => []VisitsOnce
<1>1. BfsInv => VisitsOnce
  BY DEF BfsInv, VisitsOnce, Distinct
<1> QED
  BY <1>1, BfsInvariant, PTL

\* When the traversal ends it has visited every node that a path leads to and
\* no other, on any graph.
THEOREM BfsVisitsReachable == Spec => []VisitsReachable
<1>1. BfsInv => VisitsReachable
  <2> SUFFICES ASSUME BfsInv, Done
               PROVE  Elements(order) = IF start \in Nodes THEN Reachable(adj, start) ELSE {}
    BY DEF VisitsReachable
  <2>1. Elements(order) = visited /\ Closed(adj, visited) /\ visited \subseteq Nodes
    BY ElementsOfEmpty DEF BfsInv, TypeOK, Done, Closed
  <2>2. CASE start \in Nodes
    BY <2>1, <2>2, Reaching DEF BfsInv
  <2>3. CASE start \notin Nodes
    BY <2>1, <2>3 DEF BfsInv
  <2> QED BY <2>2, <2>3
<1> QED
  BY <1>1, BfsInvariant, PTL

-----------------------------------------------------------------------------
(* The order of the breadth-first search.                                  *)

\* A set of numbers has a least one.
LEMMA LeastNumber ==
    ASSUME NEW S, S \subseteq Nat, S # {}
    PROVE  \E m \in S : \A n \in S : m =< n
<1>1. PICK R : IsWellFoundedOn(R, Nat) /\ \A m, n \in Nat : n < m => <<n, m>> \in R
  <2>1. \A m, n \in Nat : n < m => <<n, m>> \in OpToRel(<, Nat)
    BY DEF OpToRel
  <2> QED BY <2>1, NatLessThanWellFounded
<1>2. PICK m \in S : \A n \in S : <<n, m>> \notin R
  BY <1>1, WFMin
<1>3. ASSUME NEW n \in S PROVE m =< n
  <2>1. ~(n < m)
    BY <1>1, <1>2
  <2> QED BY <2>1
<1> QED
  BY <1>3

\* S and what is one edge away from it.
OneHop(g, S) == S \cup UNION {Neighbors(g, n) : n \in S}

\* h lists what is at most 0, 1, ... and m edges away from s.
Levels(h, g, s, m) == h = [k \in 0 .. m |-> IF k = 0 THEN {s} ELSE OneHop(g, h[k - 1])]

LEMMA LevelsAt ==
    ASSUME NEW h, NEW g, NEW s, NEW m \in Nat, Levels(h, g, s, m)
    PROVE  h[0] = {s} /\ \A k \in 1 .. m : h[k] = OneHop(g, h[k - 1])
BY DEF Levels

LEMMA LevelsExist ==
    ASSUME NEW g, NEW s, NEW m \in Nat
    PROVE  \E h : Levels(h, g, s, m)
<1> DEFINE without == {k \in Nat : ~\E h : Levels(h, g, s, k)}
<1>1. ASSUME without # {} PROVE FALSE
  <2>1. PICK k \in without : \A n \in without : k =< n
    BY <1>1, LeastNumber
  <2>2. CASE k = 0
    <3> DEFINE h == [n \in 0 .. 0 |-> {s}]
    <3>1. h = [n \in 0 .. 0 |-> IF n = 0 THEN {s} ELSE OneHop(g, h[n - 1])]
      OBVIOUS
    <3> QED BY <2>1, <2>2, <3>1 DEF Levels
  <2>3. CASE k # 0
    <3>1. k - 1 \in Nat /\ k - 1 \notin without
      BY <2>1, <2>3
    <3>2. PICK f : Levels(f, g, s, k - 1)
      BY <3>1
    <3> DEFINE h == [n \in 0 .. k |-> IF n = k THEN OneHop(g, f[k - 1]) ELSE f[n]]
    <3>3. ASSUME NEW n \in 0 .. k
          PROVE  h[n] = IF n = 0 THEN {s} ELSE OneHop(g, h[n - 1])
      <4>1. CASE n = k
        BY <2>1, <2>3, <4>1
      <4>2. CASE n # k
        <5>1. /\ n \in 0 .. (k - 1) /\ h[n] = f[n]
              /\ n # 0 => n - 1 \in 0 .. (k - 1) /\ h[n - 1] = f[n - 1]
          BY <2>1, <4>2
        <5>2. f[n] = IF n = 0 THEN {s} ELSE OneHop(g, f[n - 1])
          BY <3>2, <5>1 DEF Levels
        <5> QED BY <5>1, <5>2
      <4> QED BY <4>1, <4>2
    <3>4. h = [n \in 0 .. k |-> IF n = 0 THEN {s} ELSE OneHop(g, h[n - 1])]
      BY <3>3
    <3> HIDE DEF h
    <3>5. Levels(h, g, s, k)
      BY <3>4 DEF Levels
    <3> QED BY <2>1, <3>5
  <2> QED BY <2>2, <2>3
<1> QED
  BY <1>1

LEMMA LevelsAgree ==
    ASSUME NEW g, NEW s, NEW m \in Nat, NEW n \in Nat, NEW f, NEW h,
           Levels(f, g, s, m), Levels(h, g, s, n), NEW i \in Nat, i =< m, i =< n
    PROVE  f[i] = h[i]
<1> DEFINE differ == {k \in Nat : k =< m /\ k =< n /\ f[k] # h[k]}
<1>1. ASSUME differ # {} PROVE FALSE
  <2>1. PICK k \in differ : \A j \in differ : k =< j
    BY <1>1, LeastNumber
  <2>2. k # 0
    BY <2>1, LevelsAt
  <2>3. k - 1 \in Nat /\ k - 1 \notin differ /\ k \in 1 .. m /\ k \in 1 .. n
    BY <2>1, <2>2
  <2>4. f[k - 1] = h[k - 1]
    BY <2>1, <2>3
  <2>5. f[k] = OneHop(g, f[k - 1]) /\ h[k] = OneHop(g, h[k - 1])
    BY <2>3, LevelsAt
  <2> QED BY <2>1, <2>4, <2>5
<1> QED
  BY <1>1

\* Hops is well defined.
LEMMA HopsAt ==
    ASSUME NEW g, NEW s
    PROVE  /\ HopsFrom(g, s)[0] = {s}
           /\ \A k \in Nat : HopsFrom(g, s)[k + 1] = OneHop(g, HopsFrom(g, s)[k])
<1> DEFINE level(k) == CHOOSE h : Levels(h, g, s, k)
           F == [k \in Nat |-> level(k)[k]]
<1>1. \A k \in Nat : Levels(level(k), g, s, k)
  BY LevelsExist
<1>2. ASSUME NEW k \in Nat
      PROVE  F[k] = IF k = 0 THEN {s} ELSE OneHop(g, F[k - 1])
  <2>1. CASE k = 0
    BY <1>1, <2>1, LevelsAt
  <2>2. CASE k # 0
    <3>1. k - 1 \in Nat /\ k \in 1 .. k
      BY <2>2
    <3>2. Levels(level(k), g, s, k) /\ Levels(level(k - 1), g, s, k - 1)
      BY <1>1, <3>1
    <3> HIDE DEF level
    <3>3. level(k)[k] = OneHop(g, level(k)[k - 1])
      BY <3>1, <3>2, LevelsAt
    <3>4. level(k)[k - 1] = level(k - 1)[k - 1]
      BY <3>1, <3>2, LevelsAgree
    <3> QED BY <2>2, <3>1, <3>3, <3>4
  <2> QED BY <2>1, <2>2
<1> HIDE DEF F
<1>3. F = [k \in Nat |-> IF k = 0 THEN {s} ELSE OneHop(g, F[k - 1])]
  <2>1. F = [k \in Nat |-> F[k]]
    BY DEF F
  <2> QED BY <1>2, <2>1
<1> DEFINE H == HopsFrom(g, s)
<1>4. H = [k \in Nat |-> IF k = 0 THEN {s} ELSE OneHop(g, H[k - 1])]
  <2>1. H = CHOOSE G : G = [k \in Nat |-> IF k = 0 THEN {s} ELSE OneHop(g, G[k - 1])]
    BY DEF HopsFrom, OneHop
  <2> HIDE DEF H
  <2> QED BY <1>3, <2>1
<1> HIDE DEF H
<1>5. H[0] = {s}
  BY <1>4
<1>6. ASSUME NEW k \in Nat PROVE H[k + 1] = OneHop(g, H[k])
  <2>1. k + 1 \in Nat /\ k + 1 # 0 /\ (k + 1) - 1 = k
    OBVIOUS
  <2> QED BY <1>4, <2>1
<1> QED
  BY <1>5, <1>6 DEF H

\* What has been visited and then what is queued, in the order of discovery.
Seen == order \o queue

LEMMA SeenParts ==
    ASSUME BfsInv
    PROVE  /\ Seen \in Seq(Nodes) /\ Len(Seen) = Len(order) + Len(queue)
           /\ Len(order) \in Nat /\ Len(queue) \in Nat
           /\ \A i \in 1 .. Len(order) : Seen[i] = order[i]
           /\ \A i \in 1 .. Len(queue) : Seen[Len(order) + i] = queue[i]
           /\ visited = {Seen[i] : i \in 1 .. Len(Seen)}
<1>1. order \in Seq(Nodes) /\ queue \in Seq(Nodes)
  BY DEF BfsInv, TypeOK
<1>2. /\ Seen \in Seq(Nodes) /\ Len(Seen) = Len(order) + Len(queue)
      /\ Len(order) \in Nat /\ Len(queue) \in Nat
      /\ \A i \in 1 .. Len(order) : Seen[i] = order[i]
      /\ \A i \in 1 .. Len(queue) : Seen[Len(order) + i] = queue[i]
  BY <1>1 DEF Seen
<1>3. \A i \in 1 .. Len(Seen) :
         \/ i \in 1 .. Len(order)
         \/ i - Len(order) \in 1 .. Len(queue) /\ i = Len(order) + (i - Len(order))
  BY <1>2
<1>4. /\ \A i \in 1 .. Len(order) : i \in 1 .. Len(Seen)
      /\ \A i \in 1 .. Len(queue) : Len(order) + i \in 1 .. Len(Seen)
  BY <1>2
<1>5. visited = {order[i] : i \in 1 .. Len(order)} \cup {queue[i] : i \in 1 .. Len(queue)}
  BY <1>1 DEF BfsInv, Elements
<1>6. visited = {Seen[i] : i \in 1 .. Len(Seen)}
  <2>1. visited \subseteq {Seen[i] : i \in 1 .. Len(Seen)}
    BY <1>2, <1>4, <1>5
  <2>2. \A i \in 1 .. Len(Seen) : Seen[i] \in visited
    BY <1>2, <1>3, <1>5
  <2> QED BY <2>1, <2>2
<1> QED
  BY <1>2, <1>6

\* The neighbours of all visited nodes but the last are discovered, those still
\* to be looked at are neighbours of the last; nodes are discovered in the order
\* of their levels; and none is more than one level beyond the last visited.
BfsOrder ==
    /\ BfsInv
    /\ visited # {} => Seen[1] = start
    /\ order = <<>> => visited \subseteq {start}
    /\ \A i \in 1 .. Len(order) - 1 : Neighbors(adj, order[i]) \subseteq visited
    /\ pending # <<>> => /\ order # <<>>
                         /\ Elements(pending) \subseteq Neighbors(adj, order[Len(order)])
    /\ \A k \in Nat : \A i, j \in 1 .. Len(Seen) :
          i < j /\ Seen[j] \in Hops[k] => Seen[i] \in Hops[k]
    /\ order # <<>> =>
          \A k \in Nat : order[Len(order)] \in Hops[k] => visited \subseteq Hops[k + 1]

LEMMA HopsSteps ==
    /\ Hops[0] = {start}
    /\ \A k \in Nat : Hops[k + 1] = Hops[k] \cup UNION {Neighbors(adj, n) : n \in Hops[k]}
<1>1. HopsFrom(adj, start)[0] = {start}
  BY HopsAt, Zenon
<1>2. ASSUME NEW k \in Nat
      PROVE  HopsFrom(adj, start)[k + 1] = OneHop(adj, HopsFrom(adj, start)[k])
  BY HopsAt
<1> QED
  BY <1>1, <1>2 DEF Hops, OneHop

\* Everything nearer than a visited node was discovered before it.
LEMMA NearerFirst ==
    ASSUME BfsOrder, NEW k \in Nat, NEW i \in 1 .. Len(order), order[i] \notin Hops[k]
    PROVE  \A m \in Hops[k] : \E p \in 1 .. i - 1 : order[p] = m
<1> DEFINE bad == {n \in Nat : \E j \in 1 .. Len(order) :
                       /\ order[j] \notin Hops[n]
                       /\ \E m \in Hops[n] : \A p \in 1 .. j - 1 : order[p] # m}
<1>1. ASSUME bad # {} PROVE FALSE
  <2>1. PICK n \in bad : \A l \in bad : n =< l
    BY <1>1, LeastNumber
  <2>2. PICK j \in 1 .. Len(order) :
               /\ order[j] \notin Hops[n]
               /\ \E m \in Hops[n] : \A p \in 1 .. j - 1 : order[p] # m
    BY <2>1
  <2>3. PICK m \in Hops[n] : \A p \in 1 .. j - 1 : order[p] # m
    BY <2>2
  <2>4. /\ Len(order) \in Nat /\ Len(queue) \in Nat /\ Len(Seen) = Len(order) + Len(queue)
        /\ \A l \in 1 .. Len(order) : Seen[l] = order[l]
        /\ visited = {Seen[l] : l \in 1 .. Len(Seen)}
    BY SeenParts DEF BfsOrder
  <2>5. j \in 1 .. Len(Seen) /\ Seen[j] = order[j] /\ visited # {}
    BY <2>4
  <2>6. m \in visited
    <3>1. CASE n = 0
      <4>1. m = start /\ 1 \in 1 .. Len(Seen)
        BY <2>3, <2>5, <3>1, HopsSteps
      <4> QED BY <2>4, <2>5, <4>1 DEF BfsOrder
    <3>2. CASE n # 0
      <4>1. n - 1 \in Nat /\ n - 1 \notin bad /\ (n - 1) + 1 = n
        <5>1. n \in Nat
          BY <2>1
        <5>2. n - 1 \in Nat /\ (n - 1) + 1 = n /\ ~(n =< n - 1)
          BY <3>2, <5>1
        <5> HIDE DEF bad
        <5> QED BY <2>1, <5>2
      <4>2. Hops[n] = Hops[n - 1] \cup UNION {Neighbors(adj, l) : l \in Hops[n - 1]}
        BY <4>1, HopsSteps
      <4>3. order[j] \notin Hops[n - 1]
        BY <2>2, <4>2
      <4>4. \A l \in Hops[n - 1] : \E p \in 1 .. j - 1 : order[p] = l
        BY <4>1, <4>3
      <4>5. m \notin Hops[n - 1]
        BY <2>3, <4>4
      <4>6. PICK l \in Hops[n - 1] : m \in Neighbors(adj, l)
        BY <2>3, <4>2, <4>5
      <4>7. PICK p \in 1 .. j - 1 : order[p] = l
        BY <4>4
      <4>8. p \in 1 .. Len(order) - 1
        BY <2>4
      <4> QED BY <4>6, <4>7, <4>8 DEF BfsOrder
    <3> QED BY <3>1, <3>2
  <2>7. PICK p \in 1 .. Len(Seen) : Seen[p] = m
    BY <2>4, <2>6
  <2>8. p # j
    BY <2>2, <2>3, <2>5, <2>7
  <2>9. ~(j < p)
    BY <2>1, <2>2, <2>3, <2>5, <2>7 DEF BfsOrder
  <2>10. p \in 1 .. j - 1 /\ order[p] = m
    BY <2>4, <2>5, <2>7, <2>8, <2>9
  <2> QED BY <2>3, <2>10
<1> QED
  BY <1>1

LEMMA BfsOrderInit == Init => BfsOrder
<1> SUFFICES ASSUME Init PROVE BfsOrder
  OBVIOUS
<1>1. BfsInv
  BY BfsInit
<1>2. order = <<>> /\ pending = <<>> /\ Len(order) = 0
  BY DEF Init
<1>3. /\ Len(Seen) =< 1
      /\ visited # {} => Seen[1] = start
  <2>1. CASE start \in Nodes
    <3>1. queue = <<start>> /\ Len(queue) = 1 /\ queue[1] = start
      BY <2>1 DEF Init
    <3>2. Len(Seen) = 1 /\ Seen[0 + 1] = start
      BY <1>1, <1>2, <3>1, SeenParts
    <3> QED BY <3>2
  <2>2. CASE start \notin Nodes
    <3>1. Len(queue) = 0 /\ visited = {}
      BY <2>2 DEF Init
    <3> QED BY <1>1, <1>2, <3>1, SeenParts
  <2> QED BY <2>1, <2>2
<1>4. Len(Seen) \in Nat
  BY <1>1, SeenParts
<1>5. \A i, j \in 1 .. Len(Seen) : ~(i < j)
  BY <1>3, <1>4
<1> QED
  BY <1>1, <1>2, <1>3, <1>5 DEF BfsOrder, Init

LEMMA BfsOrderVisit ==
    ASSUME BfsOrder, Visit
    PROVE  BfsOrder'
<1>1. BfsInv /\ BfsInv'
  BY BfsVisit DEF BfsOrder
<1>2. /\ queue # <<>> /\ pending = <<>> /\ pending' = adj[Head(queue)] /\ queue' = Tail(queue)
      /\ order' = Append(order, Head(queue)) /\ UNCHANGED <<adj, start, visited>>
      /\ order \in Seq(Nodes) /\ queue \in Seq(Nodes)
  BY <1>1 DEF Visit, BfsInv, TypeOK
<1>3. Seen' = Seen
  BY <1>2 DEF Seen
<1>4. Hops' = Hops
  BY <1>2 DEF Hops
<1>5. /\ Len(order') = Len(order) + 1 /\ order' # <<>>
      /\ order'[Len(order')] = Head(queue) /\ Len(order) \in Nat
      /\ \A i \in 1 .. Len(order) : order'[i] = order[i]
  BY <1>2
<1>6. Seen[Len(order) + 1] = Head(queue) /\ Len(order) + 1 \in 1 .. Len(Seen)
  <2>1. 1 \in 1 .. Len(queue) /\ Head(queue) = queue[1]
    BY <1>2
  <2> QED BY <1>1, <2>1, SeenParts
<1>7. \A i \in 1 .. Len(order') - 1 : Neighbors(adj, order'[i]) \subseteq visited
  <2>1. order # <<>> => Neighbors(adj, order[Len(order)]) \subseteq visited
    <3>1. order # <<>> => order[Len(order)] \in Elements(order)
      BY <1>2 DEF Elements
    <3> QED BY <1>1, <1>2, <3>1, ElementsOfEmpty DEF BfsInv
  <2>2. ASSUME NEW i \in 1 .. Len(order') - 1
        PROVE  Neighbors(adj, order'[i]) \subseteq visited
    <3>1. i \in 1 .. Len(order) /\ order'[i] = order[i] /\ order # <<>>
      BY <1>2, <1>5
    <3>2. CASE i = Len(order)
      BY <2>1, <3>1, <3>2
    <3>3. CASE i # Len(order)
      <4>1. i \in 1 .. Len(order) - 1
        BY <1>5, <3>1, <3>3
      <4> QED BY <3>1, <4>1 DEF BfsOrder
    <3> QED BY <3>2, <3>3
  <2> QED BY <2>2
<1>8. Elements(pending') \subseteq Neighbors(adj, order'[Len(order')])
  BY <1>2, <1>5 DEF Neighbors
<1>9. ASSUME NEW k \in Nat, Head(queue) \in Hops[k]
      PROVE  visited \subseteq Hops[k + 1]
  <2>1. CASE order # <<>>
    <3>1. Len(order) \in 1 .. Len(Seen) /\ Seen[Len(order)] = order[Len(order)]
      BY <1>1, <1>2, <1>5, <1>6, <2>1, SeenParts
    <3>2. order[Len(order)] \in Hops[k]
      BY <1>5, <1>6, <1>9, <3>1 DEF BfsOrder
    <3> QED BY <2>1, <3>2 DEF BfsOrder
  <2>2. CASE order = <<>>
    <3>1. Head(queue) = start
      <4>1. Seen[1] = Head(queue) /\ Len(order) = 0
        BY <1>5, <1>6, <2>2
      <4>2. visited # {}
        BY <1>1, <1>6, SeenParts
      <4> QED BY <4>1, <4>2 DEF BfsOrder
    <3>2. visited \subseteq Hops[k]
      BY <1>9, <2>2, <3>1 DEF BfsOrder
    <3> QED BY <3>2, HopsSteps
  <2> QED BY <2>1, <2>2
<1> QED
  BY <1>1, <1>2, <1>3, <1>4, <1>5, <1>7, <1>8, <1>9 DEF BfsOrder

LEMMA BfsOrderExamine ==
    ASSUME BfsOrder, Examine
    PROVE  BfsOrder'
<1> DEFINE m == Head(pending)
           u == order[Len(order)]
<1>1. BfsInv /\ BfsInv'
  BY BfsExamine DEF BfsOrder
<1>2. /\ pending # <<>> /\ pending' = Tail(pending) /\ UNCHANGED <<adj, start, order>>
      /\ \/ m \in visited /\ UNCHANGED <<queue, visited>>
         \/ m \notin visited /\ queue' = Append(queue, m) /\ visited' = visited \cup {m}
      /\ order \in Seq(Nodes) /\ queue \in Seq(Nodes) /\ pending \in Seq(Nodes)
  BY <1>1 DEF Examine, BfsInv, TypeOK
<1>3. /\ m \in Nodes /\ Elements(pending) = Elements(pending') \cup {m}
      /\ m \in Neighbors(adj, u) /\ Elements(pending') \subseteq Neighbors(adj, u)
  BY <1>2, Taking DEF BfsOrder
<1>4. order # <<>> /\ Len(order) \in Nat /\ Len(order) \in 1 .. Len(order)
  BY <1>2 DEF BfsOrder
<1>5. Hops' = Hops
  BY <1>2 DEF Hops
<1>6. CASE m \in visited
  <2>1. Seen' = Seen /\ visited' = visited
    BY <1>2, <1>6 DEF Seen
  <2> QED BY <1>1, <1>2, <1>3, <1>4, <1>5, <2>1 DEF BfsOrder
<1>7. CASE m \notin visited
  <2>1. Seen \in Seq(Nodes) /\ Seen' = Append(Seen, m) /\ visited' = visited \cup {m}
    <3>1. Append(queue, m) = queue \o <<m>> /\ Append(Seen, m) = Seen \o <<m>>
      BY <1>2, <1>3, AppendIsConcat DEF Seen
    <3>2. order \o (queue \o <<m>>) = (order \o queue) \o <<m>>
      <4>1. <<m>> \in Seq(Nodes)
        BY <1>3
      <4> HIDE DEF m
      <4> QED BY <1>2, <4>1, ConcatAssociative
    <3>3. Seen \in Seq(Nodes)
      BY <1>2 DEF Seen
    <3> QED BY <1>2, <1>7, <3>1, <3>2, <3>3 DEF Seen
  <2>2. /\ Len(Seen') = Len(Seen) + 1 /\ Seen'[Len(Seen) + 1] = m /\ Len(Seen) \in Nat
        /\ \A i \in 1 .. Len(Seen) : Seen'[i] = Seen[i]
    BY <1>3, <2>1
  <2>3. visited = {Seen[i] : i \in 1 .. Len(Seen)} /\ Len(order) =< Len(Seen)
    BY <1>1, SeenParts
  <2>4. u \in visited
    BY <1>1, <1>4, <2>3, SeenParts
  <2>5. Seen'[1] = start
    BY <1>4, <2>2, <2>3, <2>4 DEF BfsOrder
  \* m is no nearer than anything discovered before it.
  <2>6. ASSUME NEW k \in Nat, m \in Hops[k]
        PROVE  visited \subseteq Hops[k]
    <3> DEFINE bad == {n \in Nat : m \in Hops[n] /\ ~(visited \subseteq Hops[n])}
    <3>1. ASSUME bad # {} PROVE FALSE
      <4>1. PICK n \in bad : \A l \in bad : n =< l
        BY <3>1, LeastNumber
      <4>2. n \in Nat /\ m \in Hops[n] /\ ~(visited \subseteq Hops[n])
        BY <4>1
      <4>3. n # 0
        <5>1. m # start
          BY <1>4, <1>7, <2>3, <2>4 DEF BfsOrder, BfsInv
        <5> QED BY <4>2, <5>1, HopsSteps
      <4>4. n - 1 \in Nat /\ (n - 1) + 1 = n /\ ~(n =< n - 1)
        BY <4>2, <4>3
      <4>5. n - 1 \notin bad
        <5> HIDE DEF bad
        <5> QED BY <4>1, <4>4
      <4>6. Hops[n] = Hops[n - 1] \cup UNION {Neighbors(adj, l) : l \in Hops[n - 1]}
        BY <4>4, HopsSteps
      <4>7. m \notin Hops[n - 1]
        BY <4>2, <4>4, <4>5, <4>6
      <4>8. PICK l \in Hops[n - 1] : m \in Neighbors(adj, l)
        BY <4>2, <4>6, <4>7
      <4>9. u \in Hops[n - 1]
        <5> SUFFICES ASSUME u \notin Hops[n - 1] PROVE FALSE
          OBVIOUS
        <5>1. PICK p \in 1 .. Len(order) - 1 : order[p] = l
          BY <1>4, <4>4, NearerFirst
        <5> QED BY <1>7, <4>8, <5>1 DEF BfsOrder
      <4> QED BY <1>4, <4>2, <4>4, <4>9 DEF BfsOrder
    <3> QED BY <2>6, <3>1
  <2>7. ASSUME NEW k \in Nat, NEW i \in 1 .. Len(Seen'), NEW j \in 1 .. Len(Seen'),
               i < j, Seen'[j] \in Hops[k]
        PROVE  Seen'[i] \in Hops[k]
    <3>1. i \in 1 .. Len(Seen) /\ Seen'[i] = Seen[i] /\ (j \in 1 .. Len(Seen) \/ j = Len(Seen) + 1)
      BY <2>2, <2>7
    <3>2. CASE j \in 1 .. Len(Seen)
      BY <2>2, <2>7, <3>1, <3>2 DEF BfsOrder
    <3>3. CASE j = Len(Seen) + 1
      <4>1. visited \subseteq Hops[k]
        BY <2>2, <2>6, <2>7, <3>3
      <4> QED BY <2>3, <3>1, <4>1
    <3> QED BY <3>1, <3>2, <3>3
  <2>8. ASSUME NEW k \in Nat, u \in Hops[k]
        PROVE  visited' \subseteq Hops[k + 1]
    <3>1. visited \subseteq Hops[k + 1]
      BY <1>4, <2>8 DEF BfsOrder
    <3>2. m \in Hops[k + 1]
      BY <1>3, <2>8, HopsSteps
    <3> QED BY <2>1, <3>1, <3>2
  <2>9. \A i \in 1 .. Len(order) - 1 : Neighbors(adj, order[i]) \subseteq visited'
    BY <2>1 DEF BfsOrder
  <2> HIDE DEF m
  <2> QED BY <1>1, <1>2, <1>3, <1>4, <1>5, <2>1, <2>5, <2>7, <2>8, <2>9 DEF BfsOrder
<1> QED
  BY <1>6, <1>7

LEMMA BfsOrderKept == BfsOrder /\ [Next]_vars => BfsOrder'
<1>1. BfsOrder /\ UNCHANGED vars => BfsOrder'
  <2> SUFFICES ASSUME BfsOrder, UNCHANGED vars PROVE BfsOrder'
    OBVIOUS
  <2>1. UNCHANGED <<adj, start, visited, queue, order, pending>>
    BY DEF vars
  <2>2. Seen' = Seen /\ Hops' = Hops /\ BfsInv'
    BY <2>1 DEF Seen, Hops, BfsOrder, BfsInv, TypeOK
  <2> QED BY <2>1, <2>2 DEF BfsOrder
<1> QED
  BY <1>1, BfsOrderVisit, BfsOrderExamine DEF Next

LEMMA BfsOrderByLevel == BfsOrder => LevelByLevel
<1> SUFFICES ASSUME BfsOrder, NEW i \in DOMAIN order, NEW k \in 0 .. Len(order),
                    order[i] \notin Hops[k], NEW m \in Hops[k]
             PROVE  m \in Elements(SubSeq(order, 1, i))
  BY DEF LevelByLevel
<1>1. order \in Seq(Nodes) /\ i \in 1 .. Len(order) /\ Len(order) \in Nat /\ k \in Nat
  BY DEF BfsOrder, BfsInv, TypeOK
<1>2. PICK p \in 1 .. i - 1 : order[p] = m
  BY <1>1, NearerFirst
<1>3. /\ SubSeq(order, 1, i) \in Seq(Nodes) /\ Len(SubSeq(order, 1, i)) = i
      /\ SubSeq(order, 1, i)[p] = order[p]
  BY <1>1, SubSeqProperties
<1>4. p \in DOMAIN SubSeq(order, 1, i)
  BY <1>1, <1>3
<1> QED BY <1>2, <1>3, <1>4 DEF Elements

\* The breadth-first search visits by levels: when a node is visited, every
\* nearer one has been, on any graph.
THEOREM BfsLevelByLevel == Spec => []LevelByLevel
<1> QED
  BY BfsOrderInit, BfsOrderKept, BfsOrderByLevel, PTL DEF Spec

-----------------------------------------------------------------------------
(* Depth first: the stack may hold a node many times.                      *)

\* A neighbour of a visited node is visited, on the stack, or about to be
\* looked at; and nothing gets there but by an edge.
DfsFound == visited \cup Elements(queue) \cup Elements(pending)

DfsInv ==
    /\ Dfs!TypeOK
    /\ visited = Elements(order) /\ Distinct(order)
    /\ \A n \in visited : Neighbors(adj, n) \subseteq DfsFound
    /\ start \in Nodes => start \in DfsFound /\ DfsFound \subseteq Reachable(adj, start)
    /\ start \notin Nodes => DfsFound = {}

\* The two searches see the graph alike.
LEMMA SameView ==
    /\ Dfs!Graphs = Graphs
    /\ Dfs!Elements(order) = Elements(order)
    /\ Dfs!Reachable(adj, start) = Reachable(adj, start)
BY DEF Dfs!Graphs, Dfs!NeighborLists, Graphs, NeighborLists, Dfs!Elements, Elements,
       Dfs!Reachable, Dfs!Closed, Dfs!Neighbors, Reachable, Closed, Neighbors

LEMMA DfsInit == Dfs!Init => DfsInv
<1> SUFFICES ASSUME Dfs!Init PROVE DfsInv
  OBVIOUS
<1>1. <<>> \in Seq(Nodes) /\ adj \in [Nodes -> Seq(Nodes)]
  BY GraphTypes, SameView DEF Dfs!Init, Graphs
<1>2. CASE start \in Nodes
  <2>1. /\ <<start>> \in Seq(Nodes) /\ Elements(<<start>>) = {start}
        /\ start \in Reachable(adj, start)
    BY <1>2, Reaching DEF Elements
  <2> QED BY <1>1, <1>2, <2>1, ElementsOfEmpty DEF Dfs!Init, DfsInv, Dfs!TypeOK, DfsFound
<1>3. CASE start \notin Nodes
  BY <1>1, <1>3, ElementsOfEmpty DEF Dfs!Init, DfsInv, Dfs!TypeOK, DfsFound
<1> QED
  BY <1>2, <1>3

LEMMA DfsPops ==
    ASSUME DfsInv, queue # <<>>
    PROVE  /\ Dfs!Top \in Nodes /\ Dfs!Popped \in Seq(Nodes)
           /\ Elements(queue) = Elements(Dfs!Popped) \cup {Dfs!Top}
BY TakingTheLast DEF DfsInv, Dfs!TypeOK, Dfs!Top, Dfs!Popped

LEMMA DfsSkip ==
    ASSUME DfsInv, Dfs!Skip
    PROVE  DfsInv'
<1>1. /\ Dfs!Top \in visited /\ queue' = Dfs!Popped
      /\ UNCHANGED <<adj, start, visited, order, pending>>
      /\ Dfs!Popped \in Seq(Nodes) /\ Elements(queue) = Elements(Dfs!Popped) \cup {Dfs!Top}
  BY DfsPops DEF Dfs!Skip
<1>2. DfsFound' = DfsFound
  BY <1>1 DEF DfsFound
<1> QED
  BY <1>1, <1>2 DEF DfsInv, Dfs!TypeOK

LEMMA DfsVisit ==
    ASSUME DfsInv, Dfs!Visit
    PROVE  DfsInv'
<1>1. /\ Dfs!Top \notin visited /\ queue' = Dfs!Popped /\ visited' = visited \cup {Dfs!Top}
      /\ order' = Append(order, Dfs!Top) /\ pending = <<>> /\ pending' = adj[Dfs!Top]
      /\ UNCHANGED <<adj, start>>
      /\ Dfs!Top \in Nodes /\ Dfs!Popped \in Seq(Nodes) /\ Elements(queue) = Elements(Dfs!Popped) \cup {Dfs!Top}
  BY DfsPops DEF Dfs!Visit
<1>2. order' \in Seq(Nodes) /\ visited' = Elements(order') /\ Distinct(order')
  <2>1. order \in Seq(Nodes) /\ Distinct(order) /\ Dfs!Top \notin Elements(order)
    BY <1>1 DEF DfsInv, Dfs!TypeOK
  <2> QED BY <1>1, <2>1, Appending DEF DfsInv
<1>3. adj[Dfs!Top] \in Seq(Nodes) /\ Elements(adj[Dfs!Top]) = Neighbors(adj, Dfs!Top)
  BY <1>1 DEF DfsInv, Dfs!TypeOK, Neighbors
<1>4. DfsFound' = DfsFound \cup Neighbors(adj, Dfs!Top)
  BY <1>1, <1>3, ElementsOfEmpty DEF DfsFound
<1>5. start \in Nodes /\ Dfs!Top \in DfsFound
  BY <1>1 DEF DfsInv, DfsFound
<1>6. DfsFound' \subseteq Reachable(adj, start)
  <2>1. Neighbors(adj, Dfs!Top) \subseteq Nodes
    BY <1>3, ElementsSubset
  <2> QED BY <1>4, <1>5, <2>1, Reaching DEF DfsInv
<1>7. Dfs!TypeOK'
  BY <1>1, <1>2, <1>3 DEF DfsInv, Dfs!TypeOK
<1> QED
  BY <1>1, <1>2, <1>4, <1>5, <1>6, <1>7 DEF DfsInv

LEMMA DfsPush ==
    ASSUME DfsInv, Dfs!Push
    PROVE  DfsInv'
<1> DEFINE m == Head(pending)
<1>1. /\ pending # <<>> /\ pending' = Tail(pending) /\ UNCHANGED <<adj, start, visited, order>>
      /\ queue' = IF m \in visited THEN queue ELSE Append(queue, m)
  BY DEF Dfs!Push
<1>2. /\ m \in Nodes /\ pending' \in Seq(Nodes)
      /\ Elements(pending) = Elements(pending') \cup {m}
  BY <1>1, Taking DEF DfsInv, Dfs!TypeOK
<1> HIDE DEF m
<1>3. queue' \in Seq(Nodes) /\ visited \cup Elements(queue') = visited \cup Elements(queue) \cup {m}
  <2>1. queue \in Seq(Nodes)
    BY DEF DfsInv, Dfs!TypeOK
  <2> QED BY <1>1, <1>2, <2>1, Appending
<1>4. DfsFound' = DfsFound
  BY <1>1, <1>2, <1>3 DEF DfsFound
<1> QED
  BY <1>1, <1>2, <1>3, <1>4 DEF DfsInv, Dfs!TypeOK

LEMMA DfsInvariant == Dfs!Spec => []DfsInv
<1>1. DfsInv /\ [Dfs!Next]_Dfs!vars => DfsInv'
  <2>1. DfsInv /\ UNCHANGED Dfs!vars => DfsInv'
    BY DEF Dfs!vars, DfsInv, Dfs!TypeOK, DfsFound
  <2> QED BY <2>1, DfsSkip, DfsVisit, DfsPush DEF Dfs!Next
<1> QED
  BY <1>1, DfsInit, PTL DEF Dfs!Spec

\* Every variable keeps its type: nothing that is not a node of the graph is
\* ever on the stack or visited, whatever start is asked for.
THEOREM DfsTypeCorrect == Dfs!Spec => []Dfs!TypeOK
<1>1. DfsInv => Dfs!TypeOK
  BY DEF DfsInv
<1> QED
  BY <1>1, DfsInvariant, PTL

\* No node is visited twice, however often the stack holds it.
THEOREM DfsVisitsOnce == Dfs!Spec => []Dfs!VisitsOnce
<1>1. DfsInv => Dfs!VisitsOnce
  BY DEF DfsInv, Dfs!VisitsOnce, Distinct
<1> QED
  BY <1>1, DfsInvariant, PTL

\* When the traversal ends it has visited every node that a path leads to and
\* no other, on any graph.
THEOREM DfsVisitsReachable == Dfs!Spec => []Dfs!VisitsReachable
<1>1. DfsInv => Dfs!VisitsReachable
  <2> SUFFICES ASSUME DfsInv, Dfs!Done
               PROVE  Elements(order) = IF start \in Nodes THEN Reachable(adj, start) ELSE {}
    BY SameView DEF Dfs!VisitsReachable
  <2>1. DfsFound = visited /\ Elements(order) = visited /\ visited \subseteq Nodes
    BY ElementsOfEmpty DEF DfsInv, Dfs!TypeOK, Dfs!Done, DfsFound
  <2>2. Closed(adj, visited)
    BY <2>1 DEF DfsInv, Closed
  <2>3. CASE start \in Nodes
    BY <2>1, <2>2, <2>3, Reaching DEF DfsInv
  <2>4. CASE start \notin Nodes
    BY <2>1, <2>4 DEF DfsInv
  <2> QED BY <2>3, <2>4
<1> QED
  BY <1>1, DfsInvariant, PTL

-----------------------------------------------------------------------------
(* The order of the depth-first search.                                     *)

\* What the j-th of the nodes s still leads to when i of them are visited.
Left(g, s, i, j) == Neighbors(g, s[j]) \ {s[x] : x \in 1 .. i}

\* The j-th is the latest of i that leads anywhere.
IsDeepest(g, s, i, j) ==
    /\ j \in 1 .. i /\ Left(g, s, i, j) # {}
    /\ \A k \in j + 1 .. i : Left(g, s, i, k) = {}

Branches(g, s) ==
    \A i \in 1 .. Len(s) - 1 : \E j : IsDeepest(g, s, i, j) /\ s[i + 1] \in Left(g, s, i, j)

LEMMA MoreBranches ==
    ASSUME NEW g, NEW s \in Seq(Nodes), NEW x \in Nodes, Branches(g, s),
           s # <<>> => \E j : IsDeepest(g, s, Len(s), j) /\ x \in Left(g, s, Len(s), j)
    PROVE  Branches(g, Append(s, x))
<1> DEFINE t == Append(s, x)
<1>1. /\ Len(s) \in Nat /\ Len(t) = Len(s) + 1 /\ t[Len(s) + 1] = x
      /\ \A i \in 1 .. Len(s) : t[i] = s[i]
  OBVIOUS
<1>2. s # <<>> <=> Len(s) > 0
  OBVIOUS
<1> HIDE DEF t
<1>3. ASSUME NEW i \in 1 .. Len(s), NEW j \in 1 .. i
      PROVE  Left(g, t, i, j) = Left(g, s, i, j)
  <2>1. \A l \in 1 .. i : t[l] = s[l]
    BY <1>1
  <2> QED BY <2>1 DEF Left
<1>4. ASSUME NEW i \in 1 .. Len(s), NEW j, IsDeepest(g, s, i, j)
      PROVE  IsDeepest(g, t, i, j)
  <2>1. j \in 1 .. i /\ \A k \in j + 1 .. i : k \in 1 .. i
    BY <1>4 DEF IsDeepest
  <2> QED BY <1>3, <1>4, <2>1 DEF IsDeepest
<1>5. ASSUME NEW i \in 1 .. Len(s)
      PROVE  \E j : IsDeepest(g, t, i, j) /\ t[i + 1] \in Left(g, t, i, j)
  <2>1. CASE i = Len(s)
    <3>1. PICK j : IsDeepest(g, s, i, j) /\ x \in Left(g, s, i, j)
      BY <1>2, <2>1
    <3> QED BY <1>1, <1>3, <1>4, <2>1, <3>1 DEF IsDeepest
  <2>2. CASE i # Len(s)
    <3>1. i \in 1 .. Len(s) - 1 /\ i + 1 \in 1 .. Len(s)
      BY <1>1, <2>2
    <3>2. PICK j : IsDeepest(g, s, i, j) /\ s[i + 1] \in Left(g, s, i, j)
      BY <3>1 DEF Branches
    <3> QED BY <1>1, <1>3, <1>4, <3>1, <3>2 DEF IsDeepest
  <2> QED BY <2>1, <2>2
<1> QED
  BY <1>1, <1>5 DEF t, Branches

\* p says who pushed each entry of the stack: the later entries were pushed by
\* later nodes, and of every visited node the unvisited neighbours are there, as
\* far as they are not still to be pushed.
Pushed(p) ==
    /\ p \in [1 .. Len(queue) -> 1 .. Len(order)]
    /\ \A x \in 1 .. Len(queue) : queue[x] \in Neighbors(adj, order[p[x]])
    /\ \A x, y \in 1 .. Len(queue) : x < y => p[x] =< p[y]
    /\ \A j \in 1 .. Len(order) : \A m \in Neighbors(adj, order[j]) \ visited :
          \/ \E x \in 1 .. Len(queue) : queue[x] = m /\ p[x] = j
          \/ j = Len(order) /\ m \in Elements(pending)

DfsOrder ==
    /\ DfsInv
    /\ order = <<>> => pending = <<>> /\ Len(queue) =< 1
    /\ order # <<>> => \E p : Pushed(p)
    /\ Elements(pending) \subseteq Neighbors(adj, order[Len(order)])
    /\ Branches(adj, order)

LEMMA DfsOrderInit == Dfs!Init => DfsOrder
<1> SUFFICES ASSUME Dfs!Init PROVE DfsOrder
  OBVIOUS
<1>1. order = <<>> /\ pending = <<>> /\ Len(order) = 0 /\ Len(queue) =< 1
  BY DEF Dfs!Init
<1>2. 1 .. Len(order) - 1 = {}
  BY <1>1
<1> QED
  BY <1>1, <1>2, DfsInit, ElementsOfEmpty DEF DfsOrder, Branches

\* The stack without its top.
LEMMA PoppedParts ==
    ASSUME DfsInv, queue # <<>>
    PROVE  /\ Len(queue) \in Nat \ {0} /\ Len(Dfs!Popped) = Len(queue) - 1
           /\ \A x \in 1 .. Len(queue) - 1 : Dfs!Popped[x] = queue[x]
           /\ Dfs!Top = queue[Len(queue)]
<1>1. queue \in Seq(Nodes) /\ Len(queue) \in Nat \ {0}
  BY DEF DfsInv, Dfs!TypeOK
<1> QED
  BY <1>1, TakingTheLast DEF Dfs!Popped, Dfs!Top

LEMMA DfsOrderSkip ==
    ASSUME DfsOrder, Dfs!Skip
    PROVE  DfsOrder'
<1>1. DfsInv /\ DfsInv'
  BY DfsSkip DEF DfsOrder
<1>2. /\ queue # <<>> /\ Dfs!Top \in visited /\ queue' = Dfs!Popped
      /\ UNCHANGED <<adj, start, visited, order, pending>>
  BY DEF Dfs!Skip
<1>3. /\ Len(queue) \in Nat \ {0} /\ Len(queue') = Len(queue) - 1
      /\ \A x \in 1 .. Len(queue') : x \in 1 .. Len(queue) /\ queue'[x] = queue[x]
      /\ \A x \in 1 .. Len(queue) : x \in 1 .. Len(queue') \/ queue[x] = Dfs!Top
  BY <1>1, <1>2, PoppedParts
<1>4. order # <<>>
  BY <1>1, <1>2, ElementsOfEmpty DEF DfsInv
<1>5. PICK p : Pushed(p)
  BY <1>4 DEF DfsOrder
<1>6. PICK q : q = [x \in 1 .. Len(queue) - 1 |-> p[x]]
  OBVIOUS
<1>7. Pushed(q)'
  <2>1. q \in [1 .. Len(queue') -> 1 .. Len(order)]
    BY <1>3, <1>5, <1>6 DEF Pushed
  <2>2. /\ \A x \in 1 .. Len(queue') : queue'[x] \in Neighbors(adj, order[q[x]])
        /\ \A x, y \in 1 .. Len(queue') : x < y => q[x] =< q[y]
    BY <1>3, <1>5, <1>6 DEF Pushed
  <2>3. ASSUME NEW j \in 1 .. Len(order), NEW m \in Neighbors(adj, order[j]) \ visited
        PROVE  \/ \E x \in 1 .. Len(queue') : queue'[x] = m /\ q[x] = j
               \/ j = Len(order) /\ m \in Elements(pending)
    <3>1. ASSUME NEW x \in 1 .. Len(queue), queue[x] = m, p[x] = j
          PROVE  x \in 1 .. Len(queue') /\ queue'[x] = m /\ q[x] = j
      BY <1>2, <1>3, <1>6, <3>1
    <3>2. \/ \E x \in 1 .. Len(queue) : queue[x] = m /\ p[x] = j
          \/ j = Len(order) /\ m \in Elements(pending)
      BY <1>5 DEF Pushed
    <3> QED BY <3>1, <3>2
  <2>4. q \in [1 .. Len(queue) -> 1 .. Len(order)]' /\ (visited' = visited /\ adj' = adj)
    BY <1>2, <2>1
  <2>5. /\ \A x \in 1 .. Len(queue') : queue'[x] \in Neighbors(adj', order'[q[x]])
        /\ \A j \in 1 .. Len(order') : \A m \in Neighbors(adj', order'[j]) \ visited' :
             \/ \E x \in 1 .. Len(queue') : queue'[x] = m /\ q[x] = j
             \/ j = Len(order') /\ m \in Elements(pending')
    BY <1>2, <2>2, <2>3
  <2> QED BY <2>2, <2>4, <2>5 DEF Pushed
<1> QED
  BY <1>1, <1>2, <1>4, <1>7 DEF DfsOrder

LEMMA DfsOrderVisit ==
    ASSUME DfsOrder, Dfs!Visit
    PROVE  DfsOrder'
<1> DEFINE n == Dfs!Top
           last == Len(queue)
<1>1. DfsInv /\ DfsInv'
  BY DfsVisit DEF DfsOrder
<1>2. /\ queue # <<>> /\ n \notin visited /\ visited' = visited \cup {n} /\ queue' = Dfs!Popped
      /\ order' = Append(order, n) /\ pending = <<>> /\ pending' = adj[n]
      /\ UNCHANGED <<adj, start>> /\ order \in Seq(Nodes) /\ n \in Nodes
  BY <1>1, DfsPops DEF Dfs!Visit, DfsInv, Dfs!TypeOK
<1>3. /\ last \in Nat \ {0} /\ Len(queue') = last - 1 /\ n = queue[last]
      /\ \A x \in 1 .. last - 1 : x \in 1 .. last /\ queue'[x] = queue[x]
      /\ \A x \in 1 .. last : x \in 1 .. last - 1 \/ queue[x] = n
  <2>1. /\ last \in Nat \ {0} /\ Len(queue') = last - 1 /\ n = queue[last]
        /\ \A x \in 1 .. last - 1 : queue'[x] = queue[x]
    BY <1>1, <1>2, PoppedParts
  <2> HIDE DEF last, n
  <2> QED BY <2>1
<1>4. /\ Len(order) \in Nat /\ Len(order') = Len(order) + 1 /\ order' # <<>>
      /\ order'[Len(order')] = n /\ \A i \in 1 .. Len(order) : order'[i] = order[i]
      /\ visited = {order[i] : i \in 1 .. Len(order)}
  BY <1>1, <1>2 DEF DfsInv, Elements
<1> HIDE DEF n
<1>5. Elements(pending) = {} /\ Elements(pending') = Neighbors(adj, n)
  BY <1>2, ElementsOfEmpty DEF Neighbors
<1>6. CASE order = <<>>
  <2>1. Len(order) = 0 /\ Len(queue') = 0
    BY <1>2, <1>3, <1>6 DEF DfsOrder
  <2>2. Pushed([x \in 1 .. 0 |-> 1])'
    BY <1>2, <1>4, <1>5, <2>1 DEF Pushed
  <2>3. Branches(adj, order')
    BY <1>4, <2>1 DEF Branches
  <2> QED BY <1>1, <1>2, <1>4, <1>5, <2>2, <2>3 DEF DfsOrder
<1>7. CASE order # <<>>
  <2>1. PICK p : Pushed(p)
    BY <1>7 DEF DfsOrder
  <2>2. \E r : Pushed(r)'
    <3>0. PICK q : q = [x \in 1 .. last - 1 |-> p[x]]
      OBVIOUS
    <3>1. q \in [1 .. last - 1 -> 1 .. Len(order')]
      BY <1>3, <1>4, <2>1, <3>0 DEF Pushed
    <3>2. \A x \in 1 .. last - 1 : queue'[x] \in Neighbors(adj, order'[q[x]])
      BY <1>3, <1>4, <2>1, <3>0 DEF Pushed
    <3>3. \A x, y \in 1 .. last - 1 : x < y => q[x] =< q[y]
      BY <1>3, <2>1, <3>0 DEF Pushed
    <3>4. ASSUME NEW j \in 1 .. Len(order'), NEW m \in Neighbors(adj, order'[j]) \ visited'
          PROVE  \/ \E x \in 1 .. last - 1 : queue'[x] = m /\ q[x] = j
                 \/ j = Len(order') /\ m \in Elements(pending')
      <4>1. CASE j = Len(order')
        BY <1>4, <1>5, <4>1
      <4>2. CASE j # Len(order')
        <5>1. j \in 1 .. Len(order) /\ m \in Neighbors(adj, order[j]) \ visited /\ m # n
          BY <1>2, <1>4, <4>2
        <5>2. PICK x \in 1 .. last : queue[x] = m /\ p[x] = j
          BY <1>5, <2>1, <5>1 DEF Pushed
        <5>3. x \in 1 .. last - 1
          BY <1>3, <5>1, <5>2
        <5> QED BY <1>3, <3>0, <5>2, <5>3
      <4> QED BY <4>1, <4>2
    <3>5. Pushed(q)'
      <4>1. Len(queue') = last - 1 /\ adj' = adj
        BY <1>2, <1>3
      <4> HIDE DEF last
      <4>2. /\ q \in [1 .. Len(queue') -> 1 .. Len(order')]
            /\ \A x \in 1 .. Len(queue') : queue'[x] \in Neighbors(adj', order'[q[x]])
            /\ \A x, y \in 1 .. Len(queue') : x < y => q[x] =< q[y]
        BY <3>1, <3>2, <3>3, <4>1
      <4>3. \A j \in 1 .. Len(order') : \A m \in Neighbors(adj', order'[j]) \ visited' :
               \/ \E x \in 1 .. Len(queue') : queue'[x] = m /\ q[x] = j
               \/ j = Len(order') /\ m \in Elements(pending')
        BY <3>4, <4>1
      <4> QED BY <4>2, <4>3 DEF Pushed
    <3> QED BY <3>5
  <2>3. IsDeepest(adj, order, Len(order), p[last]) /\ n \in Left(adj, order, Len(order), p[last])
    <3>1. last \in 1 .. last /\ p[last] \in 1 .. Len(order) /\ n \in Neighbors(adj, order[p[last]])
      BY <1>3, <2>1 DEF Pushed
    <3>2. n \in Left(adj, order, Len(order), p[last])
      BY <1>2, <1>4, <3>1 DEF Left
    <3>3. ASSUME NEW k \in p[last] + 1 .. Len(order)
          PROVE  Left(adj, order, Len(order), k) = {}
      <4> SUFFICES ASSUME NEW m \in Left(adj, order, Len(order), k) PROVE FALSE
        OBVIOUS
      <4>1. k \in 1 .. Len(order) /\ k > p[last] /\ m \in Neighbors(adj, order[k]) \ visited
        BY <1>4, <3>1 DEF Left
      <4>2. PICK x \in 1 .. last : queue[x] = m /\ p[x] = k
        BY <1>5, <2>1, <4>1 DEF Pushed
      <4>3. p[x] =< p[last]
        BY <1>3, <2>1, <3>1 DEF Pushed
      <4> QED BY <1>4, <3>1, <4>1, <4>2, <4>3
    <3> QED BY <3>1, <3>2, <3>3 DEF IsDeepest
  <2>4. Branches(adj, order')
    BY <1>2, <2>3, MoreBranches DEF DfsOrder
  <2> QED BY <1>1, <1>2, <1>4, <1>5, <2>2, <2>4 DEF DfsOrder
<1> QED
  BY <1>6, <1>7

LEMMA DfsOrderPush ==
    ASSUME DfsOrder, Dfs!Push
    PROVE  DfsOrder'
<1> DEFINE m == Head(pending)
           last == Len(queue)
<1>1. DfsInv /\ DfsInv'
  BY DfsPush DEF DfsOrder
<1>2. /\ pending # <<>> /\ pending' = Tail(pending) /\ UNCHANGED <<adj, start, visited, order>>
      /\ queue' = IF m \in visited THEN queue ELSE Append(queue, m)
      /\ pending \in Seq(Nodes) /\ queue \in Seq(Nodes) /\ order \in Seq(Nodes)
  BY <1>1 DEF Dfs!Push, DfsInv, Dfs!TypeOK
<1>3. m \in Nodes /\ Elements(pending) = Elements(pending') \cup {m}
  BY <1>2, Taking
<1>4. order # <<>> /\ Len(order) \in Nat /\ Len(order) \in 1 .. Len(order) /\ last \in Nat
  BY <1>2 DEF DfsOrder
<1>5. m \in Neighbors(adj, order[Len(order)]) /\ Elements(pending') \subseteq Neighbors(adj, order[Len(order)])
  BY <1>3 DEF DfsOrder
<1>6. PICK p : Pushed(p)
  BY <1>4 DEF DfsOrder
<1> HIDE DEF m
<1>7. CASE m \in visited
  <2>1. Pushed(p)'
    BY <1>2, <1>3, <1>6, <1>7 DEF Pushed
  <2> QED BY <1>1, <1>2, <1>4, <1>5, <2>1 DEF DfsOrder
<1>8. CASE m \notin visited
  <2>0. PICK q : q = [x \in 1 .. last + 1 |-> IF x = last + 1 THEN Len(order) ELSE p[x]]
    OBVIOUS
  <2>1. /\ Len(queue') = last + 1 /\ queue'[last + 1] = m
        /\ \A x \in 1 .. last : queue'[x] = queue[x]
    BY <1>2, <1>3, <1>8
  <2>2. q \in [1 .. last + 1 -> 1 .. Len(order)]
    BY <1>4, <1>6, <2>0 DEF Pushed
  <2>3. \A x \in 1 .. last + 1 : queue'[x] \in Neighbors(adj, order[q[x]])
    BY <1>4, <1>5, <1>6, <2>0, <2>1 DEF Pushed
  <2>4. ASSUME NEW x \in 1 .. last + 1, NEW y \in 1 .. last + 1, x < y
        PROVE  q[x] =< q[y]
    <3>1. x \in 1 .. last /\ q[x] = p[x] /\ p[x] \in 1 .. Len(order)
      BY <1>4, <1>6, <2>0, <2>4 DEF Pushed
    <3>2. CASE y = last + 1
      BY <1>4, <2>0, <3>1, <3>2
    <3>3. CASE y # last + 1
      <4>1. y \in 1 .. last /\ q[y] = p[y]
        BY <1>4, <2>0, <3>3
      <4> QED BY <1>6, <2>4, <3>1, <4>1 DEF Pushed
    <3> QED BY <3>2, <3>3
  <2>5. ASSUME NEW j \in 1 .. Len(order), NEW l \in Neighbors(adj, order[j]) \ visited
        PROVE  \/ \E x \in 1 .. last + 1 : queue'[x] = l /\ q[x] = j
               \/ j = Len(order) /\ l \in Elements(pending')
    <3>1. CASE \E x \in 1 .. last : queue[x] = l /\ p[x] = j
      BY <1>4, <2>0, <2>1, <3>1
    <3>2. CASE j = Len(order) /\ l = m
      BY <1>4, <2>0, <2>1, <3>2
    <3>3. CASE j = Len(order) /\ l \in Elements(pending')
      BY <3>3
    <3> QED BY <1>3, <1>6, <3>1, <3>2, <3>3 DEF Pushed
  <2>6. Pushed(q)'
    BY <1>2, <2>1, <2>2, <2>3, <2>4, <2>5 DEF Pushed
  <2> QED BY <1>1, <1>2, <1>4, <1>5, <2>6 DEF DfsOrder
<1> QED
  BY <1>7, <1>8

LEMMA DfsOrderKept == DfsOrder /\ [Dfs!Next]_Dfs!vars => DfsOrder'
<1>1. DfsOrder /\ UNCHANGED Dfs!vars => DfsOrder'
  <2> SUFFICES ASSUME DfsOrder, UNCHANGED Dfs!vars PROVE DfsOrder'
    OBVIOUS
  <2>1. UNCHANGED <<adj, start, visited, queue, order, pending>>
    BY DEF Dfs!vars
  <2>2. DfsInv'
    BY <2>1 DEF DfsOrder, DfsInv, Dfs!TypeOK, DfsFound
  <2>3. \A p : Pushed(p) => Pushed(p)'
    BY <2>1 DEF Pushed
  <2> QED BY <2>1, <2>2, <2>3 DEF DfsOrder
<1> QED
  BY <1>1, DfsOrderSkip, DfsOrderVisit, DfsOrderPush DEF Dfs!Next

LEMMA DfsOrderByBranch == DfsOrder => Dfs!BranchByBranch
<1> SUFFICES ASSUME DfsOrder PROVE Dfs!BranchByBranch
  OBVIOUS
<1> DEFINE Unvisited(i, j) == Dfs!Neighbors(adj, order[j]) \ Dfs!Elements(SubSeq(order, 1, i))
           Deepest(i, j) == /\ Unvisited(i, j) # {}
                            /\ \A k \in j + 1 .. i : Unvisited(i, k) = {}
<1>1. order \in Seq(Nodes) /\ Len(order) \in Nat
  BY DEF DfsOrder, DfsInv, Dfs!TypeOK
<1>2. ASSUME NEW i \in 1 .. Len(order) - 1
      PROVE  order[i + 1] \in Unvisited(i, CHOOSE j \in 1 .. i : Deepest(i, j))
  <2>1. /\ SubSeq(order, 1, i) \in Seq(Nodes) /\ Len(SubSeq(order, 1, i)) = i
        /\ \A x \in 1 .. i : SubSeq(order, 1, i)[x] = order[x]
    BY <1>1, SubSeqProperties
  <2>2. DOMAIN SubSeq(order, 1, i) = 1 .. i
    BY <2>1
  <2>3. \A j : Unvisited(i, j) = Left(adj, order, i, j)
    BY <2>1, <2>2 DEF Left, Dfs!Neighbors, Dfs!Elements, Neighbors, Elements
  <2>4. PICK j \in 1 .. i : IsDeepest(adj, order, i, j) /\ order[i + 1] \in Left(adj, order, i, j)
    BY DEF DfsOrder, Branches, IsDeepest
  <2> HIDE DEF Unvisited
  <2>5. Deepest(i, j)
    BY <2>3, <2>4 DEF IsDeepest
  <2>6. \A l \in 1 .. i : Deepest(i, l) => l = j
    BY <1>1, <2>5
  <2>7. (CHOOSE l \in 1 .. i : Deepest(i, l)) = j
    <3> HIDE DEF Deepest
    <3> QED BY <2>5, <2>6
  <2> QED BY <2>3, <2>4, <2>7
<1> QED BY <1>2 DEF Dfs!BranchByBranch

\* The depth-first search follows each branch to its end: the next node is a
\* neighbour of the latest visited node that leads on, on any graph.
THEOREM DfsBranchByBranch == Dfs!Spec => []Dfs!BranchByBranch
<1> QED
  BY DfsOrderInit, DfsOrderKept, DfsOrderByBranch, PTL DEF Dfs!Spec

\* Both at once: in every run of the traversals, whichever it is, nodes come in
\* the order that breadth-first or depth-first search promises.
THEOREM VisitsComeInOrder == MCSpec => []VisitsInOrder
<1> DEFINE Inv == (algorithm = "bfs" => BfsOrder) /\ (algorithm = "dfs" => DfsOrder)
<1>1. MCInit => Inv
  BY BfsOrderInit, DfsOrderInit DEF MCInit
<1>2. Inv /\ [MCNext]_mcvars => Inv'
  <2> SUFFICES ASSUME Inv, [MCNext]_mcvars PROVE Inv'
    OBVIOUS
  <2>1. UNCHANGED algorithm
    BY DEF MCNext, mcvars
  <2>2. CASE algorithm = "bfs"
    <3>1. [Next]_vars
      BY <2>2 DEF MCNext, mcvars
    <3> QED BY <2>1, <2>2, <3>1, BfsOrderKept
  <2>3. CASE algorithm = "dfs"
    <3>1. [Dfs!Next]_Dfs!vars
      BY <2>3 DEF MCNext, mcvars, vars, Dfs!vars
    <3> QED BY <2>1, <2>3, <3>1, DfsOrderKept
  <2> QED BY <2>1, <2>2, <2>3
<1>3. Inv => VisitsInOrder
  BY BfsOrderByLevel, DfsOrderByBranch DEF VisitsInOrder
<1> QED
  BY <1>1, <1>2, <1>3, PTL DEF MCSpec

-----------------------------------------------------------------------------
(* Dijkstra's search: the reference.                                        *)

LEMMA MinFacts ==
    ASSUME NEW S, S \subseteq Nat, S # {}
    PROVE  Min(S) \in S /\ \A n \in S : Min(S) =< n
BY LeastNumber DEF Min

Distances == [Vertices -> 0 .. Infinity]

\* How far the counts of edges go.
Most == Cardinality(Vertices) - 1

LEMMA PairNodes ==
    ASSUME DijkstraAssumption, NEW p \in Pairs
    PROVE  p = <<p[1], p[2]>> /\ p[1] \in Vertices /\ p[2] \in Vertices
BY DEF DijkstraAssumption

LEMMA WeightNat ==
    ASSUME DijkstraAssumption, DijkstraTypeOK, NEW p \in Pairs, NEW w \in weights[p]
    PROVE  w \in Nat
BY DEF DijkstraAssumption, DijkstraTypeOK

\* With one more edge the least weight is no greater, no greater than over any
\* edge, and it comes over one if it is less.
LEMMA OneMoreFacts ==
    ASSUME DijkstraAssumption, DijkstraTypeOK, NEW known \in Distances
    PROVE  /\ OneMore(known) \in Distances
           /\ \A n \in Vertices : OneMore(known)[n] =< known[n]
           /\ \A p \in Pairs : \A w \in weights[p] :
                 OneMore(known)[p[2]] =< known[p[1]] + w
           /\ \A n \in Vertices :
                 \/ OneMore(known)[n] = known[n]
                 \/ \E p \in Pairs : \E w \in weights[p] :
                       p[2] = n /\ OneMore(known)[n] = known[p[1]] + w
<1> DEFINE over(n) == UNION {{known[p[1]] + w : w \in weights[p]} :
                             p \in {q \in Pairs : q[2] = n /\ known[q[1]] < Infinity}}
<1>1. Infinity \in Nat /\ \A n \in Vertices : known[n] \in Nat /\ known[n] =< Infinity
  BY DEF DijkstraAssumption, Distances
<1>2. \A n : \A x \in over(n) : \E p \in Pairs : \E w \in weights[p] :
          p[2] = n /\ x = known[p[1]] + w
  OBVIOUS
<1>3. \A n : \A p \in Pairs : \A w \in weights[p] :
          p[2] = n /\ known[p[1]] < Infinity => known[p[1]] + w \in over(n)
  OBVIOUS
<1>4. \A n : over(n) \subseteq Nat
  BY <1>1, <1>2, PairNodes, WeightNat
<1>5. \A n \in Vertices : OneMore(known)[n] = Min({known[n]} \cup over(n))
  BY DEF OneMore
<1> HIDE DEF over
<1>6. ASSUME NEW n \in Vertices
      PROVE  /\ OneMore(known)[n] \in {known[n]} \cup over(n)
             /\ OneMore(known)[n] =< known[n]
             /\ \A x \in over(n) : OneMore(known)[n] =< x
  <2>1. {known[n]} \cup over(n) \subseteq Nat
    BY <1>1, <1>4
  <2> QED BY <1>5, <2>1, MinFacts
<1>7. OneMore(known) \in Distances
  <2>1. \A n \in Vertices : OneMore(known)[n] \in 0 .. Infinity
    BY <1>1, <1>4, <1>6
  <2>2. OneMore(known) = [n \in Vertices |-> OneMore(known)[n]]
    BY DEF OneMore
  <2> HIDE DEF OneMore
  <2> QED BY <2>1, <2>2 DEF Distances
<1>8. ASSUME NEW p \in Pairs, NEW w \in weights[p]
      PROVE  OneMore(known)[p[2]] =< known[p[1]] + w
  <2>1. /\ p[1] \in Vertices /\ p[2] \in Vertices /\ w \in Nat
        /\ OneMore(known)[p[2]] \in Nat
    BY <1>1, <1>4, <1>6, PairNodes, WeightNat
  <2>2. CASE known[p[1]] < Infinity
    BY <1>3, <1>6, <2>1, <2>2
  <2>3. CASE ~(known[p[1]] < Infinity)
    BY <1>1, <1>6, <2>1, <2>3
  <2> QED BY <2>2, <2>3
<1>9. ASSUME NEW n \in Vertices
      PROVE  \/ OneMore(known)[n] = known[n]
             \/ \E p \in Pairs : \E w \in weights[p] :
                   p[2] = n /\ OneMore(known)[n] = known[p[1]] + w
  BY <1>2, <1>6
<1> QED
  BY <1>6, <1>7, <1>8, <1>9

\* L lists the least weights for up to m edges.
Lists(L, m) == L = [k \in 0 .. m |-> IF k = 0 THEN NoEdge ELSE OneMore(L[k - 1])]

LEMMA ListExists ==
    ASSUME NEW m \in Nat
    PROVE  \E L : Lists(L, m)
<1> DEFINE without == {k \in Nat : ~\E L : Lists(L, k)}
<1>1. ASSUME without # {} PROVE FALSE
  <2>1. PICK k \in without : \A n \in without : k =< n
    BY <1>1, LeastNumber
  <2>2. CASE k = 0
    <3> DEFINE L == [n \in 0 .. 0 |-> NoEdge]
    <3>1. L = [n \in 0 .. 0 |-> IF n = 0 THEN NoEdge ELSE OneMore(L[n - 1])]
      OBVIOUS
    <3> QED BY <2>1, <2>2, <3>1 DEF Lists
  <2>3. CASE k # 0
    <3>1. k - 1 \in Nat /\ k - 1 \notin without
      BY <2>1, <2>3
    <3>2. PICK K : Lists(K, k - 1)
      BY <3>1
    <3> DEFINE L == [n \in 0 .. k |-> IF n = k THEN OneMore(K[k - 1]) ELSE K[n]]
    <3>3. ASSUME NEW n \in 0 .. k
          PROVE  L[n] = IF n = 0 THEN NoEdge ELSE OneMore(L[n - 1])
      <4>1. CASE n = k
        BY <2>1, <2>3, <4>1
      <4>2. CASE n # k
        <5>1. /\ n \in 0 .. (k - 1) /\ L[n] = K[n]
              /\ n # 0 => n - 1 \in 0 .. (k - 1) /\ L[n - 1] = K[n - 1]
          BY <2>1, <4>2
        <5>2. K[n] = IF n = 0 THEN NoEdge ELSE OneMore(K[n - 1])
          BY <3>2, <5>1 DEF Lists
        <5> QED BY <5>1, <5>2
      <4> QED BY <4>1, <4>2
    <3>4. Lists(L, k)
      BY <3>3 DEF Lists
    <3> QED BY <2>1, <3>4
  <2> QED BY <2>2, <2>3
<1> QED
  BY <1>1

LEMMA MostNat ==
    ASSUME DijkstraAssumption, Start \in Vertices
    PROVE  Most \in Nat /\ Cardinality(Vertices) = Most + 1
<1>1. Cardinality(Vertices) \in Nat /\ Cardinality(Vertices) # 0
  BY FS_CardinalityType, FS_EmptySet DEF DijkstraAssumption
<1> QED
  BY <1>1 DEF Most

LEMMA WithinIs ==
    ASSUME DijkstraAssumption, Start \in Vertices
    PROVE  /\ LeastWithin[0] = NoEdge
           /\ \A k \in 1 .. Most : LeastWithin[k] = OneMore(LeastWithin[k - 1])
           /\ LeastWeight = LeastWithin[Most]
<1>1. LeastWithin = CHOOSE L : Lists(L, Most)
  BY DEF LeastWithin, Lists, Most
<1>2. Lists(LeastWithin, Most)
  BY <1>1, MostNat, ListExists
<1> QED
  BY <1>2, MostNat DEF Lists, LeastWeight, Most

LEMMA WithinTypes ==
    ASSUME DijkstraAssumption, DijkstraTypeOK, Start \in Vertices, NEW k \in 0 .. Most
    PROVE  LeastWithin[k] \in Distances
<1> DEFINE bad == {j \in 0 .. Most : LeastWithin[j] \notin Distances}
<1>1. ASSUME bad # {} PROVE FALSE
  <2>1. PICK j \in bad : \A n \in bad : j =< n
    <3>1. bad \subseteq Nat
      BY MostNat
    <3> HIDE DEF bad
    <3> QED BY <1>1, <3>1, LeastNumber
  <2>2. NoEdge \in Distances
    BY DEF NoEdge, Distances, DijkstraAssumption
  <2>3. j # 0
    BY <2>1, <2>2, WithinIs
  <2>4. j - 1 \in 0 .. Most /\ j - 1 \notin bad /\ j \in 1 .. Most
    BY <2>1, <2>3, MostNat
  <2> QED BY <2>1, <2>4, WithinIs, OneMoreFacts
<1> QED
  BY <1>1

\* The more edges, the less weight.
LEMMA WithinFalls ==
    ASSUME DijkstraAssumption, DijkstraTypeOK, Start \in Vertices, NEW k \in 0 .. Most, NEW n \in Vertices
    PROVE  LeastWithin[Most][n] =< LeastWithin[k][n]
<1> DEFINE good == {i \in Nat : i =< Most /\ LeastWithin[Most][n] =< LeastWithin[Most - i][n]}
           bad == {i \in 0 .. Most : i \notin good}
<1>1. \A j \in 0 .. Most : LeastWithin[j] \in Distances /\ LeastWithin[j][n] \in Nat
  BY WithinTypes DEF Distances, DijkstraAssumption
<1>2. ASSUME bad # {} PROVE FALSE
  <2>1. PICK i \in bad : \A j \in bad : i =< j
    <3>1. bad \subseteq Nat
      BY MostNat
    <3> HIDE DEF bad
    <3> QED BY <1>2, <3>1, LeastNumber
  <2>2. i # 0
    BY <1>1, <2>1, MostNat
  <2>3. i - 1 \in 0 .. Most /\ i - 1 \notin bad /\ Most - i \in 0 .. Most
        /\ Most - (i - 1) \in 1 .. Most /\ Most - (i - 1) - 1 = Most - i
    BY <2>1, <2>2, MostNat
  <2>4. LeastWithin[Most][n] =< LeastWithin[Most - (i - 1)][n]
    BY <2>3
  <2>5. LeastWithin[Most - (i - 1)][n] =< LeastWithin[Most - i][n]
    BY <1>1, <2>3, WithinIs, OneMoreFacts
  <2> QED BY <1>1, <2>1, <2>3, <2>4, <2>5, MostNat
<1>3. Most - k \in 0 .. Most /\ Most - (Most - k) = k
  BY MostNat
<1> QED
  BY <1>2, <1>3

\* If the distances below `bound` agree with the edges, no walk that is
\* lighter than `bound` is lighter than them.
LEMMA NoLighterWalk ==
    ASSUME DijkstraAssumption, DijkstraTypeOK, Start \in Vertices, distance[Start] = 0,
           NEW bound \in 0 .. Infinity,
           \A p \in Pairs : \A w \in weights[p] :
               distance[p[1]] < bound => distance[p[2]] =< distance[p[1]] + w,
           NEW k \in 0 .. Most, NEW n \in Vertices
    PROVE  distance[n] =< LeastWithin[k][n] \/ bound =< LeastWithin[k][n]
<1> DEFINE holds(j) == \A m \in Vertices :
               distance[m] =< LeastWithin[j][m] \/ bound =< LeastWithin[j][m]
           bad == {j \in 0 .. Most : ~holds(j)}
<1>1. /\ Infinity \in Nat /\ \A m \in Vertices : distance[m] \in 0 .. Infinity
      /\ \A j \in 0 .. Most : LeastWithin[j] \in Distances
      /\ \A j \in 0 .. Most : \A m \in Vertices : LeastWithin[j][m] \in Nat
  <2>1. Infinity \in Nat /\ distance \in Distances
    BY DEF Distances, DijkstraAssumption, DijkstraTypeOK
  <2>2. \A j \in 0 .. Most : LeastWithin[j] \in Distances
    BY WithinTypes
  <2>3. \A f \in Distances : \A m \in Vertices : f[m] \in 0 .. Infinity /\ f[m] \in Nat
    BY <2>1 DEF Distances
  <2> QED BY <2>1, <2>2, <2>3
<1>2. ASSUME bad # {} PROVE FALSE
  <2>1. PICK j \in bad : \A i \in bad : j =< i
    <3>1. bad \subseteq Nat
      BY MostNat
    <3> HIDE DEF bad
    <3> QED BY <1>2, <3>1, LeastNumber
  <2>2. j # 0
    <3>1. \A m \in Vertices : distance[m] =< NoEdge[m]
      BY <1>1 DEF NoEdge
    <3> QED BY <2>1, <3>1, WithinIs
  <2>3. j - 1 \in 0 .. Most /\ holds(j - 1) /\ j \in 1 .. Most
    BY <2>1, <2>2, MostNat
  <2>4. PICK m \in Vertices : ~(distance[m] =< LeastWithin[j][m] \/ bound =< LeastWithin[j][m])
    BY <2>1
  <2>5. LeastWithin[j] = OneMore(LeastWithin[j - 1])
    BY <2>3, WithinIs
  <2>6. LeastWithin[j][m] # LeastWithin[j - 1][m]
    BY <2>3, <2>4
  <2>7. PICK p \in Pairs : \E w \in weights[p] :
            p[2] = m /\ LeastWithin[j][m] = LeastWithin[j - 1][p[1]] + w
    BY <1>1, <2>3, <2>5, <2>6, OneMoreFacts
  <2>8. PICK w \in weights[p] :
            p[2] = m /\ LeastWithin[j][m] = LeastWithin[j - 1][p[1]] + w
    BY <2>7
  <2>9. p[1] \in Vertices /\ w \in Nat
    BY PairNodes, WeightNat
  <2>10. LeastWithin[j - 1][p[1]] \in Nat /\ distance[p[1]] \in Nat /\ distance[m] \in Nat
    BY <1>1, <2>3, <2>9
  <2>11. CASE bound =< LeastWithin[j - 1][p[1]]
    BY <2>4, <2>8, <2>9, <2>10, <2>11
  <2>12. CASE ~(bound =< LeastWithin[j - 1][p[1]])
    <3>1. distance[p[1]] =< LeastWithin[j - 1][p[1]] /\ distance[p[1]] < bound
      BY <2>3, <2>9, <2>10, <2>12
    <3>2. distance[m] =< distance[p[1]] + w
      BY <2>8, <3>1
    <3> QED BY <2>4, <2>8, <2>9, <2>10, <3>1, <3>2
  <2> QED BY <2>11, <2>12
<1> QED
  BY <1>2

-----------------------------------------------------------------------------
(* The search.  A node is settled when it has a distance and no entry on    *)
(* the heap carries it any more.                                            *)

Settled == {n \in Vertices : distance[n] < Infinity /\ Entry(distance[n], n) \notin heap}

\* Settled nodes come before the entry being settled, the heap after it; of the
\* edges of a settled node at most the relaxing ones are still to be relaxed;
\* and with a node settled more, walks with an edge more are accounted for.
SearchInv ==
    phase = "search" =>
        /\ Start \in Vertices /\ goal \in Vertices /\ goal \notin Settled
        /\ distance[Start] = 0 /\ path = <<>>
        /\ \A e \in heap : distance[e.node] =< e.distance /\ current.distance =< e.distance
        /\ \A m \in Settled : distance[m] =< current.distance
        /\ \A m \in Settled : \A edge \in NeighborsOutgoing(m) :
              \/ distance[edge[1]] =< distance[m] + edge[2]
              \/ m = current.node /\ edge \in relaxing
        /\ \A n \in Vertices : LeastWithin[Cardinality(Settled)][n] =< distance[n]
        /\ relaxing # {} =>
              /\ relaxing \subseteq NeighborsOutgoing(current.node)
              /\ current.node \in Settled /\ current.distance = distance[current.node]
              /\ LeastWithin[Cardinality(Settled) - 1][current.node] =< current.distance

\* n comes before m on a path.
Precedes(n, m) ==
    /\ <<n, m>> \in Pairs
    /\ \E w \in weights[<<n, m>>] : distance[m] = distance[n] + w

\* The predecessors lead back to the start over settled nodes.
BackFrom(n) ==
    /\ predecessor[n] # Nobody =>
          Precedes(predecessor[n], n) /\ distance[predecessor[n]] < Infinity
    /\ predecessor[n] # Nobody /\ phase = "search" => predecessor[n] \in Settled
    /\ distance[n] < Infinity /\ n # Start => predecessor[n] # Nobody

BackInv == \A n \in Vertices : BackFrom(n)

\* The nodes of s lie on a path, in this order.
Chain(s) == \A i \in 1 .. Len(s) - 1 : Precedes(s[i], s[i + 1])

\* The path is complete from where it has got to on.
PathInv ==
    phase \in {"walk", "found"} =>
        /\ Start \in Vertices /\ goal \in Vertices /\ distance[goal] < Infinity
        /\ distance[goal] = LeastWeight[goal]
        /\ path # <<>> =>
              path[Len(path)] = goal /\ Chain(path) /\ distance[Head(path)] < Infinity
        /\ phase = "walk" /\ path # <<>> => predecessor[Head(path)] # Nobody
        /\ phase = "found" => path # <<>> /\ Head(path) = Start

NoPathInv ==
    phase = "none" => goal \notin Vertices \/ Start \notin Vertices \/ LeastWeight[goal] = Infinity

DijkstraInv ==
    /\ DijkstraTypeOK /\ SearchInv /\ BackInv /\ PathInv /\ NoPathInv
    /\ relaxing # {} => phase = "search"

LEMMA HeapTypes ==
    ASSUME DijkstraAssumption, DijkstraTypeOK, Start \in Vertices
    PROVE  /\ \A e \in heap \cup {current} :
                 e.distance \in Nat /\ e.distance < Infinity /\ e.node \in Vertices
                 /\ e = Entry(e.distance, e.node)
           /\ Infinity \in Nat /\ \A n \in Vertices : distance[n] \in 0 .. Infinity
BY DEF DijkstraAssumption, DijkstraTypeOK, Entry

LEMMA EdgeOf ==
    ASSUME DijkstraAssumption, DijkstraTypeOK, NEW n, NEW edge
    PROVE  edge \in NeighborsOutgoing(n) <=>
               \E p \in Pairs : \E w \in weights[p] :
                   p = <<n, edge[1]>> /\ w = edge[2] /\ edge = <<edge[1], w>>
<1>1. edge \in NeighborsOutgoing(n) <=>
          \E p \in Pairs : p[1] = n /\ \E w \in weights[p] : edge = <<p[2], w>>
  BY DEF NeighborsOutgoing
<1>2. \A p \in Pairs : p = <<p[1], p[2]>>
  BY PairNodes
<1>3. ASSUME edge \in NeighborsOutgoing(n)
      PROVE  \E p \in Pairs : \E w \in weights[p] :
                 p = <<n, edge[1]>> /\ w = edge[2] /\ edge = <<edge[1], w>>
  <2>1. PICK p \in Pairs : p[1] = n /\ \E w \in weights[p] : edge = <<p[2], w>>
    BY <1>1, <1>3
  <2>2. PICK w \in weights[p] : edge = <<p[2], w>>
    BY <2>1
  <2> QED BY <1>2, <2>1, <2>2
<1>4. ASSUME NEW p \in Pairs, NEW w \in weights[p],
             p = <<n, edge[1]>>, edge = <<edge[1], w>>
      PROVE  edge \in NeighborsOutgoing(n)
  BY <1>1, <1>4
<1> QED
  BY <1>3, <1>4

LEMMA SettledCount ==
    ASSUME DijkstraAssumption, Start \in Vertices, goal \in Vertices, goal \notin Settled
    PROVE  IsFiniteSet(Settled) /\ Cardinality(Settled) \in 0 .. Most
<1>1. IsFiniteSet(Vertices) /\ IsFiniteSet(Vertices \ {goal}) /\ Settled \subseteq Vertices \ {goal}
  BY FS_RemoveElement DEF DijkstraAssumption, Settled
<1>2. Cardinality(Vertices \ {goal}) = Most
  BY <1>1, MostNat, FS_RemoveElement DEF Most
<1>3. IsFiniteSet(Settled) /\ Cardinality(Settled) =< Most
  BY <1>1, <1>2, FS_Subset
<1>4. Cardinality(Settled) \in Nat
  BY <1>3, FS_CardinalityType
<1> QED
  BY <1>3, <1>4, MostNat

\* Between two settlements, what no entry on the heap is nearer than is final.
LEMMA NearIsFinal ==
    ASSUME DijkstraAssumption, DijkstraTypeOK, SearchInv, phase = "search", relaxing = {},
           NEW n \in Vertices, \A e \in heap : distance[n] =< e.distance
    PROVE  distance[n] = LeastWeight[n]
<1>1. /\ Start \in Vertices /\ distance[Start] = 0
      /\ Cardinality(Settled) \in 0 .. Most
      /\ LeastWithin[Cardinality(Settled)][n] =< distance[n]
  BY SettledCount DEF SearchInv
<1>2. Infinity \in Nat /\ \A m \in Vertices : distance[m] \in 0 .. Infinity
  BY <1>1, HeapTypes
<1>3. ASSUME NEW p \in Pairs, NEW w \in weights[p], distance[p[1]] < distance[n]
      PROVE  distance[p[2]] =< distance[p[1]] + w
  <2> DEFINE edge == <<p[2], w>>
  <2>1. p[1] \in Vertices /\ p = <<p[1], p[2]>>
    BY PairNodes
  <2>2. p[1] \in Settled
    <3>1. Entry(distance[p[1]], p[1]).distance = distance[p[1]]
      BY DEF Entry
    <3> QED BY <1>2, <1>3, <2>1, <3>1 DEF Settled
  <2>3. edge \in NeighborsOutgoing(p[1])
    BY <2>1, EdgeOf
  <2> QED BY <2>2, <2>3 DEF SearchInv
<1>4. LeastWithin[Most][n] =< LeastWithin[Cardinality(Settled)][n]
  BY <1>1, WithinFalls
<1>5. distance[n] =< LeastWithin[Most][n]
  BY <1>1, <1>2, <1>3, MostNat, NoLighterWalk
<1>6. LeastWithin[Most] \in Distances /\ LeastWithin[Cardinality(Settled)] \in Distances
  BY <1>1, MostNat, WithinTypes
<1> QED
  BY <1>1, <1>2, <1>4, <1>5, <1>6, WithinIs DEF Distances

-----------------------------------------------------------------------------
(* Each step keeps the invariant.                                          *)

LEMMA InvInit == ASSUME DijkstraAssumption, DijkstraInit PROVE DijkstraInv
<1>1. DijkstraTypeOK
  BY DEF DijkstraAssumption, DijkstraInit, DijkstraTypeOK, Entry
<1>2. Start \in Vertices => Settled = {} /\ distance[Start] = 0
  BY DEF DijkstraAssumption, DijkstraInit, Settled, Entry
<1>3. SearchInv
  <2> SUFFICES ASSUME phase = "search" PROVE SearchInv
    BY DEF SearchInv
  <2>1. /\ Start \in Vertices /\ goal \in Vertices /\ path = <<>> /\ relaxing = {}
        /\ heap = {Entry(0, Start)} /\ current = Entry(0, Start)
        /\ distance = NoEdge
    BY DEF DijkstraInit, NoEdge
  <2>2. Cardinality(Settled) = 0 /\ LeastWithin[0] = NoEdge
    BY <1>2, <2>1, FS_EmptySet, WithinIs
  <2>3. \A n \in Vertices : distance[n] \in Nat
    BY <1>1, <2>1, HeapTypes
  <2> QED BY <1>2, <2>1, <2>2, <2>3 DEF SearchInv, Entry
<1>4. BackInv
  BY DEF DijkstraAssumption, DijkstraInit, BackInv, BackFrom
<1> QED
  BY <1>1, <1>3, <1>4 DEF DijkstraInv, DijkstraInit, PathInv, NoPathInv

\* The entry that is popped carries a distance no less than its node's.
LEMMA PoppedEntry ==
    ASSUME DijkstraAssumption, DijkstraTypeOK, SearchInv, NEW e, Popping(e)
    PROVE  /\ phase = "search" /\ relaxing = {} /\ Start \in Vertices /\ e \in heap
           /\ e.node \in Vertices /\ e.distance \in Nat /\ e.distance < Infinity
           /\ distance[e.node] =< e.distance /\ e = Entry(e.distance, e.node)
           /\ \A f \in heap : e.distance =< f.distance
           /\ heap' = heap \ {e}
<1>1. phase = "search" /\ relaxing = {} /\ e \in heap /\ heap' = heap \ {e}
      /\ \A f \in heap : Before(e, f)
  BY DEF Popping
<1>2. Start \in Vertices /\ distance[e.node] =< e.distance
  BY <1>1 DEF SearchInv
<1>3. \A f \in heap : e.distance =< f.distance
  BY <1>1, <1>2, HeapTypes DEF Before
<1> QED
  BY <1>1, <1>2, <1>3, HeapTypes

LEMMA PopGoalKeeps ==
    ASSUME DijkstraAssumption, DijkstraInv, NEW e \in heap, PopGoal(e)
    PROVE  DijkstraInv'
<1>1. /\ Popping(e) /\ e.node = goal /\ phase' = "walk" /\ current' = e
      /\ UNCHANGED <<weights, goal, distance, predecessor, relaxing, path>>
  BY DEF PopGoal
<1>2. DijkstraTypeOK /\ SearchInv /\ BackInv
  BY DEF DijkstraInv
<1>3. /\ phase = "search" /\ relaxing = {} /\ Start \in Vertices /\ goal \in Vertices
      /\ goal \notin Settled /\ path = <<>>
      /\ distance[goal] =< e.distance /\ e.distance < Infinity
      /\ \A f \in heap : e.distance =< f.distance
      /\ heap' = heap \ {e}
  BY <1>1, <1>2, PoppedEntry DEF SearchInv
<1>4. distance[goal] \in Nat /\ e.distance \in Nat /\ Infinity \in Nat
  BY <1>2, <1>3, HeapTypes
<1>5. distance[goal] < Infinity /\ distance[goal] = e.distance
  <2>1. Entry(distance[goal], goal) \in heap
    BY <1>3, <1>4 DEF Settled
  <2>2. e.distance =< distance[goal]
    BY <1>3, <2>1 DEF Entry
  <2> QED BY <1>3, <1>4, <2>2
<1>6. distance[goal] = LeastWeight[goal]
  BY <1>2, <1>3, <1>5, NearIsFinal
<1>7. LeastWeight' = LeastWeight
  BY <1>1 DEF LeastWeight, LeastWithin, NoEdge, OneMore
<1>8. DijkstraTypeOK'
  BY <1>1, <1>2, <1>3 DEF DijkstraTypeOK
<1>9. BackInv'
  BY <1>1, <1>2, <1>3 DEF BackInv, BackFrom, Precedes
<1>10. PathInv'
  BY <1>1, <1>3, <1>5, <1>6, <1>7 DEF PathInv
<1> QED
  BY <1>1, <1>3, <1>8, <1>9, <1>10 DEF DijkstraInv, SearchInv, NoPathInv

LEMMA PopStaleKeeps ==
    ASSUME DijkstraAssumption, DijkstraInv, NEW e \in heap, PopStale(e)
    PROVE  DijkstraInv'
<1>1. /\ Popping(e) /\ e.distance > distance[e.node]
      /\ UNCHANGED <<weights, goal, phase, distance, predecessor, current, relaxing, path>>
  BY DEF PopStale, Stale
<1>2. DijkstraTypeOK /\ SearchInv /\ BackInv
  BY DEF DijkstraInv
<1>3. phase = "search" /\ Start \in Vertices /\ heap' = heap \ {e} /\ e.node \in Vertices
  BY <1>1, <1>2, PoppedEntry
<1>4. Settled' = Settled
  <2>1. \A n \in Vertices : Entry(distance[n], n) # e
    <3>1. distance[e.node] \in Nat /\ e.distance \in Nat
      BY <1>2, <1>3, HeapTypes
    <3> QED BY <1>1, <3>1 DEF Entry
  <2> QED BY <1>1, <1>3, <2>1 DEF Settled
<1>5. LeastWithin' = LeastWithin /\ NeighborsOutgoing(current.node)' = NeighborsOutgoing(current.node)
      /\ \A n : NeighborsOutgoing(n)' = NeighborsOutgoing(n)
  BY <1>1 DEF LeastWithin, NoEdge, OneMore, NeighborsOutgoing
<1>6. DijkstraTypeOK'
  BY <1>1, <1>2, <1>3 DEF DijkstraTypeOK
<1>7. SearchInv'
  BY <1>1, <1>2, <1>3, <1>4, <1>5 DEF SearchInv
<1>8. BackInv'
  BY <1>1, <1>2, <1>4 DEF BackInv, BackFrom, Precedes
<1> QED
  BY <1>1, <1>3, <1>6, <1>7, <1>8 DEF DijkstraInv, PathInv, NoPathInv

LEMMA SettleKeeps ==
    ASSUME DijkstraAssumption, DijkstraInv, NEW e \in heap, Settle(e)
    PROVE  DijkstraInv'
<1>1. /\ Popping(e) /\ e.node # goal /\ ~(e.distance > distance[e.node])
      /\ current' = e /\ relaxing' = NeighborsOutgoing(e.node)
      /\ UNCHANGED <<weights, goal, phase, distance, predecessor, path>>
  BY DEF Settle, Stale
<1>2. DijkstraTypeOK /\ SearchInv /\ BackInv
  BY DEF DijkstraInv
<1>3. /\ phase = "search" /\ relaxing = {} /\ Start \in Vertices /\ goal \in Vertices
      /\ heap' = heap \ {e} /\ e.node \in Vertices /\ e = Entry(e.distance, e.node)
      /\ e.distance \in Nat /\ e.distance < Infinity /\ goal \notin Settled
      /\ distance[e.node] =< e.distance /\ current.distance =< e.distance
      /\ \A f \in heap : e.distance =< f.distance
  BY <1>1, <1>2, PoppedEntry DEF SearchInv
<1>4. /\ Infinity \in Nat /\ \A n \in Vertices : distance[n] \in 0 .. Infinity
      /\ current.distance \in Nat
  BY <1>2, <1>3, HeapTypes
<1>5. distance[e.node] = e.distance
  BY <1>1, <1>3, <1>4
<1>6. e.node \notin Settled /\ Settled' = Settled \cup {e.node}
  <2>1. \A n \in Vertices : Entry(distance[n], n) = e <=> n = e.node
    BY <1>3, <1>5 DEF Entry
  <2> QED BY <1>1, <1>3, <1>5, <2>1 DEF Settled
<1>7. /\ Cardinality(Settled) \in 0 .. Most /\ Cardinality(Settled') \in 0 .. Most
      /\ Cardinality(Settled') = Cardinality(Settled) + 1
  <2>1. IsFiniteSet(Settled) /\ Cardinality(Settled) \in 0 .. Most
    BY <1>3, SettledCount
  <2>2. Cardinality(Settled') = Cardinality(Settled) + 1
    BY <1>6, <2>1, FS_AddElement
  <2>3. Settled' \subseteq Vertices \ {goal}
    BY <1>1, <1>3, <1>6 DEF Settled
  <2>4. IsFiniteSet(Vertices \ {goal}) /\ Cardinality(Vertices \ {goal}) = Most
    BY <1>3, FS_RemoveElement DEF DijkstraAssumption, Most
  <2>5. Cardinality(Settled') =< Most
    BY <2>3, <2>4, FS_Subset
  <2> QED BY <1>3, <2>1, <2>2, <2>5, MostNat
<1>8. /\ LeastWithin' = LeastWithin
      /\ \A n : NeighborsOutgoing(n)' = NeighborsOutgoing(n)
  BY <1>1 DEF LeastWithin, NoEdge, OneMore, NeighborsOutgoing
<1>9. DijkstraTypeOK'
  <2>1. NeighborsOutgoing(e.node) \subseteq Vertices \X Nat
    <3> SUFFICES ASSUME NEW edge \in NeighborsOutgoing(e.node)
                 PROVE  edge \in Vertices \X Nat
      OBVIOUS
    <3>1. PICK p \in Pairs : \E w \in weights[p] :
              p = <<e.node, edge[1]>> /\ w = edge[2] /\ edge = <<edge[1], w>>
      BY <1>2, EdgeOf
    <3>2. p[2] = edge[1] /\ p[2] \in Vertices /\ edge[2] \in Nat /\ edge = <<edge[1], edge[2]>>
      BY <1>2, <3>1, PairNodes, WeightNat
    <3> QED BY <3>2
  <2> QED BY <1>1, <1>2, <1>3, <2>1 DEF DijkstraTypeOK
<1>10. \A n \in Vertices : LeastWithin[Cardinality(Settled')][n] =< distance[n]
  <2> SUFFICES ASSUME NEW n \in Vertices
               PROVE  LeastWithin[Cardinality(Settled')][n] =< distance[n]
    OBVIOUS
  <2>1. Cardinality(Settled') \in 1 .. Most /\ Cardinality(Settled') - 1 = Cardinality(Settled)
    BY <1>3, <1>7, MostNat
  <2>2. /\ LeastWithin[Cardinality(Settled')] = OneMore(LeastWithin[Cardinality(Settled)])
        /\ LeastWithin[Cardinality(Settled)] \in Distances
        /\ LeastWithin[Cardinality(Settled')] \in Distances
    BY <1>2, <1>3, <1>7, <2>1, WithinIs, WithinTypes
  <2>3. LeastWithin[Cardinality(Settled')][n] =< LeastWithin[Cardinality(Settled)][n]
    BY <1>2, <2>2, OneMoreFacts
  <2>4. LeastWithin[Cardinality(Settled)][n] =< distance[n]
    BY <1>2, <1>3 DEF SearchInv
  <2> QED BY <1>4, <2>2, <2>3, <2>4 DEF Distances
<1>11. \A m \in Settled' : \A edge \in NeighborsOutgoing(m) :
           \/ distance[edge[1]] =< distance[m] + edge[2]
           \/ m = e.node /\ edge \in relaxing'
  BY <1>1, <1>2, <1>3, <1>6 DEF SearchInv
<1>12. \A m \in Settled' : distance[m] =< e.distance
  <2>1. \A m \in Settled : distance[m] =< current.distance /\ distance[m] \in Nat
    BY <1>2, <1>3, <1>4 DEF SearchInv, Settled
  <2> QED BY <1>3, <1>4, <1>5, <1>6, <2>1
<1>13. LeastWithin[Cardinality(Settled') - 1][e.node] =< e.distance
  BY <1>2, <1>3, <1>5, <1>7 DEF SearchInv
<1>14. SearchInv'
  <2>1. \A f \in heap' : distance[f.node] =< f.distance /\ e.distance =< f.distance
    BY <1>2, <1>3 DEF SearchInv
  <2>2. goal \notin Settled' /\ distance[Start] = 0 /\ path = <<>>
    BY <1>1, <1>2, <1>3, <1>6 DEF SearchInv
  <2> QED
    BY <1>1, <1>3, <1>5, <1>6, <1>8, <1>10, <1>11, <1>12, <1>13, <2>1, <2>2 DEF SearchInv
<1>15. BackInv'
  BY <1>1, <1>2, <1>6 DEF BackInv, BackFrom, Precedes
<1> QED
  BY <1>1, <1>3, <1>9, <1>14, <1>15 DEF DijkstraInv, PathInv, NoPathInv

LEMMA RelaxKeeps ==
    ASSUME DijkstraAssumption, DijkstraInv, NEW edge \in relaxing, Relax(edge)
    PROVE  DijkstraInv'
<1> DEFINE x == edge[1]
           new == current.distance + edge[2]
<1>1. /\ relaxing' = relaxing \ {edge}
      /\ UNCHANGED <<weights, goal, phase, current, path>>
      /\ \/ /\ new < distance[x]
            /\ distance' = [distance EXCEPT ![x] = new]
            /\ predecessor' = [predecessor EXCEPT ![x] = current.node]
            /\ heap' = heap \cup {Entry(new, x)}
         \/ ~(new < distance[x]) /\ UNCHANGED <<distance, predecessor, heap>>
  BY DEF Relax
<1>2. DijkstraTypeOK /\ SearchInv /\ BackInv /\ phase = "search"
  BY DEF DijkstraInv
<1>3. /\ Start \in Vertices /\ goal \in Vertices /\ goal \notin Settled
      /\ distance[Start] = 0 /\ path = <<>>
      /\ relaxing \subseteq NeighborsOutgoing(current.node)
      /\ current.node \in Settled /\ current.distance = distance[current.node]
      /\ LeastWithin[Cardinality(Settled) - 1][current.node] =< current.distance
  BY <1>2 DEF SearchInv
<1>4. /\ Infinity \in Nat /\ \A n \in Vertices : distance[n] \in 0 .. Infinity
      /\ current.distance \in Nat /\ current.distance < Infinity /\ current.node \in Vertices
  BY <1>2, <1>3, HeapTypes
<1>5. PICK p \in Pairs : \E w \in weights[p] :
          p = <<current.node, x>> /\ w = edge[2] /\ edge = <<x, w>>
  BY <1>2, <1>3, EdgeOf
<1>6. /\ p = <<current.node, x>> /\ edge[2] \in weights[p] /\ edge[2] \in Nat
      /\ edge = <<x, edge[2]>> /\ x \in Vertices /\ new \in Nat
  <2>1. p[2] = x /\ p[2] \in Vertices
    BY <1>5, PairNodes
  <2> QED BY <1>2, <1>4, <1>5, <2>1, WeightNat
<1>7. /\ LeastWithin' = LeastWithin
      /\ \A n : NeighborsOutgoing(n)' = NeighborsOutgoing(n)
  BY <1>1 DEF LeastWithin, NoEdge, OneMore, NeighborsOutgoing
<1> HIDE DEF x, new
<1>8. CASE ~(new < distance[x])
  <2>1. UNCHANGED <<distance, predecessor, heap>>
    BY <1>1, <1>8
  <2>2. Settled' = Settled
    BY <2>1 DEF Settled
  <2>3. distance[x] =< distance[current.node] + edge[2]
    BY <1>3, <1>4, <1>6, <1>8 DEF new
  <2>4. \A m \in Settled : \A f \in NeighborsOutgoing(m) :
            \/ distance[f[1]] =< distance[m] + f[2]
            \/ m = current.node /\ f \in relaxing'
    BY <1>1, <1>2, <2>3 DEF SearchInv, x
  <2>5. SearchInv'
    BY <1>1, <1>2, <1>7, <2>1, <2>2, <2>4 DEF SearchInv
  <2>6. DijkstraTypeOK'
    BY <1>1, <1>2, <2>1 DEF DijkstraTypeOK
  <2>7. BackInv'
    BY <1>1, <1>2, <2>1, <2>2 DEF BackInv, BackFrom, Precedes
  <2> QED
    BY <1>1, <1>2, <2>5, <2>6, <2>7 DEF DijkstraInv, PathInv, NoPathInv
<1>9. CASE new < distance[x]
  <2>1. /\ distance' = [distance EXCEPT ![x] = new]
        /\ predecessor' = [predecessor EXCEPT ![x] = current.node]
        /\ heap' = heap \cup {Entry(new, x)}
    BY <1>1, <1>9
  <2>2. /\ distance'[x] = new /\ predecessor'[x] = current.node
        /\ \A n \in Vertices : n # x => distance'[n] = distance[n]
                                   /\ predecessor'[n] = predecessor[n]
        /\ \A n \in Vertices : distance'[n] =< distance[n]
        /\ current.distance =< new /\ new < Infinity
    BY <1>2, <1>4, <1>6, <1>9, <2>1 DEF DijkstraTypeOK, new
  <2>3. x \notin Settled
    BY <1>2, <1>4, <1>6, <1>9, <2>2 DEF SearchInv
  <2>4. Settled' = Settled
    <3>1. \A n \in Vertices : n # x => Entry(distance[n], n) # Entry(new, x)
      BY DEF Entry
    <3>2. \A n \in Vertices : n # x => (n \in Settled' <=> n \in Settled)
      BY <2>1, <2>2, <3>1 DEF Settled
    <3>3. x \notin Settled'
      BY <2>1, <2>2 DEF Settled
    <3> QED BY <2>3, <3>2, <3>3 DEF Settled
  <2>5. \A m \in Settled : m \in Vertices /\ m # x /\ distance'[m] = distance[m]
    BY <2>2, <2>3 DEF Settled
  <2>6. DijkstraTypeOK'
    <3>1. new \in 0 .. Infinity - 1
      BY <1>4, <1>6, <2>2
    <3>2. Entry(new, x) \in [distance : 0 .. Infinity - 1, node : Vertices \cup {Start}]
      BY <1>6, <3>1 DEF Entry
    <3>3. new \in 0 .. Infinity
      BY <1>4, <3>1
    <3> QED BY <1>1, <1>2, <1>4, <1>6, <2>1, <3>2, <3>3 DEF DijkstraTypeOK
  <2>7. \A m \in Settled : \A f \in NeighborsOutgoing(m) :
            \/ distance'[f[1]] =< distance'[m] + f[2]
            \/ m = current.node /\ f \in relaxing'
    <3> SUFFICES ASSUME NEW m \in Settled, NEW f \in NeighborsOutgoing(m),
                        ~(m = current.node /\ f \in relaxing')
                 PROVE  distance'[f[1]] =< distance'[m] + f[2]
      OBVIOUS
    <3>1. f[1] \in Vertices /\ f[2] \in Nat
      <4>1. PICK q \in Pairs : \E w \in weights[q] :
                q = <<m, f[1]>> /\ w = f[2] /\ f = <<f[1], w>>
        BY <1>2, EdgeOf
      <4>2. q[2] = f[1] /\ q[2] \in Vertices
        BY <4>1, PairNodes
      <4> QED BY <1>2, <4>1, <4>2, WeightNat
    <3>2. m \in Vertices /\ distance'[m] = distance[m] /\ distance[m] \in Nat
      BY <1>4, <2>5
    <3>3. distance'[f[1]] =< distance[f[1]] /\ distance'[f[1]] \in Nat /\ distance[f[1]] \in Nat
      BY <1>4, <1>6, <2>2, <3>1
    <3>4. CASE m = current.node /\ f = edge
      BY <1>3, <1>4, <1>6, <2>2, <3>2, <3>4 DEF x, new
    <3>5. CASE ~(m = current.node /\ f = edge)
      <4>1. distance[f[1]] =< distance[m] + f[2]
        BY <1>1, <1>2, <3>5 DEF SearchInv
      <4> QED BY <3>1, <3>2, <3>3, <4>1
    <3> QED BY <3>4, <3>5
  <2>8. \A n \in Vertices : LeastWithin[Cardinality(Settled)][n] =< distance'[n]
    <3>1. \A n \in Vertices : n # x => LeastWithin[Cardinality(Settled)][n] =< distance'[n]
      BY <1>2, <2>2 DEF SearchInv
    <3>2. LeastWithin[Cardinality(Settled)][x] =< new
      <4>1. Cardinality(Settled) \in 1 .. Most /\ Cardinality(Settled) - 1 \in 0 .. Most
        <5>1. IsFiniteSet(Settled) /\ Cardinality(Settled) \in 0 .. Most
          BY <1>3, SettledCount
        <5>2. Cardinality(Settled) # 0
          BY <1>3, <5>1, FS_EmptySet
        <5> QED BY <1>3, <5>1, <5>2, MostNat
      <4>2. /\ LeastWithin[Cardinality(Settled)] = OneMore(LeastWithin[Cardinality(Settled) - 1])
            /\ LeastWithin[Cardinality(Settled) - 1] \in Distances
            /\ LeastWithin[Cardinality(Settled)] \in Distances
        BY <1>2, <1>3, <4>1, WithinIs, WithinTypes
      <4>3. LeastWithin[Cardinality(Settled)][p[2]]
                =< LeastWithin[Cardinality(Settled) - 1][p[1]] + edge[2]
        BY <1>2, <1>6, <4>2, OneMoreFacts
      <4>4. p[1] = current.node /\ p[2] = x
        BY <1>6
      <4>5. /\ LeastWithin[Cardinality(Settled) - 1][current.node] \in Nat
            /\ LeastWithin[Cardinality(Settled)][x] \in Nat
        BY <1>4, <1>6, <4>2 DEF Distances
      <4> QED BY <1>3, <1>4, <1>6, <4>3, <4>4, <4>5 DEF new
    <3> QED BY <2>2, <3>1, <3>2
  <2>9. \A f \in heap' : distance'[f.node] =< f.distance /\ current.distance =< f.distance
    <3>1. \A f \in heap : /\ f.node \in Vertices /\ f.distance \in Nat
                          /\ distance[f.node] =< f.distance /\ current.distance =< f.distance
      BY <1>2, <1>3, HeapTypes DEF SearchInv
    <3>2. \A f \in heap : distance'[f.node] =< f.distance
      <4> SUFFICES ASSUME NEW f \in heap PROVE distance'[f.node] =< f.distance
        OBVIOUS
      <4>1. /\ distance'[f.node] =< distance[f.node] /\ distance[f.node] =< f.distance
            /\ distance[f.node] \in Nat /\ f.distance \in Nat
        BY <1>4, <2>2, <3>1
      <4>2. distance'[f.node] \in Nat
        BY <1>4, <1>6, <2>2, <3>1
      <4> QED BY <4>1, <4>2
    <3>3. distance'[Entry(new, x).node] =< Entry(new, x).distance
          /\ current.distance =< Entry(new, x).distance
      BY <1>6, <2>2 DEF Entry
    <3> QED BY <2>1, <3>1, <3>2, <3>3
  <2>10. distance'[Start] = 0
    BY <1>3, <1>6, <1>9, <2>2
  <2>11. current.distance = distance'[current.node]
    BY <1>3, <2>5
  <2>12. \A m \in Settled : distance'[m] =< current.distance
    BY <1>2, <2>5 DEF SearchInv
  <2>13. SearchInv'
    BY <1>1, <1>3, <1>7, <2>4, <2>7, <2>8, <2>9, <2>10, <2>11, <2>12 DEF SearchInv
  <2>14. BackInv'
    <3> SUFFICES ASSUME NEW n \in Vertices PROVE BackFrom(n)'
      BY DEF BackInv
    <3>1. CASE n = x
      <4>1. predecessor'[n] = current.node /\ current.node # Nobody
        BY <1>4, <2>2, <3>1 DEF Nobody, DijkstraAssumption
      <4>2. distance'[n] = distance'[current.node] + edge[2]
        BY <1>6, <2>2, <2>11, <3>1 DEF new
      <4>3. <<current.node, n>> \in Pairs /\ edge[2] \in weights'[<<current.node, n>>]
        BY <1>1, <1>6, <3>1
      <4> QED BY <1>3, <1>4, <2>4, <2>11, <4>1, <4>2, <4>3 DEF BackFrom, Precedes
    <3>2. CASE n # x
      <4>1. predecessor'[n] = predecessor[n] /\ distance'[n] = distance[n]
        BY <2>2, <3>2
      <4>2. predecessor[n] # Nobody =>
                /\ Precedes(predecessor[n], n) /\ predecessor[n] \in Settled
                /\ distance'[predecessor[n]] = distance[predecessor[n]]
                /\ distance[predecessor[n]] < Infinity
        BY <1>2, <2>5 DEF BackInv, BackFrom
      <4>3. distance[n] < Infinity /\ n # Start => predecessor[n] # Nobody
        BY <1>2 DEF BackInv, BackFrom
      <4> QED BY <1>1, <2>4, <4>1, <4>2, <4>3 DEF BackFrom, Precedes
    <3> QED BY <3>1, <3>2
  <2> QED
    BY <1>1, <1>2, <2>6, <2>13, <2>14 DEF DijkstraInv, PathInv, NoPathInv
<1> QED
  BY <1>8, <1>9

LEMMA ExhaustedKeeps ==
    ASSUME DijkstraAssumption, DijkstraInv, Exhausted
    PROVE  DijkstraInv'
<1>1. /\ phase = "search" /\ relaxing = {} /\ heap = {} /\ phase' = "none"
      /\ UNCHANGED <<weights, goal, distance, predecessor, heap, current, relaxing, path>>
  BY DEF Exhausted
<1>2. DijkstraTypeOK /\ SearchInv /\ BackInv
  BY DEF DijkstraInv
<1>3. Start \in Vertices /\ goal \in Vertices /\ goal \notin Settled
  BY <1>1, <1>2 DEF SearchInv
<1>4. distance[goal] = Infinity
  BY <1>1, <1>2, <1>3, HeapTypes DEF Settled
<1>5. distance[goal] = LeastWeight[goal]
  BY <1>1, <1>2, <1>3, NearIsFinal
<1>6. LeastWeight' = LeastWeight
  BY <1>1 DEF LeastWeight, LeastWithin, NoEdge, OneMore
<1>7. DijkstraTypeOK'
  BY <1>1, <1>2 DEF DijkstraTypeOK
<1>8. BackInv'
  BY <1>1, <1>2 DEF BackInv, BackFrom, Precedes
<1> QED
  BY <1>1, <1>4, <1>5, <1>6, <1>7, <1>8 DEF DijkstraInv, SearchInv, PathInv, NoPathInv

\* A path with one node more in front.
LEMMA Prepending ==
    ASSUME NEW s \in Seq(Vertices), NEW n \in Vertices,
           s # <<>> => Chain(s) /\ Precedes(n, Head(s))
    PROVE  LET t == <<n>> \o s
           IN  /\ t \in Seq(Vertices) /\ t # <<>> /\ Head(t) = n
               /\ t[Len(t)] = IF s = <<>> THEN n ELSE s[Len(s)]
               /\ Chain(t)
<1> DEFINE t == <<n>> \o s
<1>1. /\ t \in Seq(Vertices) /\ Len(t) = Len(s) + 1 /\ Len(s) \in Nat
      /\ t[1] = n /\ \A i \in 1 .. Len(s) : t[i + 1] = s[i]
      /\ s # <<>> <=> Len(s) > 0
      /\ s # <<>> => Head(s) = s[1]
  OBVIOUS
<1> HIDE DEF t
<1>2. t # <<>> /\ Head(t) = n /\ t[Len(t)] = IF s = <<>> THEN n ELSE s[Len(s)]
  BY <1>1
<1>3. Chain(t)
  <2> SUFFICES ASSUME NEW i \in 1 .. Len(t) - 1 PROVE Precedes(t[i], t[i + 1])
    BY DEF Chain
  <2>1. CASE i = 1
    BY <1>1, <2>1
  <2>2. CASE i # 1
    <3>1. /\ i - 1 \in 1 .. Len(s) - 1 /\ i - 1 \in 1 .. Len(s) /\ i \in 1 .. Len(s)
          /\ (i - 1) + 1 = i
      BY <1>1, <2>2
    <3>2. t[i] = s[i - 1] /\ t[i + 1] = s[(i - 1) + 1]
      BY <1>1, <3>1
    <3>3. s # <<>>
      BY <1>1, <3>1
    <3> QED BY <3>1, <3>2, <3>3 DEF Chain
  <2> QED BY <2>1, <2>2
<1> QED
  BY <1>1, <1>2, <1>3 DEF t

LEMMA WalkKeeps ==
    ASSUME DijkstraAssumption, DijkstraInv, Walk
    PROVE  DijkstraInv'
<1> DEFINE n == IF path = <<>> THEN goal ELSE predecessor[Head(path)]
<1>1. /\ phase = "walk" /\ path' = <<n>> \o path
      /\ phase' = IF n = Start \/ predecessor[n] = Nobody THEN "found" ELSE "walk"
      /\ UNCHANGED <<weights, goal, distance, predecessor, heap, current, relaxing>>
  BY DEF Walk
<1>2. DijkstraTypeOK /\ BackInv /\ PathInv
  BY DEF DijkstraInv
<1>3. /\ Start \in Vertices /\ goal \in Vertices /\ distance[goal] < Infinity
      /\ distance[goal] = LeastWeight[goal]
      /\ path # <<>> => /\ path[Len(path)] = goal /\ Chain(path)
                        /\ predecessor[Head(path)] # Nobody
  BY <1>1, <1>2 DEF PathInv
<1>4. /\ n \in Vertices /\ distance[n] < Infinity
      /\ path # <<>> => Precedes(n, Head(path))
  <2>1. CASE path = <<>>
    BY <1>3, <2>1
  <2>2. CASE path # <<>>
    <3>1. Head(path) \in Vertices
      BY <1>2, <2>2 DEF DijkstraTypeOK
    <3>2. predecessor[Head(path)] \in Vertices
      BY <1>2, <1>3, <2>2, <3>1 DEF DijkstraTypeOK
    <3> QED BY <1>2, <1>3, <2>2, <3>1, <3>2 DEF BackInv, BackFrom
  <2> QED BY <2>1, <2>2
<1> HIDE DEF n
<1>5. /\ path' \in Seq(Vertices) /\ path' # <<>> /\ Head(path') = n
      /\ path'[Len(path')] = goal /\ Chain(path')
  <2>1. path \in Seq(Vertices)
    BY <1>2 DEF DijkstraTypeOK
  <2>2. path = <<>> => n = goal
    BY DEF n
  <2> QED BY <1>1, <1>3, <1>4, <2>1, <2>2, Prepending
<1>6. predecessor[n] = Nobody => n = Start
  BY <1>2, <1>4 DEF BackInv, BackFrom
<1>7. Chain(path)'
  BY <1>1, <1>5 DEF Chain, Precedes
<1>8. LeastWeight' = LeastWeight
  BY <1>1 DEF LeastWeight, LeastWithin, NoEdge, OneMore
<1>9. DijkstraTypeOK'
  BY <1>1, <1>2, <1>5 DEF DijkstraTypeOK
<1>10. BackInv'
  BY <1>1, <1>2 DEF BackInv, BackFrom, Precedes
<1>11. PathInv'
  <2>1. phase' = "walk" => predecessor'[Head(path')] # Nobody
    BY <1>1, <1>5
  <2>2. phase' = "found" => Head(path') = Start
    BY <1>1, <1>5, <1>6
  <2> QED BY <1>1, <1>3, <1>4, <1>5, <1>7, <1>8, <2>1, <2>2 DEF PathInv
<1>12. relaxing' = {}
  BY <1>1 DEF DijkstraInv
<1> QED
  BY <1>1, <1>9, <1>10, <1>11, <1>12 DEF DijkstraInv, SearchInv, NoPathInv

LEMMA StutterKeeps ==
    ASSUME DijkstraInv, UNCHANGED dijkstraVars
    PROVE  DijkstraInv'
<1>1. /\ LeastWithin' = LeastWithin /\ LeastWeight' = LeastWeight /\ Settled' = Settled
      /\ \A n : NeighborsOutgoing(n)' = NeighborsOutgoing(n)
      /\ Chain(path)' = Chain(path)
  BY DEF dijkstraVars, LeastWeight, LeastWithin, NoEdge, OneMore, Settled, NeighborsOutgoing, Chain,
         Precedes
<1>2. DijkstraTypeOK' /\ SearchInv' /\ BackInv'
  BY <1>1 DEF dijkstraVars, DijkstraInv, DijkstraTypeOK, SearchInv, BackInv, BackFrom, Precedes
<1> QED
  BY <1>1, <1>2 DEF dijkstraVars, DijkstraInv, PathInv, NoPathInv

LEMMA DijkstraCorrect == ASSUME DijkstraAssumption PROVE DijkstraSpec => []DijkstraInv
<1>1. DijkstraInit => DijkstraInv
  BY InvInit
<1>2. DijkstraInv /\ [DijkstraNext]_dijkstraVars => DijkstraInv'
  BY PopGoalKeeps, PopStaleKeeps, SettleKeeps, RelaxKeeps, ExhaustedKeeps, WalkKeeps,
     StutterKeeps DEF DijkstraNext
<1> QED
  BY <1>1, <1>2, PTL DEF DijkstraSpec

-----------------------------------------------------------------------------
(* Its theorems, for every graph, start and goal.                           *)

\* Every variable keeps its type: no distance on the heap is infinite, and no
\* step back leaves the graph.
THEOREM DijkstraTypeCorrect == ASSUME DijkstraAssumption PROVE DijkstraSpec => []DijkstraTypeOK
<1>1. DijkstraInv => DijkstraTypeOK
  BY DEF DijkstraInv
<1> QED
  BY <1>1, DijkstraCorrect, PTL

\* A node that is nearer than every entry on the heap has its final distance,
\* whatever stale entries the heap still holds.
THEOREM NearerStaysFinal == ASSUME DijkstraAssumption PROVE DijkstraSpec => []NearerIsFinal
<1>1. ASSUME DijkstraAssumption, DijkstraInv PROVE NearerIsFinal
  <2> SUFFICES ASSUME phase = "search", relaxing = {}, NEW n \in Vertices,
                      \A e \in heap : distance[n] < e.distance
               PROVE  distance[n] = LeastWeight[n]
    BY DEF NearerIsFinal
  <2>1. DijkstraTypeOK /\ SearchInv /\ Start \in Vertices
    BY <1>1 DEF DijkstraInv, SearchInv
  <2>2. \A e \in heap : distance[n] =< e.distance
    BY <1>1, <2>1, HeapTypes
  <2> QED BY <1>1, <2>1, <2>2, NearIsFinal
<1> QED
  BY <1>1, DijkstraCorrect, PTL

\* find_shortest_path returns the least weight of all walks to the goal, and
\* None only if there is none.
THEOREM LeastWeightIsFound == ASSUME DijkstraAssumption PROVE DijkstraSpec => []FindsLeastWeight
<1>1. DijkstraInv /\ NearerIsFinal => FindsLeastWeight
  BY DEF DijkstraInv, PathInv, NoPathInv, FindsLeastWeight
<1> QED
  BY <1>1, DijkstraCorrect, NearerStaysFinal, PTL

\* What reconstruct_path returns leads from the start to the goal along edges,
\* whose weights add up to the weight that is reported.
THEOREM PathAddsUp == ASSUME DijkstraAssumption PROVE DijkstraSpec => []PathHasItsWeight
<1>1. DijkstraInv => PathHasItsWeight
  BY DEF DijkstraInv, PathInv, PathHasItsWeight, Chain, Precedes
<1> QED
  BY <1>1, DijkstraCorrect, PTL
=============================================================================
