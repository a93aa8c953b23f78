------------------------ MODULE QueryExecution_proofs ------------------------
(***************************************************************************)
(* The read path, for any labels, contents, filters and bounds: the        *)
(* indexes are exact, the plan of a query does not show in its answer, and *)
(* the counters add up.                                                    *)
(***************************************************************************)
EXTENDS QueryExecution, FiniteSetTheorems, WellFoundedInduction, TLAPS

-----------------------------------------------------------------------------
(* Numbers and sequences.                                                  *)

\* A set of numbers has a least one.
LEMMA LeastNumber ==
    ASSUME NEW S, S \subseteq Nat, S # {}
    PROVE  \E m \in S : \A n \in S : m =< n
<1>1. PICK R : IsWellFoundedOn(R, Nat) /\ \A m, n \in Nat : n < m => <<n, m>> \in R
  <2>1. \A m, n \in Nat : n < m => <<n, m>> \in OpToRel(<, Nat)
    BY DEF OpToRel
  <2> QED BY <2>1, NatLessThanWellFounded
<1>2. PICK m \in S : \A n \in S : <<n, m>> \notin R
  BY <1>1, WFMin
<1>3. ASSUME NEW n \in S PROVE m =< n
  <2>1. ~(n < m)
    BY <1>1, <1>2
  <2> QED BY <2>1
<1> QED
  BY <1>3

\* Induction on the numbers up to n, for a set of them.
LEMMA UpTo ==
    ASSUME NEW n \in Nat, NEW S, 0 \in S, \A i \in 1 .. n : i - 1 \in S => i \in S
    PROVE  \A i \in 0 .. n : i \in S
<1> DEFINE missed == {i \in 0 .. n : i \notin S}
<1>1. ASSUME missed # {} PROVE FALSE
  <2>0. missed \subseteq Nat
    OBVIOUS
  <2>1. PICK i \in missed : \A j \in missed : i =< j
    <3> HIDE DEF missed
    <3> QED BY <1>1, <2>0, LeastNumber
  <2>2. i \in 1 .. n
    BY <2>1
  <2>3. i - 1 \in 0 .. n /\ i - 1 \notin missed
    BY <2>1, <2>2
  <2> QED BY <2>1, <2>2, <2>3
<1> QED
  BY <1>1

Distinct(s) == \A i, j \in DOMAIN s : s[i] = s[j] => i = j

LEMMA SiftedAt ==
    ASSUME NEW s, Len(s) \in Nat, NEW set
    PROVE  /\ Sifted(s, set)[0] = <<>>
           /\ \A i \in 1 .. Len(s) :
                Sifted(s, set)[i] = IF s[i] \in set THEN Append(Sifted(s, set)[i - 1], s[i])
                                    ELSE Sifted(s, set)[i - 1]
<1> DEFINE Next1(v, i) == IF s[i] \in set THEN Append(v, s[i]) ELSE v
           Solves(f, n) == f = [i \in 0 .. n |-> IF i = 0 THEN <<>> ELSE Next1(f[i - 1], i)]
           good == {n \in 0 .. Len(s) : \E f : Solves(f, n)}
<1> HIDE DEF Next1
<1>1. 0 \in good
  <2> DEFINE f == [i \in 0 .. 0 |-> <<>>]
  <2>1. \A i \in 0 .. 0 : i = 0
    OBVIOUS
  <2>2. f = [i \in 0 .. 0 |-> IF i = 0 THEN <<>> ELSE Next1(f[i - 1], i)]
    BY <2>1, Zenon
  <2>3. Solves(f, 0)
    BY <2>2
  <2>4. 0 \in 0 .. Len(s)
    OBVIOUS
  <2> HIDE DEF Solves
  <2> QED BY <2>3, <2>4
<1>2. ASSUME NEW n \in 1 .. Len(s), n - 1 \in good PROVE n \in good
  <2>1. PICK f : Solves(f, n - 1)
    BY <1>2
  <2> DEFINE g == [i \in 0 .. n |-> IF i = n THEN Next1(f[n - 1], n) ELSE f[i]]
  <2>2. ASSUME NEW i \in 0 .. n PROVE g[i] = IF i = 0 THEN <<>> ELSE Next1(g[i - 1], i)
    BY <2>1
  <2>3. Solves(g, n)
    <3> HIDE DEF g
    <3>1. g = [i \in 0 .. n |-> g[i]]
      BY DEF g
    <3> QED BY <2>2, <3>1
  <2>4. n \in 0 .. Len(s)
    OBVIOUS
  <2> HIDE DEF Solves, g
  <2> QED BY <2>3, <2>4
<1>3. Len(s) \in good
  <2>1. Len(s) \in 0 .. Len(s)
    OBVIOUS
  <2> HIDE DEF good
  <2> QED BY <1>1, <1>2, <2>1, UpTo
<1> DEFINE F == Sifted(s, set)
<1>4. Solves(F, Len(s))
  <2>1. F = CHOOSE f : Solves(f, Len(s))
    BY DEF Sifted, Next1
  <2>2. PICK f : Solves(f, Len(s))
    BY <1>3
  <2> HIDE DEF F, Solves
  <2> QED BY <2>1, <2>2
<1> HIDE DEF F
<1>5. F[0] = <<>> /\ \A i \in 1 .. Len(s) : F[i] = Next1(F[i - 1], i)
  BY <1>4
<1> QED
  BY <1>5 DEF F, Next1

LEMMA Appending ==
    ASSUME NEW T, NEW s \in Seq(T), NEW x \in T
    PROVE  /\ Append(s, x) \in Seq(T)
           /\ ToSet(Append(s, x)) = ToSet(s) \cup {x}
           /\ Distinct(s) /\ x \notin ToSet(s) => Distinct(Append(s, x))
<1>1. /\ Append(s, x) \in Seq(T)
      /\ DOMAIN Append(s, x) = 1 .. Len(s) + 1 /\ DOMAIN s = 1 .. Len(s) /\ Len(s) \in Nat
      /\ \A i \in 1 .. Len(s) + 1 : Append(s, x)[i] = IF i = Len(s) + 1 THEN x ELSE s[i]
  OBVIOUS
<1>2. \A i : i \in 1 .. Len(s) + 1 <=> i \in 1 .. Len(s) \/ i = Len(s) + 1
  BY <1>1
<1>3. Len(s) + 1 \notin 1 .. Len(s)
  BY <1>1
<1>4. ToSet(Append(s, x)) = ToSet(s) \cup {x}
  BY <1>1, <1>2, <1>3 DEF ToSet
<1>5. Distinct(s) /\ x \notin ToSet(s) => Distinct(Append(s, x))
  BY <1>1, <1>2, <1>3 DEF ToSet, Distinct
<1> QED
  BY <1>1, <1>4, <1>5

LEMMA Concatenating ==
    ASSUME NEW T, NEW s \in Seq(T), NEW t \in Seq(T)
    PROVE  /\ s \o t \in Seq(T)
           /\ ToSet(s \o t) = ToSet(s) \cup ToSet(t)
           /\ Distinct(s) /\ Distinct(t) /\ ToSet(s) \cap ToSet(t) = {} => Distinct(s \o t)
<1>1. /\ s \o t \in Seq(T) /\ Len(s) \in Nat /\ Len(t) \in Nat
      /\ DOMAIN s = 1 .. Len(s) /\ DOMAIN t = 1 .. Len(t)
      /\ DOMAIN (s \o t) = 1 .. Len(s) + Len(t)
      /\ \A i \in 1 .. Len(s) + Len(t) :
            (s \o t)[i] = IF i =< Len(s) THEN s[i] ELSE t[i - Len(s)]
  OBVIOUS
<1>2. /\ \A i \in 1 .. Len(s) + Len(t) : i =< Len(s) => i \in 1 .. Len(s)
      /\ \A i \in 1 .. Len(s) + Len(t) : ~(i =< Len(s)) => i - Len(s) \in 1 .. Len(t)
      /\ \A i \in 1 .. Len(s) : i =< Len(s) /\ i \in 1 .. Len(s) + Len(t)
      /\ \A i \in 1 .. Len(t) : /\ ~(i + Len(s) =< Len(s)) /\ i + Len(s) \in 1 .. Len(s) + Len(t)
                                /\ (i + Len(s)) - Len(s) = i
      /\ \A i, j \in 1 .. Len(s) + Len(t) : i - Len(s) = j - Len(s) => i = j
  BY <1>1
<1>3. ToSet(s \o t) = ToSet(s) \cup ToSet(t)
  <2>1. ASSUME NEW x \in ToSet(s \o t) PROVE x \in ToSet(s) \cup ToSet(t)
    BY <1>1, <1>2 DEF ToSet
  <2>2. ASSUME NEW i \in 1 .. Len(s) PROVE s[i] \in ToSet(s \o t)
    BY <1>1, <1>2 DEF ToSet
  <2>3. ASSUME NEW i \in 1 .. Len(t) PROVE t[i] \in ToSet(s \o t)
    <3>1. (s \o t)[i + Len(s)] = t[i]
      BY <1>1, <1>2
    <3> QED BY <1>1, <1>2, <3>1 DEF ToSet
  <2> QED BY <1>1, <2>1, <2>2, <2>3 DEF ToSet
<1>4. ASSUME Distinct(s), Distinct(t), ToSet(s) \cap ToSet(t) = {} PROVE Distinct(s \o t)
  <2> SUFFICES ASSUME NEW i \in 1 .. Len(s) + Len(t), NEW j \in 1 .. Len(s) + Len(t),
                      (s \o t)[i] = (s \o t)[j]
               PROVE  i = j
    BY <1>1 DEF Distinct
  <2>1. CASE i =< Len(s) /\ j =< Len(s)
    BY <1>1, <1>2, <1>4, <2>1 DEF Distinct
  <2>2. CASE ~(i =< Len(s)) /\ ~(j =< Len(s))
    <3>1. t[i - Len(s)] = t[j - Len(s)] /\ i - Len(s) \in 1 .. Len(t) /\ j - Len(s) \in 1 .. Len(t)
      BY <1>1, <1>2, <2>2
    <3> QED BY <1>1, <1>2, <1>4, <3>1 DEF Distinct
  <2>3. \A k, l \in 1 .. Len(s) + Len(t) :
            k =< Len(s) /\ ~(l =< Len(s)) => (s \o t)[k] # (s \o t)[l]
    <3> SUFFICES ASSUME NEW k \in 1 .. Len(s) + Len(t), NEW l \in 1 .. Len(s) + Len(t),
                        k =< Len(s), ~(l =< Len(s))
                 PROVE  (s \o t)[k] # (s \o t)[l]
      OBVIOUS
    <3>1. /\ k \in 1 .. Len(s) /\ (s \o t)[k] = s[k]
          /\ l - Len(s) \in 1 .. Len(t) /\ (s \o t)[l] = t[l - Len(s)]
      BY <1>1, <1>2
    <3>2. (s \o t)[k] \in ToSet(s) /\ (s \o t)[l] \in ToSet(t)
      BY <1>1, <3>1 DEF ToSet
    <3> QED BY <1>4, <3>2
  <2> QED BY <2>1, <2>2, <2>3
<1> QED
  BY <1>1, <1>3, <1>4

\* Among keeps what is in the set, and nothing twice.
LEMMA AmongIs ==
    ASSUME NEW T, NEW s \in Seq(T), NEW set
    PROVE  /\ Among(s, set) \in Seq(T)
           /\ ToSet(Among(s, set)) = ToSet(s) \cap set
           /\ Distinct(s) => Distinct(Among(s, set))
<1> DEFINE K == Sifted(s, set)
           first(i) == {s[j] : j \in 1 .. i}
           good == {i \in 0 .. Len(s) : /\ K[i] \in Seq(T) /\ ToSet(K[i]) = first(i) \cap set
                                        /\ Distinct(s) => Distinct(K[i])}
<1>1. /\ Len(s) \in Nat /\ DOMAIN s = 1 .. Len(s) /\ \A i \in 1 .. Len(s) : s[i] \in T
  OBVIOUS
<1>2. /\ K[0] = <<>>
      /\ \A i \in 1 .. Len(s) : K[i] = IF s[i] \in set THEN Append(K[i - 1], s[i]) ELSE K[i - 1]
  BY <1>1, SiftedAt
<1> HIDE DEF K
<1>3. 0 \in good
  <2>1. <<>> \in Seq(T) /\ DOMAIN <<>> = {}
    OBVIOUS
  <2>2. ToSet(<<>>) = {} /\ Distinct(<<>>)
    BY <2>1, Zenon DEF ToSet, Distinct
  <2>3. first(0) = {} /\ 0 \in 0 .. Len(s)
    BY <1>1
  <2> QED BY <1>2, <2>1, <2>2, <2>3
<1>4. ASSUME NEW i \in 1 .. Len(s), i - 1 \in good PROVE i \in good
  <2>1. /\ K[i - 1] \in Seq(T) /\ ToSet(K[i - 1]) = first(i - 1) \cap set
        /\ Distinct(s) => Distinct(K[i - 1])
    BY <1>4
  <2>2. first(i) = first(i - 1) \cup {s[i]} /\ i \in 0 .. Len(s)
    <3>1. \A j : j \in 1 .. i <=> j \in 1 .. i - 1 \/ j = i
      BY <1>1
    <3> QED BY <1>1, <3>1
  <2>3. Distinct(s) => s[i] \notin first(i - 1)
    <3>1. \A j \in 1 .. i - 1 : j \in 1 .. Len(s) /\ j # i
      BY <1>1
    <3> QED BY <1>1, <3>1 DEF Distinct
  <2> HIDE DEF first
  <2>4. CASE s[i] \in set
    <3>1. K[i] = Append(K[i - 1], s[i]) /\ s[i] \in T
      BY <1>1, <1>2, <2>4
    <3>2. /\ K[i] \in Seq(T) /\ ToSet(K[i]) = ToSet(K[i - 1]) \cup {s[i]}
          /\ Distinct(K[i - 1]) /\ s[i] \notin ToSet(K[i - 1]) => Distinct(K[i])
      BY <2>1, <3>1, Appending
    <3>3. ToSet(K[i]) = first(i) \cap set
      BY <2>1, <2>2, <2>4, <3>2
    <3>4. Distinct(s) => Distinct(K[i])
      BY <2>1, <2>3, <3>2
    <3> QED BY <2>2, <3>2, <3>3, <3>4
  <2>5. CASE s[i] \notin set
    <3>1. K[i] = K[i - 1]
      BY <1>2, <2>5
    <3>2. first(i) \cap set = first(i - 1) \cap set
      BY <2>2, <2>5
    <3> QED BY <2>1, <2>2, <3>1, <3>2
  <2> QED BY <2>4, <2>5
<1>5. Len(s) \in good
  <2>1. Len(s) \in 0 .. Len(s)
    BY <1>1
  <2> HIDE DEF good
  <2> QED BY <1>1, <1>3, <1>4, <2>1, UpTo
<1>6. first(Len(s)) = ToSet(s)
  BY <1>1 DEF ToSet
<1>7. Among(s, set) = K[Len(s)]
  BY DEF Among, K
<1> HIDE DEF first
<1> QED
  BY <1>5, <1>6, <1>7

\* A sequence without repetition is as long as the set of its elements is large.
LEMMA Counting ==
    ASSUME NEW T, NEW s \in Seq(T), Distinct(s)
    PROVE  IsFiniteSet(ToSet(s)) /\ Cardinality(ToSet(s)) = Len(s)
<1>1. Len(s) \in Nat /\ DOMAIN s = 1 .. Len(s) /\ s \in [1 .. Len(s) -> ToSet(s)]
  BY DEF ToSet
<1>2. IsFiniteSet(1 .. Len(s)) /\ Cardinality(1 .. Len(s)) = Len(s)
  BY <1>1, FS_Interval
<1>3. s \in Bijection(1 .. Len(s), ToSet(s))
  BY <1>1 DEF Distinct, ToSet, Bijection, Injection, Surjection, IsInjective
<1>4. ExistsBijection(1 .. Len(s), ToSet(s))
  BY <1>3 DEF ExistsBijection
<1> QED
  BY <1>2, <1>4, FS_Bijection

\* The sequences of the elements of a finite set.
LEMMA EnumerationIs ==
    ASSUME NEW S, IsFiniteSet(S), NEW s \in [1 .. Cardinality(S) -> S], Distinct(s)
    PROVE  s \in Seq(S) /\ ToSet(s) = S /\ Len(s) = Cardinality(S)
<1>1. Cardinality(S) \in Nat
  BY FS_CardinalityType
<1>2. s \in Seq(S) /\ Len(s) = Cardinality(S) /\ DOMAIN s = 1 .. Cardinality(S)
  BY <1>1
<1>3. Cardinality(ToSet(s)) = Cardinality(S) /\ ToSet(s) \subseteq S
  BY <1>2, Counting DEF ToSet
<1> QED
  BY <1>2, <1>3, FS_Subset

LEMMA SetToSeqIs ==
    ASSUME NEW S, IsFiniteSet(S)
    PROVE  SetToSeq(S) \in Seq(S) /\ ToSet(SetToSeq(S)) = S /\ Distinct(SetToSeq(S))
<1>1. PICK f : f \in Bijection(1 .. Cardinality(S), S)
  BY FS_CardinalityType DEF ExistsBijection
<1>2. f \in [1 .. Cardinality(S) -> S] /\ IsInjective(f)
  BY <1>1 DEF Bijection, Injection, IsInjective
<1>3. SetToSeq(S) \in [1 .. Cardinality(S) -> S] /\ IsInjective(SetToSeq(S))
  BY <1>2 DEF SetToSeq
<1>4. Distinct(SetToSeq(S))
  BY <1>3 DEF Distinct, IsInjective
<1> QED
  BY <1>3, <1>4, EnumerationIs

LEMMA SetToSeqsAre ==
    ASSUME NEW S, IsFiniteSet(S), NEW s \in SetToSeqs(S)
    PROVE  s \in Seq(S) /\ ToSet(s) = S /\ Distinct(s)
<1>1. s \in [1 .. Cardinality(S) -> S] /\ Distinct(s)
  BY DEF SetToSeqs, Distinct
<1> QED
  BY <1>1, EnumerationIs

-----------------------------------------------------------------------------
(* The order of keys, and the buckets listed in it.                        *)

LEMMA Highest ==
    ASSUME NEW K, IsFiniteSet(K), K # {}, \A k \in K : Rank(k) \in Int
    PROVE  \E m \in K : \A k \in K : Rank(k) =< Rank(m)
<1> DEFINE above(m) == {k \in K : Rank(k) > Rank(m)}
           sizes == {Cardinality(above(m)) : m \in K}
<1>1. \A m \in K : IsFiniteSet(above(m)) /\ Cardinality(above(m)) \in Nat
  <2> SUFFICES ASSUME NEW m \in K PROVE IsFiniteSet(above(m)) /\ Cardinality(above(m)) \in Nat
    OBVIOUS
  <2>1. above(m) \in SUBSET K
    OBVIOUS
  <2> HIDE DEF above
  <2> QED BY <2>1, FS_Subset, FS_CardinalityType
<1>2. PICK m \in K : \A k \in K : Cardinality(above(m)) =< Cardinality(above(k))
  <2>1. sizes \subseteq Nat /\ sizes # {}
    BY <1>1
  <2>2. PICK n \in sizes : \A o \in sizes : n =< o
    <3> HIDE DEF sizes
    <3> QED BY <2>1, LeastNumber
  <2> HIDE DEF above
  <2> QED BY <2>2
<1>3. ASSUME NEW k \in K, ~(Rank(k) =< Rank(m)) PROVE FALSE
  <2>1. k \in above(m) /\ k \notin above(k) /\ above(k) \in SUBSET above(m)
    BY <1>3
  <2> HIDE DEF above
  <2>2. above(k) # above(m)
    BY <2>1
  <2>3. /\ Cardinality(above(k)) =< Cardinality(above(m))
        /\ Cardinality(above(m)) = Cardinality(above(k)) => above(m) = above(k)
    BY <1>1, <2>1, FS_Subset
  <2> QED BY <1>1, <1>2, <2>2, <2>3
<1> QED
  BY <1>3

Sorted(order) == \A i, j \in DOMAIN order : i < j => Rank(order[i]) =< Rank(order[j])

LEMMA AscendingIs ==
    ASSUME NEW K, IsFiniteSet(K), \A k \in K : Rank(k) \in Int
    PROVE  Ascending(K) \in Seq(K) /\ ToSet(Ascending(K)) = K /\ Distinct(Ascending(K))
<1> DEFINE has(J) == \E s \in SetToSeqs(J) : Sorted(s)
           good == {n \in 0 .. Cardinality(K) : \A J \in SUBSET K : Cardinality(J) = n => has(J)}
<1>1. Cardinality(K) \in Nat /\ \A J \in SUBSET K : IsFiniteSet(J)
  BY FS_CardinalityType, FS_Subset
<1>2. 0 \in good
  <2>1. ASSUME NEW J \in SUBSET K, Cardinality(J) = 0 PROVE has(J)
    <3>1. J = {}
      BY <1>1, <2>1, FS_EmptySet
    <3>2. <<>> \in [1 .. Cardinality({}) -> {}]
      BY FS_EmptySet
    <3>3. <<>> \in SetToSeqs({}) /\ Sorted(<<>>)
      BY <3>2, FS_EmptySet DEF SetToSeqs, Sorted
    <3> QED BY <3>1, <3>3
  <2> QED BY <1>1, <2>1
<1>3. ASSUME NEW n \in 1 .. Cardinality(K), n - 1 \in good PROVE n \in good
  <2>1. ASSUME NEW J \in SUBSET K, Cardinality(J) = n PROVE has(J)
    <3>1. J # {} /\ IsFiniteSet(J) /\ \A k \in J : Rank(k) \in Int
      BY <1>1, <2>1, FS_EmptySet
    <3>2. PICK m \in J : \A k \in J : Rank(k) =< Rank(m)
      BY <3>1, Highest
    <3> DEFINE R == J \ {m}
    <3>3. IsFiniteSet(R) /\ Cardinality(R) = n - 1 /\ R \in SUBSET K
      BY <2>1, <3>1, FS_RemoveElement
    <3>4. PICK s \in SetToSeqs(R) : Sorted(s)
      BY <1>3, <3>3
    <3>5. s \in Seq(R) /\ ToSet(s) = R /\ Distinct(s) /\ Len(s) = n - 1
      BY <3>3, <3>4, SetToSeqsAre, Counting
    <3>6. s \in Seq(J)
      BY <3>5
    <3> DEFINE t == Append(s, m)
    <3>7. t \in Seq(J) /\ Distinct(t)
      BY <3>5, <3>6, Appending
    <3>8. Len(t) = n /\ DOMAIN t = 1 .. n /\ DOMAIN s = 1 .. n - 1
          /\ \A i \in 1 .. n : t[i] = IF i = n THEN m ELSE s[i]
      BY <3>5, <3>6
    <3> HIDE DEF t
    <3>9. t \in SetToSeqs(J)
      BY <2>1, <3>7, <3>8 DEF SetToSeqs, Distinct
    <3>10. Sorted(t)
      <4> SUFFICES ASSUME NEW i \in 1 .. n, NEW j \in 1 .. n, i < j
                   PROVE  Rank(t[i]) =< Rank(t[j])
        BY <3>8 DEF Sorted
      <4>1. i \in 1 .. n - 1 /\ i # n
        OBVIOUS
      <4>2. t[i] = s[i] /\ s[i] \in J
        BY <3>6, <3>8, <4>1
      <4>3. CASE j = n
        BY <3>2, <3>8, <4>2, <4>3
      <4>4. CASE j # n
        <5>1. j \in 1 .. n - 1
          BY <4>4
        <5>2. t[j] = s[j]
          BY <3>8, <4>4
        <5> QED BY <3>4, <3>8, <4>1, <4>2, <5>1, <5>2 DEF Sorted
      <4> QED BY <4>3, <4>4
    <3> QED BY <3>9, <3>10
  <2>2. n \in 0 .. Cardinality(K)
    BY <1>1
  <2> HIDE DEF has
  <2> QED BY <2>1, <2>2
<1>4. has(K)
  <2>1. Cardinality(K) \in 0 .. Cardinality(K) /\ K \in SUBSET K
    BY <1>1
  <2>2. Cardinality(K) \in good
    <3> HIDE DEF good
    <3> QED BY <1>1, <1>2, <1>3, <2>1, UpTo
  <2> HIDE DEF has
  <2> QED BY <2>1, <2>2
<1>5. Ascending(K) \in SetToSeqs(K)
  BY <1>4 DEF Ascending, Sorted
<1> QED
  BY <1>5, SetToSeqsAre

Joined(ids, map, key) == ids \o map[key]

LEMMA ListedAt ==
    ASSUME NEW map, NEW keys, Len(keys) \in Nat
    PROVE  /\ Listed(map, keys)[0] = <<>>
           /\ \A i \in 1 .. Len(keys) :
                Listed(map, keys)[i] = Joined(Listed(map, keys)[i - 1], map, keys[i])
<1> DEFINE Next1(v, i) == Joined(v, map, keys[i])
           Solves(f, n) == f = [i \in 0 .. n |-> IF i = 0 THEN <<>> ELSE Next1(f[i - 1], i)]
           good == {n \in 0 .. Len(keys) : \E f : Solves(f, n)}
<1> HIDE DEF Next1
<1>1. 0 \in good
  <2> DEFINE f == [i \in 0 .. 0 |-> <<>>]
  <2>1. \A i \in 0 .. 0 : i = 0
    OBVIOUS
  <2>2. f = [i \in 0 .. 0 |-> IF i = 0 THEN <<>> ELSE Next1(f[i - 1], i)]
    BY <2>1, Zenon
  <2>3. Solves(f, 0)
    BY <2>2
  <2>4. 0 \in 0 .. Len(keys)
    OBVIOUS
  <2> HIDE DEF Solves
  <2> QED BY <2>3, <2>4
<1>2. ASSUME NEW n \in 1 .. Len(keys), n - 1 \in good PROVE n \in good
  <2>1. PICK f : Solves(f, n - 1)
    BY <1>2
  <2> DEFINE g == [i \in 0 .. n |-> IF i = n THEN Next1(f[n - 1], n) ELSE f[i]]
  <2>2. ASSUME NEW i \in 0 .. n PROVE g[i] = IF i = 0 THEN <<>> ELSE Next1(g[i - 1], i)
    BY <2>1
  <2>3. Solves(g, n)
    <3> HIDE DEF g
    <3>1. g = [i \in 0 .. n |-> g[i]]
      BY DEF g
    <3> QED BY <2>2, <3>1
  <2>4. n \in 0 .. Len(keys)
    OBVIOUS
  <2> HIDE DEF Solves, g
  <2> QED BY <2>3, <2>4
<1>3. Len(keys) \in good
  <2>1. Len(keys) \in 0 .. Len(keys)
    OBVIOUS
  <2> HIDE DEF good
  <2> QED BY <1>1, <1>2, <2>1, UpTo
<1> DEFINE F == Listed(map, keys)
<1>4. Solves(F, Len(keys))
  <2>1. F = CHOOSE f : Solves(f, Len(keys))
    BY DEF Listed, Next1, Joined
  <2>2. PICK f : Solves(f, Len(keys))
    BY <1>3
  <2> HIDE DEF F, Solves
  <2> QED BY <2>1, <2>2
<1> HIDE DEF F
<1>5. F[0] = <<>> /\ \A i \in 1 .. Len(keys) : F[i] = Next1(F[i - 1], i)
  BY <1>4
<1> QED
  BY <1>5 DEF F, Next1

\* All that is in the buckets, and nothing twice if they are disjoint.
InBuckets(map, K) == UNION {ToSet(map[k]) : k \in K}

Apart(map, K) ==
    /\ \A k \in K : map[k] \in Seq(Nat) /\ Distinct(map[k])
    /\ \A k, l \in K : k # l => ToSet(map[k]) \cap ToSet(map[l]) = {}

LEMMA ListedIs ==
    ASSUME NEW map, NEW K, NEW keys \in Seq(K), Distinct(keys), Apart(map, K)
    PROVE  /\ Listed(map, keys)[Len(keys)] \in Seq(Nat)
           /\ ToSet(Listed(map, keys)[Len(keys)]) = InBuckets(map, ToSet(keys))
           /\ Distinct(Listed(map, keys)[Len(keys)])
<1> DEFINE F == Listed(map, keys)
           first(i) == UNION {ToSet(map[keys[j]]) : j \in 1 .. i}
           good == {i \in 0 .. Len(keys) : /\ F[i] \in Seq(Nat) /\ ToSet(F[i]) = first(i)
                                           /\ Distinct(F[i])}
<1>1. /\ Len(keys) \in Nat /\ DOMAIN keys = 1 .. Len(keys)
      /\ \A i \in 1 .. Len(keys) : keys[i] \in K
  OBVIOUS
<1>2. F[0] = <<>> /\ \A i \in 1 .. Len(keys) : F[i] = Joined(F[i - 1], map, keys[i])
  <2>1. Len(keys) \in Nat
    BY <1>1
  <2> QED BY <2>1, ListedAt
<1> HIDE DEF F
<1>3. 0 \in good
  <2>1. <<>> \in Seq(Nat) /\ DOMAIN <<>> = {}
    OBVIOUS
  <2>2. ToSet(<<>>) = {} /\ Distinct(<<>>)
    BY <2>1, Zenon DEF ToSet, Distinct
  <2>3. first(0) = {} /\ 0 \in 0 .. Len(keys)
    BY <1>1
  <2> QED BY <1>2, <2>1, <2>2, <2>3
<1>4. ASSUME NEW i \in 1 .. Len(keys), i - 1 \in good PROVE i \in good
  <2>1. /\ F[i - 1] \in Seq(Nat) /\ ToSet(F[i - 1]) = first(i - 1)
        /\ Distinct(F[i - 1])
    BY <1>4
  <2>2. first(i) = first(i - 1) \cup ToSet(map[keys[i]]) /\ i \in 0 .. Len(keys)
    <3>1. \A j : j \in 1 .. i <=> j \in 1 .. i - 1 \/ j = i
      BY <1>1
    <3> QED BY <1>1, <3>1
  <2>3. first(i - 1) \cap ToSet(map[keys[i]]) = {}
    <3>1. \A j \in 1 .. i - 1 : j \in 1 .. Len(keys) /\ j # i
      BY <1>1
    <3>2. \A j \in 1 .. i - 1 : keys[j] # keys[i] /\ keys[j] \in K /\ keys[i] \in K
      BY <1>1, <3>1 DEF Distinct
    <3>3. \A j \in 1 .. i - 1 : ToSet(map[keys[j]]) \cap ToSet(map[keys[i]]) = {}
      BY <3>2 DEF Apart
    <3> QED BY <3>3
  <2>4. map[keys[i]] \in Seq(Nat) /\ Distinct(map[keys[i]])
    BY <1>1 DEF Apart
  <2> HIDE DEF first
  <2>5. /\ F[i] \in Seq(Nat) /\ ToSet(F[i]) = ToSet(F[i - 1]) \cup ToSet(map[keys[i]])
        /\ Distinct(F[i - 1]) /\ Distinct(map[keys[i]])
           /\ ToSet(F[i - 1]) \cap ToSet(map[keys[i]]) = {} => Distinct(F[i])
    <3>1. F[i] = F[i - 1] \o map[keys[i]]
      BY <1>2 DEF Joined
    <3> DEFINE s == F[i - 1]
               t == map[keys[i]]
    <3>2. s \in Seq(Nat) /\ t \in Seq(Nat)
      BY <2>1, <2>4
    <3> HIDE DEF s, t
    <3>3. /\ s \o t \in Seq(Nat)
          /\ ToSet(s \o t) = ToSet(s) \cup ToSet(t)
          /\ Distinct(s) /\ Distinct(t) /\ ToSet(s) \cap ToSet(t) = {} => Distinct(s \o t)
      BY <3>2, Concatenating
    <3> QED BY <3>1, <3>3 DEF s, t
  <2> QED BY <2>1, <2>2, <2>3, <2>4, <2>5
<1>5. Len(keys) \in good
  <2>1. Len(keys) \in 0 .. Len(keys)
    BY <1>1
  <2> HIDE DEF good
  <2> QED BY <1>1, <1>3, <1>4, <2>1, UpTo
<1>6. first(Len(keys)) = InBuckets(map, ToSet(keys))
  <2>1. ToSet(keys) = {keys[i] : i \in 1 .. Len(keys)}
    BY <1>1 DEF ToSet
  <2>2. \A x : x \in first(Len(keys)) <=> \E k \in ToSet(keys) : x \in ToSet(map[k])
    BY <2>1
  <2> HIDE DEF first
  <2> QED BY <2>2 DEF InBuckets
<1> HIDE DEF first
<1> QED
  BY <1>5, <1>6 DEF F

-----------------------------------------------------------------------------
(* The indexes.  Both are maps from a key, a label or a value, to the ids  *)
(* of the nodes that own it.                                               *)

NoBuckets == [k \in {} |-> <<>>]

Buckets(map, owner) ==
    /\ DOMAIN map = {owner[id] : id \in DOMAIN owner}
    /\ \A k \in DOMAIN map : /\ map[k] \in Seq(Nat) /\ Distinct(map[k])
                             /\ ToSet(map[k]) = {id \in DOMAIN owner : owner[id] = k}

LEMMA EmptyBuckets ==
    ASSUME NEW owner, DOMAIN owner = {}
    PROVE  Buckets(NoBuckets, owner)
BY DEF Buckets, NoBuckets

LEMMA BucketsInsert ==
    ASSUME NEW map, NEW owner, Buckets(map, owner), NEW id \in Nat, id \notin DOMAIN owner, NEW key
    PROVE  Buckets(bucket_insert(map, key, id), With1(owner, id, key))
<1> DEFINE new == bucket_insert(map, key, id)
           owns == With1(owner, id, key)
           of(k) == {x \in DOMAIN owner : owner[x] = k}
<1>1. /\ DOMAIN new = DOMAIN map \cup {key}
      /\ \A k \in DOMAIN map : k # key => new[k] = map[k]
      /\ key \in DOMAIN map => new[key] = Append(map[key], id)
      /\ key \notin DOMAIN map => new[key] = <<id>>
  BY DEF bucket_insert
<1>2. /\ DOMAIN owns = DOMAIN owner \cup {id} /\ owns[id] = key
      /\ \A x \in DOMAIN owner : owns[x] = owner[x]
  BY DEF With1
<1>3. DOMAIN map = {owner[x] : x \in DOMAIN owner}
  BY DEF Buckets
<1> HIDE DEF new, owns
<1>4. DOMAIN new = {owns[x] : x \in DOMAIN owns}
  <2>1. ASSUME NEW k \in DOMAIN new PROVE \E x \in DOMAIN owns : k = owns[x]
    BY <1>1, <1>2, <1>3
  <2>2. ASSUME NEW x \in DOMAIN owns PROVE owns[x] \in DOMAIN new
    BY <1>1, <1>2, <1>3
  <2> QED BY <2>1, <2>2
<1>5. ASSUME NEW k \in DOMAIN new
      PROVE  /\ new[k] \in Seq(Nat) /\ Distinct(new[k])
             /\ ToSet(new[k]) = {x \in DOMAIN owns : owns[x] = k}
  <2>1. CASE k # key
    <3>1. /\ new[k] = map[k] /\ map[k] \in Seq(Nat) /\ Distinct(map[k]) /\ ToSet(map[k]) = of(k)
      BY <1>1, <2>1 DEF Buckets
    <3>2. of(k) = {x \in DOMAIN owns : owns[x] = k}
      BY <1>2, <2>1
    <3> QED BY <3>1, <3>2
  <2>2. {x \in DOMAIN owns : owns[x] = key} = of(key) \cup {id}
    BY <1>2
  <2>3. CASE k = key /\ key \in DOMAIN map
    <3>1. map[key] \in Seq(Nat) /\ Distinct(map[key]) /\ ToSet(map[key]) = of(key)
      BY <2>3 DEF Buckets
    <3>2. id \notin of(key)
      OBVIOUS
    <3>3. /\ Append(map[key], id) \in Seq(Nat) /\ Distinct(Append(map[key], id))
          /\ ToSet(Append(map[key], id)) = of(key) \cup {id}
      <4> HIDE DEF of
      <4> QED BY <3>1, <3>2, Appending
    <3> QED BY <1>1, <2>2, <2>3, <3>3
  <2>4. CASE k = key /\ key \notin DOMAIN map
    <3>1. of(key) = {}
      BY <1>3, <2>4
    <3>2. <<id>> \in Seq(Nat) /\ DOMAIN <<id>> = {1} /\ <<id>>[1] = id
      OBVIOUS
    <3>3. Distinct(<<id>>) /\ ToSet(<<id>>) = {id}
      <4> DEFINE one == <<id>>
      <4>1. DOMAIN one = {1} /\ one[1] = id
        BY <3>2
      <4> HIDE DEF one
      <4>2. Distinct(one) /\ ToSet(one) = {id}
        BY <4>1 DEF Distinct, ToSet
      <4> QED BY <4>2 DEF one
    <3> QED BY <1>1, <2>2, <2>4, <3>1, <3>2, <3>3
  <2> QED BY <2>1, <2>3, <2>4
<1> QED
  BY <1>4, <1>5 DEF Buckets, new, owns

LEMMA BucketsRemove ==
    ASSUME NEW map, NEW owner, Buckets(map, owner), NEW id \in DOMAIN owner
    PROVE  Buckets(bucket_remove(map, owner[id], id), Without1(owner, id))
<1> DEFINE key == owner[id]
           rest == Without(map[key], id)
           new == bucket_remove(map, key, id)
           owns == Without1(owner, id)
           of(k) == {x \in DOMAIN owner : owner[x] = k}
<1>1. /\ DOMAIN map = {owner[x] : x \in DOMAIN owner} /\ key \in DOMAIN map
      /\ \A k \in DOMAIN map : /\ map[k] \in Seq(Nat) /\ Distinct(map[k]) /\ ToSet(map[k]) = of(k)
  BY DEF Buckets
<1>2. rest \in Seq(Nat) /\ Distinct(rest) /\ ToSet(rest) = of(key) \ {id}
  <2> DEFINE s == map[key]
             others == ToSet(s) \ {id}
  <2>1. s \in Seq(Nat) /\ Distinct(s) /\ ToSet(s) = of(key)
    BY <1>1
  <2>2. rest = Among(s, others)
    BY DEF Without
  <2> HIDE DEF s, rest, others
  <2>3. rest \in Seq(Nat) /\ Distinct(rest) /\ ToSet(rest) = ToSet(s) \cap others
    BY <2>1, <2>2, AmongIs
  <2> QED BY <2>1, <2>3 DEF others
<1>3. \A k \in DOMAIN map : map[k] # <<>>
  <2> SUFFICES ASSUME NEW k \in DOMAIN map, map[k] = <<>> PROVE FALSE
    OBVIOUS
  <2>1. of(k) # {} /\ ToSet(<<>>) = of(k)
    BY <1>1
  <2>2. DOMAIN <<>> = {}
    OBVIOUS
  <2>3. ToSet(<<>>) = {}
    BY <2>2, Zenon DEF ToSet
  <2> QED BY <2>1, <2>3
<1>4. rest = <<>> <=> of(key) = {id}
  <2>1. rest = <<>> <=> ToSet(rest) = {}
    <3> HIDE DEF rest
    <3>1. rest = <<>> <=> Len(rest) = 0
      BY <1>2
    <3>2. Len(rest) \in Nat /\ DOMAIN rest = 1 .. Len(rest)
      BY <1>2
    <3>3. Len(rest) = 0 <=> 1 \notin 1 .. Len(rest)
      BY <3>2
    <3>4. \A i \in 1 .. Len(rest) : 1 \in 1 .. Len(rest)
      BY <3>2
    <3> QED BY <3>1, <3>2, <3>3, <3>4 DEF ToSet
  <2>2. id \in of(key)
    OBVIOUS
  <2> HIDE DEF rest, of
  <2> QED BY <1>2, <2>1, <2>2
<1>5. /\ DOMAIN new = {k \in DOMAIN map : k = key => rest # <<>>}
      /\ \A k \in DOMAIN new : new[k] = IF k = key THEN rest ELSE map[k]
  <2> DEFINE left == [k \in DOMAIN map |-> IF k = key THEN rest ELSE map[k]]
  <2>1. new = [k \in {k \in DOMAIN left : left[k] # <<>>} |-> left[k]]
    BY DEF bucket_remove
  <2>2. DOMAIN left = DOMAIN map /\ \A k \in DOMAIN map : left[k] = IF k = key THEN rest ELSE map[k]
    OBVIOUS
  <2> HIDE DEF left, new, rest, key
  <2> QED BY <1>3, <2>1, <2>2
<1>6. DOMAIN owns = DOMAIN owner \ {id} /\ \A x \in DOMAIN owns : owns[x] = owner[x]
  BY DEF Without1
<1> HIDE DEF new, owns, rest
<1>7. DOMAIN new = {owns[x] : x \in DOMAIN owns}
  <2>1. ASSUME NEW k \in DOMAIN new PROVE \E x \in DOMAIN owns : k = owns[x]
    <3>1. k \in DOMAIN map /\ (k = key => of(key) # {id})
      BY <1>4, <1>5
    <3>2. PICK x \in DOMAIN owner : k = owner[x] /\ x # id
      <4>1. CASE k = key
        <5>1. of(key) # {id} /\ id \in of(key)
          BY <3>1, <4>1
        <5>2. PICK x \in of(key) : x # id
          BY <5>1
        <5> QED BY <4>1, <5>2
      <4>2. CASE k # key
        BY <1>1, <3>1, <4>2
      <4> QED BY <4>1, <4>2
    <3> QED BY <1>6, <3>2
  <2>2. ASSUME NEW x \in DOMAIN owns PROVE owns[x] \in DOMAIN new
    <3>1. x \in DOMAIN owner /\ x # id /\ owns[x] = owner[x] /\ owner[x] \in DOMAIN map
      BY <1>1, <1>6
    <3>2. owner[x] = key => of(key) # {id}
      BY <3>1
    <3> QED BY <1>4, <1>5, <3>1, <3>2
  <2> QED BY <2>1, <2>2
<1>8. ASSUME NEW k \in DOMAIN new
      PROVE  /\ new[k] \in Seq(Nat) /\ Distinct(new[k])
             /\ ToSet(new[k]) = {x \in DOMAIN owns : owns[x] = k}
  <2>1. {x \in DOMAIN owns : owns[x] = k} = of(k) \ {id}
    BY <1>6
  <2>2. CASE k = key
    BY <1>2, <1>5, <2>1, <2>2
  <2>3. CASE k # key
    <3>1. id \notin of(k) /\ k \in DOMAIN map
      BY <1>5, <2>3
    <3> QED BY <1>1, <1>5, <2>1, <2>3, <3>1
  <2> QED BY <2>2, <2>3
<1> QED
  BY <1>7, <1>8 DEF Buckets, new, owns

\* Who owns a label, and who a value of a field.
LabelOf(ns) == [id \in DOMAIN ns |-> ns[id].label]
ValueOf(ns, f) == [id \in {n \in DOMAIN ns : f \in DOMAIN ns[n].properties} |-> ns[id].properties[f]]

MapOf(index, f) == IF f \in DOMAIN index THEN index[f] ELSE NoBuckets

Labelled(index, ns) == Buckets(index, LabelOf(ns))

Valued(index, ns) ==
    /\ DOMAIN index \subseteq IndexedFields
    /\ \A f \in IndexedFields : Buckets(MapOf(index, f), ValueOf(ns, f))

LEMMA NothingIndexed ==
    ASSUME NEW ns, DOMAIN ns = {}
    PROVE  Labelled(NoBuckets, ns) /\ Valued(NoFields, ns)
<1>1. DOMAIN LabelOf(ns) = {} /\ \A f : DOMAIN ValueOf(ns, f) = {}
  BY DEF LabelOf, ValueOf
<1>2. \A f \in IndexedFields : MapOf(NoFields, f) = NoBuckets
  BY DEF MapOf, NoFields
<1> QED
  BY <1>1, <1>2, EmptyBuckets DEF Labelled, Valued, NoFields

LEMMA LabelledInsert ==
    ASSUME NEW index, NEW ns, Labelled(index, ns), NEW id \in Nat, id \notin DOMAIN ns, NEW node
    PROVE  Labelled(LabelInserted(index, id, node.label), With1(ns, id, node))
<1>1. LabelInserted(index, id, node.label) = bucket_insert(index, node.label, id)
  BY DEF LabelInserted, bucket_insert
<1>2. LabelOf(With1(ns, id, node)) = With1(LabelOf(ns), id, node.label)
  BY DEF LabelOf, With1
<1>3. id \notin DOMAIN LabelOf(ns)
  BY DEF LabelOf
<1> QED
  BY <1>1, <1>2, <1>3, BucketsInsert DEF Labelled

LEMMA ValuedInsert ==
    ASSUME NEW index, NEW ns, Valued(index, ns), NEW id \in Nat, id \notin DOMAIN ns, NEW node
    PROVE  Valued(insert_node(index, id, Indexable(node.properties)), With1(ns, id, node))
<1> DEFINE props == node.properties
           new == insert_node(index, id, Indexable(props))
           all == With1(ns, id, node)
<1>1. /\ DOMAIN new = DOMAIN index \cup (DOMAIN props \cap IndexedFields)
      /\ \A f \in DOMAIN new :
            new[f] = IF f \in DOMAIN props \cap IndexedFields
                     THEN bucket_insert(MapOf(index, f), props[f], id) ELSE MapOf(index, f)
  BY DEF insert_node, Indexable, MapOf, NoBuckets
<1>2. DOMAIN all = DOMAIN ns \cup {id} /\ all[id] = node /\ \A x \in DOMAIN ns : all[x] = ns[x]
  BY DEF With1
<1> HIDE DEF new, all
<1>3. ASSUME NEW f \in IndexedFields PROVE Buckets(MapOf(new, f), ValueOf(all, f))
  <2> DEFINE owner == ValueOf(ns, f)
  <2>1. Buckets(MapOf(index, f), owner) /\ id \notin DOMAIN owner
    BY DEF Valued, ValueOf
  <2>2. CASE f \in DOMAIN props
    <3>1. ValueOf(all, f) = With1(owner, id, props[f])
      <4>1. DOMAIN ValueOf(all, f) = DOMAIN owner \cup {id}
        BY <1>2, <2>2 DEF ValueOf
      <4>2. \A x \in DOMAIN owner \cup {id} :
                ValueOf(all, f)[x] = IF x = id THEN props[f] ELSE owner[x]
        BY <1>2, <2>1, <2>2 DEF ValueOf
      <4>3. ValueOf(all, f) = [x \in DOMAIN ValueOf(all, f) |-> ValueOf(all, f)[x]]
        BY DEF ValueOf
      <4> QED BY <4>1, <4>2, <4>3 DEF With1
    <3>2. MapOf(new, f) = bucket_insert(MapOf(index, f), props[f], id)
      BY <1>1, <2>2 DEF MapOf
    <3> HIDE DEF owner
    <3> QED BY <2>1, <3>1, <3>2, BucketsInsert
  <2>3. CASE f \notin DOMAIN props
    <3>1. ValueOf(all, f) = owner
      <4>1. {n \in DOMAIN all : f \in DOMAIN all[n].properties}
                = {n \in DOMAIN ns : f \in DOMAIN ns[n].properties}
        BY <1>2, <2>3
      <4> QED BY <1>2, <4>1 DEF ValueOf
    <3>2. MapOf(new, f) = MapOf(index, f)
      BY <1>1, <2>3 DEF MapOf
    <3> QED BY <2>1, <3>1, <3>2
  <2> QED BY <2>2, <2>3
<1> QED
  BY <1>1, <1>3 DEF Valued, new, all

LEMMA LabelledRemove ==
    ASSUME NEW index, NEW ns, Labelled(index, ns), NEW id \in DOMAIN ns
    PROVE  Labelled(LabelRemoved(index, id, ns[id].label), Without1(ns, id))
<1> DEFINE label == ns[id].label
<1>1. DOMAIN LabelOf(ns) = DOMAIN ns /\ LabelOf(ns)[id] = label /\ label \in DOMAIN index
  BY DEF LabelOf, Labelled, Buckets
<1>2. LabelRemoved(index, id, label) = bucket_remove(index, label, id)
  <2>1. [index EXCEPT ![label] = Without(@, id)]
            = [k \in DOMAIN index |-> IF k = label THEN Without(index[k], id) ELSE index[k]]
    OBVIOUS
  <2> QED BY <2>1 DEF LabelRemoved, bucket_remove
<1>3. LabelOf(Without1(ns, id)) = Without1(LabelOf(ns), id)
  BY DEF LabelOf, Without1
<1> QED
  BY <1>1, <1>2, <1>3, BucketsRemove DEF Labelled

LEMMA ValuedRemove ==
    ASSUME NEW index, NEW ns, Valued(index, ns), NEW id \in DOMAIN ns
    PROVE  Valued(remove_node(index, id, ns[id].properties), Without1(ns, id))
<1> DEFINE props == ns[id].properties
           new == remove_node(index, id, props)
           rest == Without1(ns, id)
<1>1. /\ DOMAIN new = DOMAIN index
      /\ \A f \in DOMAIN new :
            new[f] = IF f \in DOMAIN props THEN bucket_remove(index[f], props[f], id) ELSE index[f]
  BY DEF remove_node
<1>2. DOMAIN rest = DOMAIN ns \ {id} /\ \A x \in DOMAIN rest : rest[x] = ns[x]
  BY DEF Without1
<1> HIDE DEF new, rest
<1>3. ASSUME NEW f \in IndexedFields PROVE Buckets(MapOf(new, f), ValueOf(rest, f))
  <2> DEFINE owner == ValueOf(ns, f)
  <2>1. Buckets(MapOf(index, f), owner)
    BY DEF Valued
  <2>2. CASE f \in DOMAIN props
    <3>1. id \in DOMAIN owner /\ owner[id] = props[f]
      BY <2>2 DEF ValueOf
    <3>2. ValueOf(rest, f) = Without1(owner, id)
      <4>1. {n \in DOMAIN rest : f \in DOMAIN rest[n].properties} = DOMAIN owner \ {id}
        BY <1>2 DEF ValueOf
      <4>2. \A x \in DOMAIN owner \ {id} : rest[x].properties[f] = owner[x]
        BY <1>2 DEF ValueOf
      <4> QED BY <4>1, <4>2 DEF ValueOf, Without1
    <3>3. f \in DOMAIN index
      <4>1. DOMAIN MapOf(index, f) # {}
        BY <2>1, <3>1 DEF Buckets
      <4> QED BY <4>1 DEF MapOf, NoBuckets
    <3>4. MapOf(new, f) = bucket_remove(MapOf(index, f), owner[id], id)
      BY <1>1, <2>2, <3>1, <3>3 DEF MapOf
    <3> HIDE DEF owner
    <3> QED BY <2>1, <3>1, <3>2, <3>4, BucketsRemove
  <2>3. CASE f \notin DOMAIN props
    <3>1. ValueOf(rest, f) = owner
      <4>1. {n \in DOMAIN rest : f \in DOMAIN rest[n].properties}
                = {n \in DOMAIN ns : f \in DOMAIN ns[n].properties}
        BY <1>2, <2>3
      <4> QED BY <1>2, <4>1 DEF ValueOf
    <3>2. MapOf(new, f) = MapOf(index, f)
      BY <1>1, <2>3 DEF MapOf
    <3> QED BY <2>1, <3>1, <3>2
  <2> QED BY <2>2, <2>3
<1> QED
  BY <1>1, <1>3 DEF Valued, new, rest

\* What the indexes are while they are built.
LEMMA LabelsOfAt ==
    ASSUME NEW order, Len(order) \in Nat
    PROVE  /\ LabelsOf(order)[0] = NoBuckets
           /\ \A i \in 1 .. Len(order) :
                LabelsOf(order)[i] = LabelInserted(LabelsOf(order)[i - 1], order[i], nodes[order[i]].label)
<1> DEFINE Next1(v, i) == LabelInserted(v, order[i], nodes[order[i]].label)
           Solves(f, n) == f = [i \in 0 .. n |-> IF i = 0 THEN NoBuckets ELSE Next1(f[i - 1], i)]
           good == {n \in 0 .. Len(order) : \E f : Solves(f, n)}
<1> HIDE DEF Next1
<1>1. 0 \in good
  <2> DEFINE f == [i \in 0 .. 0 |-> NoBuckets]
  <2>1. \A i \in 0 .. 0 : i = 0
    OBVIOUS
  <2>2. f = [i \in 0 .. 0 |-> IF i = 0 THEN NoBuckets ELSE Next1(f[i - 1], i)]
    BY <2>1, Zenon
  <2>3. Solves(f, 0)
    BY <2>2
  <2>4. 0 \in 0 .. Len(order)
    OBVIOUS
  <2> HIDE DEF Solves
  <2> QED BY <2>3, <2>4
<1>2. ASSUME NEW n \in 1 .. Len(order), n - 1 \in good PROVE n \in good
  <2>1. PICK f : Solves(f, n - 1)
    BY <1>2
  <2> DEFINE g == [i \in 0 .. n |-> IF i = n THEN Next1(f[n - 1], n) ELSE f[i]]
  <2>2. ASSUME NEW i \in 0 .. n PROVE g[i] = IF i = 0 THEN NoBuckets ELSE Next1(g[i - 1], i)
    BY <2>1
  <2>3. Solves(g, n)
    <3> HIDE DEF g
    <3>1. g = [i \in 0 .. n |-> g[i]]
      BY DEF g
    <3> QED BY <2>2, <3>1
  <2>4. n \in 0 .. Len(order)
    OBVIOUS
  <2> HIDE DEF Solves, g
  <2> QED BY <2>3, <2>4
<1>3. Len(order) \in good
  <2>1. Len(order) \in 0 .. Len(order)
    OBVIOUS
  <2> HIDE DEF good
  <2> QED BY <1>1, <1>2, <2>1, UpTo
<1> DEFINE F == LabelsOf(order)
<1>4. Solves(F, Len(order))
  <2>1. F = CHOOSE f : Solves(f, Len(order))
    BY DEF LabelsOf, Next1, NoBuckets
  <2>2. PICK f : Solves(f, Len(order))
    BY <1>3
  <2> HIDE DEF F, Solves
  <2> QED BY <2>1, <2>2
<1> HIDE DEF F
<1>5. F[0] = NoBuckets /\ \A i \in 1 .. Len(order) : F[i] = Next1(F[i - 1], i)
  BY <1>4
<1> QED
  BY <1>5 DEF F, Next1

LEMMA PropertiesOfAt ==
    ASSUME NEW order, Len(order) \in Nat
    PROVE  /\ PropertiesOf(order)[0] = NoFields
           /\ \A i \in 1 .. Len(order) :
                PropertiesOf(order)[i] = insert_node(PropertiesOf(order)[i - 1], order[i],
                                                Indexable(nodes[order[i]].properties))
<1> DEFINE Next1(v, i) == insert_node(v, order[i], Indexable(nodes[order[i]].properties))
           Solves(f, n) == f = [i \in 0 .. n |-> IF i = 0 THEN NoFields ELSE Next1(f[i - 1], i)]
           good == {n \in 0 .. Len(order) : \E f : Solves(f, n)}
<1> HIDE DEF Next1
<1>1. 0 \in good
  <2> DEFINE f == [i \in 0 .. 0 |-> NoFields]
  <2>1. \A i \in 0 .. 0 : i = 0
    OBVIOUS
  <2>2. f = [i \in 0 .. 0 |-> IF i = 0 THEN NoFields ELSE Next1(f[i - 1], i)]
    BY <2>1, Zenon
  <2>3. Solves(f, 0)
    BY <2>2
  <2>4. 0 \in 0 .. Len(order)
    OBVIOUS
  <2> HIDE DEF Solves
  <2> QED BY <2>3, <2>4
<1>2. ASSUME NEW n \in 1 .. Len(order), n - 1 \in good PROVE n \in good
  <2>1. PICK f : Solves(f, n - 1)
    BY <1>2
  <2> DEFINE g == [i \in 0 .. n |-> IF i = n THEN Next1(f[n - 1], n) ELSE f[i]]
  <2>2. ASSUME NEW i \in 0 .. n PROVE g[i] = IF i = 0 THEN NoFields ELSE Next1(g[i - 1], i)
    BY <2>1
  <2>3. Solves(g, n)
    <3> HIDE DEF g
    <3>1. g = [i \in 0 .. n |-> g[i]]
      BY DEF g
    <3> QED BY <2>2, <3>1
  <2>4. n \in 0 .. Len(order)
    OBVIOUS
  <2> HIDE DEF Solves, g
  <2> QED BY <2>3, <2>4
<1>3. Len(order) \in good
  <2>1. Len(order) \in 0 .. Len(order)
    OBVIOUS
  <2> HIDE DEF good
  <2> QED BY <1>1, <1>2, <2>1, UpTo
<1> DEFINE F == PropertiesOf(order)
<1>4. Solves(F, Len(order))
  <2>1. F = CHOOSE f : Solves(f, Len(order))
    BY DEF PropertiesOf, Next1
  <2>2. PICK f : Solves(f, Len(order))
    BY <1>3
  <2> HIDE DEF F, Solves
  <2> QED BY <2>1, <2>2
<1> HIDE DEF F
<1>5. F[0] = NoFields /\ \A i \in 1 .. Len(order) : F[i] = Next1(F[i - 1], i)
  BY <1>4
<1> QED
  BY <1>5 DEF F, Next1

\* Built from the live nodes, in any order, they are exact.
LEMMA Rebuilding ==
    ASSUME DOMAIN nodes \subseteq Nat, IsFiniteSet(DOMAIN nodes),
           NEW order \in SetToSeqs(DOMAIN nodes)
    PROVE  /\ Labelled(LabelsOf(order)[Len(order)], nodes)
           /\ Valued(PropertiesOf(order)[Len(order)], nodes)
<1> DEFINE L == LabelsOf(order)
           P == PropertiesOf(order)
           first(i) == {order[j] : j \in 1 .. i}
           part(i) == [x \in first(i) |-> nodes[x]]
           good == {i \in 0 .. Len(order) : Labelled(L[i], part(i)) /\ Valued(P[i], part(i))}
<1>1. order \in Seq(DOMAIN nodes) /\ ToSet(order) = DOMAIN nodes /\ Distinct(order)
  BY SetToSeqsAre
<1>2. /\ Len(order) \in Nat /\ DOMAIN order = 1 .. Len(order)
      /\ \A i \in 1 .. Len(order) : order[i] \in DOMAIN nodes /\ order[i] \in Nat
  BY <1>1
<1>3. /\ L[0] = NoBuckets
      /\ \A i \in 1 .. Len(order) :
            L[i] = LabelInserted(L[i - 1], order[i], nodes[order[i]].label)
  BY <1>2, LabelsOfAt
<1>4. /\ P[0] = NoFields
      /\ \A i \in 1 .. Len(order) :
            P[i] = insert_node(P[i - 1], order[i], Indexable(nodes[order[i]].properties))
  BY <1>2, PropertiesOfAt
<1> HIDE DEF L, P
<1>5. 0 \in good
  <2>1. first(0) = {} /\ 0 \in 0 .. Len(order)
    BY <1>2
  <2>2. DOMAIN part(0) = {}
    BY <2>1
  <2> HIDE DEF part
  <2> QED BY <1>3, <1>4, <2>1, <2>2, NothingIndexed
<1>6. ASSUME NEW i \in 1 .. Len(order), i - 1 \in good PROVE i \in good
  <2> DEFINE id == order[i]
             before == part(i - 1)
  <2>1. Labelled(L[i - 1], before) /\ Valued(P[i - 1], before)
    BY <1>6
  <2>2. first(i) = first(i - 1) \cup {id} /\ i \in 0 .. Len(order)
    <3>1. \A j : j \in 1 .. i <=> j \in 1 .. i - 1 \/ j = i
      BY <1>2
    <3> QED BY <1>2, <3>1
  <2>3. id \notin first(i - 1) /\ id \in Nat
    <3>1. \A j \in 1 .. i - 1 : j \in 1 .. Len(order) /\ j # i
      BY <1>2
    <3> QED BY <1>1, <1>2, <3>1 DEF Distinct
  <2>4. id \notin DOMAIN before /\ part(i) = With1(before, id, nodes[id])
    <3> HIDE DEF first
    <3> QED BY <2>2, <2>3 DEF With1
  <2> HIDE DEF part, before
  <2>5. Labelled(L[i], part(i))
    BY <1>3, <2>1, <2>3, <2>4, LabelledInsert
  <2>6. Valued(P[i], part(i))
    BY <1>4, <2>1, <2>3, <2>4, ValuedInsert
  <2> QED BY <2>2, <2>5, <2>6
<1>7. Len(order) \in good
  <2>1. Len(order) \in 0 .. Len(order)
    BY <1>2
  <2> HIDE DEF good
  <2> QED BY <1>2, <1>5, <1>6, <2>1, UpTo
<1>8. LabelOf(part(Len(order))) = LabelOf(nodes)
      /\ \A f : ValueOf(part(Len(order)), f) = ValueOf(nodes, f)
  <2>1. first(Len(order)) = DOMAIN nodes
    BY <1>1, <1>2 DEF ToSet
  <2> DEFINE all == part(Len(order))
  <2>2. DOMAIN all = DOMAIN nodes /\ \A x \in DOMAIN nodes : all[x] = nodes[x]
    BY <2>1
  <2> HIDE DEF all
  <2>3. LabelOf(all) = LabelOf(nodes)
    BY <2>2 DEF LabelOf
  <2>4. ASSUME NEW f PROVE ValueOf(all, f) = ValueOf(nodes, f)
    <3>1. {n \in DOMAIN all : f \in DOMAIN all[n].properties}
              = {n \in DOMAIN nodes : f \in DOMAIN nodes[n].properties}
      BY <2>2
    <3> QED BY <2>2, <3>1 DEF ValueOf
  <2> QED BY <2>3, <2>4 DEF all
<1> HIDE DEF part
<1> QED
  BY <1>7, <1>8 DEF Labelled, Valued, L, P

\* The next id is above all in use, and both indexes are of the live nodes.
IndexInv ==
    /\ nextNode \in Nat /\ DOMAIN nodes \subseteq 0 .. nextNode - 1
    /\ nodes = [id \in DOMAIN nodes |-> nodes[id]]
    /\ \A id \in DOMAIN nodes : nodes[id].properties \in Contents
    /\ Labelled(label_index, nodes)
    /\ Valued(property_index, nodes)

LEMMA NodesFinite ==
    ASSUME IndexInv
    PROVE  DOMAIN nodes \subseteq Nat /\ IsFiniteSet(DOMAIN nodes)
<1>1. nextNode \in Nat /\ DOMAIN nodes \in SUBSET (0 .. nextNode - 1)
  BY DEF IndexInv
<1>2. IsFiniteSet(0 .. nextNode - 1)
  BY <1>1, FS_Interval
<1> QED
  BY <1>1, <1>2, FS_Subset

LEMMA IndexInit == Init => IndexInv
<1> SUFFICES ASSUME Init PROVE IndexInv
  OBVIOUS
<1>1. nodes = [id \in {} |-> {}] /\ nextNode = 0
      /\ label_index = NoBuckets /\ property_index = NoFields
  BY DEF Init, NoBuckets
<1>2. DOMAIN nodes = {} /\ nodes = [id \in DOMAIN nodes |-> nodes[id]]
  BY <1>1
<1>3. Labelled(label_index, nodes) /\ Valued(property_index, nodes)
  BY <1>1, <1>2, NothingIndexed
<1> QED
  BY <1>1, <1>2, <1>3 DEF IndexInv

LEMMA IndexNext == IndexInv /\ [Next]_vars => IndexInv'
<1> SUFFICES ASSUME IndexInv, [Next]_vars PROVE IndexInv'
  OBVIOUS
<1>1. ASSUME UNCHANGED <<nodes, nextNode, indexes>> PROVE IndexInv'
  BY <1>1 DEF IndexInv, indexes, Labelled, Valued
<1>2. ASSUME NEW label \in Labels, NEW props \in Contents, InsertNode(label, props)
      PROVE  IndexInv'
  <2> DEFINE node == [label |-> label, properties |-> props]
  <2>1. nextNode \in Nat /\ nextNode \notin DOMAIN nodes
    BY DEF IndexInv
  <2>2. nodes' = With1(nodes, nextNode, node)
    BY <1>2, <2>1 DEF InsertNode
  <2>3. node.label = label /\ node.properties = props
    OBVIOUS
  <2> HIDE DEF node
  <2>4. Labelled(label_index', nodes')
    BY <1>2, <2>1, <2>2, <2>3, LabelledInsert DEF IndexInv, InsertNode
  <2>5. Valued(property_index', nodes')
    BY <1>2, <2>1, <2>2, <2>3, ValuedInsert DEF IndexInv, InsertNode
  <2>6. /\ DOMAIN nodes' = DOMAIN nodes \cup {nextNode}
        /\ \A id \in DOMAIN nodes' : nodes'[id] = IF id = nextNode THEN node ELSE nodes[id]
        /\ nodes' = [id \in DOMAIN nodes' |-> nodes'[id]]
    BY <2>2 DEF With1
  <2>7. nextNode' \in Nat /\ DOMAIN nodes' \subseteq 0 .. nextNode' - 1
    BY <1>2, <2>1, <2>6 DEF InsertNode, IndexInv
  <2>8. \A id \in DOMAIN nodes' : nodes'[id].properties \in Contents
    BY <2>3, <2>6 DEF IndexInv
  <2> QED BY <2>4, <2>5, <2>6, <2>7, <2>8 DEF IndexInv, Labelled, Valued
<1>3. ASSUME NEW id, DeleteNode(id) PROVE IndexInv'
  <2>1. nodes' = Without1(nodes, id) /\ nextNode' = nextNode
    BY <1>3 DEF DeleteNode
  <2>2. CASE id \in DOMAIN nodes
    <3>1. /\ label_index' = LabelRemoved(label_index, id, nodes[id].label)
          /\ property_index' = remove_node(property_index, id, nodes[id].properties)
      BY <1>3, <2>2 DEF DeleteNode
    <3>2. Labelled(label_index', nodes')
      BY <2>1, <2>2, <3>1, LabelledRemove DEF IndexInv
    <3>3. Valued(property_index', nodes')
      BY <2>1, <2>2, <3>1, ValuedRemove DEF IndexInv
    <3>4. /\ DOMAIN nodes' = DOMAIN nodes \ {id} /\ \A x \in DOMAIN nodes' : nodes'[x] = nodes[x]
          /\ nodes' = [x \in DOMAIN nodes' |-> nodes'[x]]
      BY <2>1 DEF Without1
    <3> QED BY <2>1, <3>2, <3>3, <3>4 DEF IndexInv, Labelled, Valued
  <2>3. CASE id \notin DOMAIN nodes
    <3>1. UNCHANGED indexes
      BY <1>3, <2>3 DEF DeleteNode
    <3>2. nodes' = nodes
      <4>1. DOMAIN nodes \ {id} = DOMAIN nodes
        BY <2>3
      <4> QED BY <2>1, <4>1 DEF Without1, IndexInv
    <3> QED BY <1>1, <2>1, <3>1, <3>2
  <2> QED BY <2>2, <2>3
<1>4. CASE Reopen
  <2>1. PICK order \in SetToSeqs(DOMAIN nodes) :
            /\ label_index' = LabelsOf(order)[Len(order)]
            /\ property_index' = PropertiesOf(order)[Len(order)]
            /\ nextNode' = IF DOMAIN nodes = {} THEN 0 ELSE Max(DOMAIN nodes) + 1
            /\ nodes' = nodes
    BY <1>4, Zenon DEF Reopen
  <2>2. DOMAIN nodes \subseteq Nat /\ IsFiniteSet(DOMAIN nodes)
    BY NodesFinite
  <2>3. Labelled(label_index', nodes') /\ Valued(property_index', nodes')
    BY <2>1, <2>2, Rebuilding
  <2>4. nextNode' \in Nat /\ DOMAIN nodes \subseteq 0 .. nextNode' - 1
    <3>1. CASE DOMAIN nodes = {}
      BY <2>1, <3>1
    <3>2. CASE DOMAIN nodes # {}
      <4> DEFINE gaps == {nextNode - id : id \in DOMAIN nodes}
      <4>2. nextNode \in Nat /\ \A id \in DOMAIN nodes : id \in Nat /\ nextNode - id \in Nat
        BY DEF IndexInv
      <4>3. gaps \subseteq Nat /\ gaps # {}
        BY <3>2, <4>2
      <4>4. PICK gap \in gaps : \A g \in gaps : gap =< g
        <5> HIDE DEF gaps
        <5> QED BY <4>3, LeastNumber
      <4>5. PICK most \in DOMAIN nodes : \A id \in DOMAIN nodes : nextNode - most =< nextNode - id
        BY <4>4
      <4>6. \A id \in DOMAIN nodes : most >= id
        BY <4>2, <4>5
      <4>7. Max(DOMAIN nodes) \in DOMAIN nodes /\ \A id \in DOMAIN nodes : Max(DOMAIN nodes) >= id
        BY <4>6 DEF Max
      <4>8. nextNode' = Max(DOMAIN nodes) + 1
        BY <2>1, <3>2
      <4> HIDE DEF gaps
      <4> QED BY <4>2, <4>7, <4>8
    <3> QED BY <3>1, <3>2
  <2> QED BY <2>1, <2>3, <2>4 DEF IndexInv, Labelled, Valued
<1>5. ASSUME NEW s, NEW t, NEW label, NEW w, InsertEdge(s, t, label, w) PROVE IndexInv'
  BY <1>1, <1>5 DEF InsertEdge
<1>6. ASSUME NEW id, DeleteEdge(id) PROVE IndexInv'
  BY <1>1, <1>6 DEF DeleteEdge
<1>7. ASSUME NEW p, NEW n, Answered(p, n) PROVE IndexInv'
  BY <1>1, <1>7 DEF Answered
<1>8. ASSUME NEW filter, MatchNodes(filter) PROVE IndexInv'
  BY <1>7, <1>8 DEF MatchNodes
<1>9. ASSUME NEW filter, MatchEdges(filter) PROVE IndexInv'
  BY <1>7, <1>9 DEF MatchEdges
<1>10. ASSUME NEW kind, OtherQuery(kind) PROVE IndexInv'
  BY <1>7, <1>10 DEF OtherQuery
<1>11. CASE ParseFails
  BY <1>1, <1>11 DEF ParseFails
<1>12. CASE UNCHANGED vars
  BY <1>1, <1>12 DEF vars, indexes
<1> QED
  BY <1>2, <1>3, <1>4, <1>5, <1>6, <1>8, <1>9, <1>10, <1>11, <1>12 DEF Next

\* Through inserts, deletions and reopening in any order, a bucket of the
\* property index lists the live nodes with that value, each once, and there is
\* none for a value nobody has.
THEOREM BucketsStayExact == Spec => []BucketsExact
<1>1. ASSUME IndexInv PROVE BucketsExact
  <2> SUFFICES ASSUME NEW f \in IndexedFields
               PROVE  LET map == MapOf(property_index, f)
                          having(k) == {id \in DOMAIN nodes :
                                            f \in DOMAIN nodes[id].properties
                                            /\ nodes[id].properties[f] = k}
                      IN  /\ DOMAIN map =
                               {nodes[id].properties[f] :
                                   id \in {n \in DOMAIN nodes : f \in DOMAIN nodes[n].properties}}
                          /\ \A k \in DOMAIN map : /\ ToSet(map[k]) = having(k)
                                                   /\ Len(map[k]) = Cardinality(having(k))
    BY DEF BucketsExact, MapOf, NoBuckets
  <2> DEFINE map == MapOf(property_index, f)
             having(k) == {id \in DOMAIN nodes : f \in DOMAIN nodes[id].properties
                                                 /\ nodes[id].properties[f] = k}
  <2>1. Buckets(map, ValueOf(nodes, f))
    BY <1>1 DEF IndexInv, Valued
  <2> HIDE DEF map
  <2>2. DOMAIN map = {nodes[id].properties[f] :
                         id \in {n \in DOMAIN nodes : f \in DOMAIN nodes[n].properties}}
    BY <2>1 DEF Buckets, ValueOf
  <2>3. ASSUME NEW k \in DOMAIN map
        PROVE  ToSet(map[k]) = having(k) /\ Len(map[k]) = Cardinality(having(k))
    <3>1. /\ map[k] \in Seq(Nat) /\ Distinct(map[k])
          /\ ToSet(map[k]) = {id \in DOMAIN ValueOf(nodes, f) : ValueOf(nodes, f)[id] = k}
      BY <2>1 DEF Buckets
    <3>2. ToSet(map[k]) = having(k)
      BY <3>1 DEF ValueOf
    <3> QED BY <3>1, <3>2, Counting
  <2> QED BY <2>2, <2>3 DEF map
<1> QED
  BY <1>1, IndexInit, IndexNext, PTL DEF Spec

-----------------------------------------------------------------------------
(* The answers.                                                            *)

\* What the parsers and inserts give: filters of the IR, and values.
Typed ==
    /\ Filters \subseteq NodeFilter
    /\ \A props \in Contents : \A f \in DOMAIN props : props[f] \in Value

\* A list of ids that answers for the nodes in a set, each once.
Lists(ids, set) == ids \in Seq(Nat) /\ Distinct(ids) /\ ToSet(ids) = set

LEMMA EmptyLists == Lists(<<>>, {})
<1>1. <<>> \in Seq(Nat) /\ DOMAIN <<>> = {}
  OBVIOUS
<1> QED
  BY <1>1, Zenon DEF Lists, Distinct, ToSet

LEMMA AmongLists ==
    ASSUME NEW ids, NEW set, Lists(ids, set), NEW some
    PROVE  Lists(Among(ids, some), set \cap some)
BY AmongIs DEF Lists

\* Whatever lists the nodes that match the rest of a filter and more, filtered
\* by the rest it answers the filter.
LEMMA KeptLists ==
    ASSUME NEW ids, NEW set, Lists(ids, set), NEW filter
    PROVE  Lists(Kept(ids, filter), {id \in set : node_matches(filter, nodes[id])})
<1> DEFINE some == {id \in ToSet(ids) : node_matches(filter, nodes[id])}
<1>1. set \cap some = {id \in set : node_matches(filter, nodes[id])}
  BY DEF Lists
<1> HIDE DEF some
<1>2. Lists(Among(ids, some), set \cap some)
  BY AmongLists
<1> QED
  BY <1>1, <1>2 DEF Kept, some

\* A set of numbers has its least in it.
LEMMA MinIn ==
    ASSUME NEW S, S \subseteq Nat, S # {}
    PROVE  Min(S) \in S
BY LeastNumber DEF Min

\* The condition that the planner takes is one of the filter's, on an indexed field.
LEMMA BestIs ==
    ASSUME NEW filter \in NodeFilter, NEW st, IndexedConditions(filter, st) # {}
    PROVE  \E i \in IndexedConditions(filter, st) :
              best_indexed_condition(filter, st) = filter.property_conditions[i]
<1> DEFINE conds == filter.property_conditions
           I == IndexedConditions(filter, st)
           rank(i) == op_selectivity_rank(conds[i].op)
           ranks == {rank(i) : i \in I}
           least == Min(ranks)
           best == {i \in I : rank(i) = least}
<1>1. I \subseteq DOMAIN conds /\ DOMAIN conds \subseteq Nat
  BY DEF IndexedConditions, NodeFilter
<1>2. ranks \subseteq Nat /\ ranks # {}
  BY DEF op_selectivity_rank
<1>3. least \in ranks
  <2> HIDE DEF ranks
  <2> QED BY <1>2, MinIn
<1>4. best \subseteq Nat /\ best # {}
  BY <1>1, <1>3
<1>5. Min(best) \in best
  <2> HIDE DEF best
  <2> QED BY <1>4, MinIn
<1>6. best_indexed_condition(filter, st) = conds[Min(best)]
  BY DEF best_indexed_condition
<1> QED
  BY <1>5, <1>6

\* With that condition and its duplicates taken out, what is left of the filter
\* and the condition say together what the filter said.
LEMMA RemainingIs ==
    ASSUME NEW filter \in NodeFilter, NEW i \in DOMAIN filter.property_conditions, NEW node
    PROVE  LET conds == filter.property_conditions
               rest == [filter EXCEPT !.property_conditions = Remaining(@, conds[i])]
           IN  node_matches(filter, node) <=>
                  node_matches(rest, node) /\ matches_properties(conds[i], node.properties)
<1> DEFINE conds == filter.property_conditions
           best == conds[i]
           left == Remaining(conds, best)
           rest == [filter EXCEPT !.property_conditions = left]
           differs(c) == c.key # best.key \/ c.op # best.op \/ ~SameValue(c.value, best.value)
           other == {c \in ToSet(conds) : differs(c)}
           C == [key : STRING, op : ComparisonOp, value : Value]
<1>1. conds \in Seq(C) /\ rest.label = filter.label /\ rest.property_conditions = left
  BY DEF NodeFilter
<1>2. ToSet(left) = ToSet(conds) \cap other
  <2>1. left = Among(conds, other)
    BY DEF Remaining
  <2> HIDE DEF left, other, conds, C
  <2> QED BY <1>1, <2>1, AmongIs
<1>3. ASSUME NEW c \in ToSet(conds), c \notin other
      PROVE  matches_properties(c, node.properties) <=> matches_properties(best, node.properties)
  <2>1. c.key = best.key /\ c.op = best.op /\ c.value = best.value
    BY <1>3 DEF SameValue
  <2> HIDE DEF best
  <2> QED BY <2>1 DEF matches_properties
<1>4. best \in ToSet(conds)
  BY DEF ToSet
<1> HIDE DEF left, other, best, rest
<1>5. node_matches(filter, node) <=>
          /\ filter.label \in {NoLabel, node.label}
          /\ \A c \in ToSet(conds) : matches_properties(c, node.properties)
  BY DEF node_matches, ToSet
<1>6. node_matches(rest, node) <=>
          /\ filter.label \in {NoLabel, node.label}
          /\ \A c \in ToSet(left) : matches_properties(c, node.properties)
  BY <1>1 DEF node_matches, ToSet
<1> HIDE DEF conds
<1>7. node_matches(filter, node) <=>
          node_matches(rest, node) /\ matches_properties(best, node.properties)
  BY <1>2, <1>3, <1>4, <1>5, <1>6
<1> QED
  BY <1>7 DEF rest, left, best, conds

\* The index lists the nodes that have the field with a value that it takes.
LEMMA QueryLists ==
    ASSUME IndexInv, Typed, NEW cond, cond.key \in DOMAIN property_index
    PROVE  Lists(query(property_index[cond.key], cond.op, cond.value),
                 {id \in DOMAIN nodes : /\ cond.key \in DOMAIN nodes[id].properties
                                        /\ IndexTakes(cond, nodes[id].properties[cond.key])})
<1> DEFINE f == cond.key
           map == property_index[f]
           owner == ValueOf(nodes, f)
           key == cond.value
           K == {k \in DOMAIN map : k.type = key.type /\ InRange(cond.op, k, key)}
           answer == query(map, cond.op, key)
           taken == {id \in DOMAIN nodes : /\ f \in DOMAIN nodes[id].properties
                                           /\ IndexTakes(cond, nodes[id].properties[f])}
<1>1. Buckets(map, owner)
  BY DEF IndexInv, Valued, MapOf
<1>2. taken = {id \in DOMAIN owner : IndexTakes(cond, owner[id])}
  BY DEF ValueOf
<1>3. CASE key.type = "Null" /\ cond.op # "="
  <2>1. answer = <<>> /\ taken = {}
    BY <1>3 DEF query, IndexTakes
  <2> HIDE DEF answer, taken
  <2> QED BY <2>1, EmptyLists DEF answer, taken
<1>4. CASE ~(key.type = "Null" /\ cond.op # "=")
  <2>1. IsFiniteSet(DOMAIN map)
    <3>1. DOMAIN owner \in SUBSET DOMAIN nodes
      BY DEF ValueOf
    <3>2. IsFiniteSet(DOMAIN owner)
      BY <3>1, NodesFinite, FS_Subset
    <3> DEFINE g == [x \in DOMAIN owner |-> owner[x]]
    <3>3. g \in Surjection(DOMAIN owner, DOMAIN map)
      BY <1>1 DEF Buckets, Surjection
    <3> QED BY <3>2, <3>3, FS_Surjection
  <2>2. IsFiniteSet(K) /\ K \subseteq DOMAIN map
    <3>1. K \in SUBSET DOMAIN map
      OBVIOUS
    <3> HIDE DEF K
    <3> QED BY <2>1, <3>1, FS_Subset
  <2>3. \A k \in K : Rank(k) \in Int
    <3>1. \A k \in DOMAIN map : k \in Value
      BY <1>1 DEF Buckets, ValueOf, IndexInv, Typed
    <3> QED BY <3>1 DEF Rank, Value, NaN
  <2> DEFINE keys == Ascending(K)
  <2>4. keys \in Seq(K) /\ ToSet(keys) = K /\ Distinct(keys)
    <3> HIDE DEF K
    <3> QED BY <2>2, <2>3, AscendingIs
  <2>5. answer = Listed(map, keys)[Len(keys)]
    BY <1>4 DEF query, range_query
  <2>6. \A k \in K : /\ map[k] \in Seq(Nat) /\ Distinct(map[k])
                     /\ ToSet(map[k]) = {id \in DOMAIN owner : owner[id] = k}
    BY <1>1 DEF Buckets
  <2>7. \A k, l \in K : k # l => ToSet(map[k]) \cap ToSet(map[l]) = {}
    BY <2>6
  <2>8. /\ answer \in Seq(Nat) /\ Distinct(answer)
        /\ ToSet(answer) = InBuckets(map, K)
    <3>1. Apart(map, K)
      BY <2>6, <2>7 DEF Apart
    <3> HIDE DEF map, K, keys, answer, owner
    <3> QED BY <2>4, <2>5, <3>1, ListedIs
  <2>9. InBuckets(map, K) = taken
    <3>1. ASSUME NEW id \in DOMAIN owner PROVE owner[id] \in K <=> IndexTakes(cond, owner[id])
      BY <1>1, <1>4 DEF Buckets, IndexTakes
    <3>2. ASSUME NEW k \in K, NEW id \in ToSet(map[k]) PROVE id \in taken
      BY <1>2, <2>6, <3>1
    <3>3. ASSUME NEW id \in taken PROVE \E k \in K : id \in ToSet(map[k])
      BY <1>2, <2>6, <3>1
    <3> HIDE DEF taken, K
    <3> QED BY <3>2, <3>3 DEF InBuckets
  <2> QED BY <2>8, <2>9 DEF Lists
<1> QED
  BY <1>3, <1>4

\* An index or a scan, the answer lists the nodes that match, each once.
LEMMA PlanAnswers ==
    ASSUME IndexInv, Typed, ComparisonsAgree, NEW filter \in Filters
    PROVE  Lists(execute_plan(plan_match_nodes(filter, stats)), Matching(filter))
<1> DEFINE p == plan_match_nodes(filter, stats)
           conds == filter.property_conditions
<1> SUFFICES Lists(execute_plan(p), Matching(filter))
  OBVIOUS
<1> HIDE DEF p
<1>1. filter \in NodeFilter
  BY DEF Typed
<1>2. DOMAIN nodes \subseteq Nat /\ IsFiniteSet(DOMAIN nodes)
  BY NodesFinite
<1>3. ASSUME NEW set, Lists(Candidates(p), set),
             {id \in set : node_matches(p.filter, nodes[id])} = Matching(filter)
      PROVE  Lists(execute_plan(p), Matching(filter))
  <2> QED BY <1>3, KeptLists DEF execute_plan
<1>4. CASE PropertyIndexPays(filter, stats)
  <2> DEFINE best == best_indexed_condition(filter, stats)
  <2>1. p = PropertyIndexScan(filter, stats)
    BY <1>4 DEF plan_match_nodes, p
  <2>2. PICK i \in IndexedConditions(filter, stats) : best = conds[i]
    BY <1>1, <1>4, BestIs DEF PropertyIndexPays
  <2>3. i \in DOMAIN conds /\ best.key \in DOMAIN property_index
    BY <2>2 DEF IndexedConditions, stats
  <2>4. /\ p.kind = "PropertyIndexScan" /\ p.cond = best
        /\ p.filter = [filter EXCEPT !.property_conditions = Remaining(@, conds[i])]
    BY <2>1, <2>2 DEF PropertyIndexScan
  <2> DEFINE taken == {id \in DOMAIN nodes : /\ best.key \in DOMAIN nodes[id].properties
                                             /\ IndexTakes(best, nodes[id].properties[best.key])}
             ids == query(property_index[best.key], best.op, best.value)
  <2> HIDE DEF best
  <2>5. Lists(ids, taken)
    BY <2>3, QueryLists
  <2>6. Candidates(p) = Among(ids, DOMAIN nodes)
    BY <2>4 DEF Candidates, Found
  <2>7. Lists(Candidates(p), taken)
    <3>1. taken \cap DOMAIN nodes = taken
      OBVIOUS
    <3> HIDE DEF taken, ids
    <3> QED BY <2>5, <2>6, <3>1, AmongLists
  <2>8. ASSUME NEW id \in DOMAIN nodes
        PROVE  node_matches(filter, nodes[id]) <=>
                   id \in taken /\ node_matches(p.filter, nodes[id])
    <3>1. node_matches(filter, nodes[id]) <=>
              node_matches(p.filter, nodes[id]) /\ matches_properties(best, nodes[id].properties)
      BY <1>1, <2>2, <2>3, <2>4, RemainingIs
    <3>2. matches_properties(best, nodes[id].properties) <=> id \in taken
      <4> DEFINE props == nodes[id].properties
      <4>1. props \in Contents /\ best.key \in IndexedFields
        BY <2>3 DEF IndexInv, Valued
      <4>2. best.key \in DOMAIN props =>
                (IndexTakes(best, props[best.key])
                    <=> compare_values(best.op, props[best.key], best.value))
        BY <2>2, <2>3, <4>1 DEF ComparisonsAgree
      <4> QED BY <4>2 DEF matches_properties
    <3> QED BY <3>1, <3>2
  <2>9. {id \in taken : node_matches(p.filter, nodes[id])} = Matching(filter)
    BY <2>8 DEF Matching
  <2> QED BY <1>3, <2>7, <2>9
<1>5. CASE ~PropertyIndexPays(filter, stats) /\ LabelIndexPays(filter, stats)
  <2>1. p = LabelIndexScan(filter)
    BY <1>5 DEF plan_match_nodes, p
  <2>2. p.kind = "LabelIndexScan" /\ p.filter = filter /\ filter.label # NoLabel
    BY <1>5, <2>1 DEF LabelIndexScan, LabelIndexPays
  <2> DEFINE label == filter.label
             ids == nodes_by_label(label)
             labelled == {id \in DOMAIN nodes : nodes[id].label = label}
  <2>3. Buckets(label_index, LabelOf(nodes))
    BY DEF IndexInv, Labelled
  <2>4. Lists(ids, labelled)
    <3>1. CASE label \in DOMAIN label_index
      BY <2>3, <3>1 DEF nodes_by_label, Lists, Buckets, LabelOf
    <3>2. CASE label \notin DOMAIN label_index
      <4>1. ids = <<>>
        BY <3>2 DEF nodes_by_label
      <4>2. labelled = {}
        BY <2>3, <3>2 DEF Buckets, LabelOf
      <4> HIDE DEF ids, labelled
      <4> QED BY <4>1, <4>2, EmptyLists
    <3> QED BY <3>1, <3>2
  <2>5. Candidates(p) = Among(ids, DOMAIN nodes)
    BY <2>2 DEF Candidates, Found
  <2>6. Lists(Candidates(p), labelled)
    <3>1. labelled \cap DOMAIN nodes = labelled
      OBVIOUS
    <3> HIDE DEF labelled, ids
    <3> QED BY <2>4, <2>5, <3>1, AmongLists
  <2>7. {id \in labelled : node_matches(p.filter, nodes[id])} = Matching(filter)
    BY <2>2 DEF Matching, node_matches
  <2> QED BY <1>3, <2>6, <2>7
<1>6. CASE ~PropertyIndexPays(filter, stats) /\ ~LabelIndexPays(filter, stats)
  <2>1. p = FullNodeScan(filter)
    BY <1>6 DEF plan_match_nodes, p
  <2>2. p.kind = "FullNodeScan" /\ p.filter = filter
    BY <2>1 DEF FullNodeScan
  <2>3. Candidates(p) = SetToSeq(DOMAIN nodes)
    BY <2>2 DEF Candidates
  <2>4. Lists(Candidates(p), DOMAIN nodes)
    BY <1>2, <2>3, SetToSeqIs DEF Lists
  <2> QED BY <1>3, <2>2, <2>4 DEF Matching
<1> QED
  BY <1>4, <1>5, <1>6

\* Where the index and the executor compare alike, however a query is planned
\* its answer is the nodes its filter holds of, each once.
THEOREM PlansDoNotMatter == ASSUME Typed, ComparisonsAgree PROVE Spec => []AnswerIsFullScan
<1>1. ASSUME Typed, ComparisonsAgree, IndexInv PROVE AnswerIsFullScan
  <2> SUFFICES ASSUME NEW filter \in Filters
               PROVE  LET answer == execute_plan(plan_match_nodes(filter, stats))
                      IN  /\ ToSet(answer) = Matching(filter)
                          /\ Len(answer) = Cardinality(Matching(filter))
    BY DEF AnswerIsFullScan
  <2> DEFINE answer == execute_plan(plan_match_nodes(filter, stats))
  <2>1. Lists(answer, Matching(filter))
    BY <1>1, PlanAnswers
  <2> HIDE DEF answer
  <2>2. ToSet(answer) = Matching(filter) /\ Len(answer) = Cardinality(Matching(filter))
    BY <2>1, Counting DEF Lists
  <2> QED BY <2>2 DEF answer
<1> QED
  BY <1>1, IndexInit, IndexNext, PTL DEF Spec

\* No float in an indexed field, and none asked of it; there is one null.
FloatFree ==
    /\ \A props \in Contents : \A f \in DOMAIN props \cap IndexedFields :
          props[f].type # "Float" /\ (props[f].type = "Null" => props[f].v = 0)
    /\ \A filter \in Filters : \A i \in DOMAIN filter.property_conditions :
          LET cond == filter.property_conditions[i]
          IN  cond.key \in IndexedFields =>
                 cond.value.type # "Float" /\ (cond.value.type = "Null" => cond.value.v = 0)

\* The total order of the index and compare_values agree on all other types.
LEMMA FloatFreeAgrees == ASSUME Typed, FloatFree PROVE ComparisonsAgree
<1> SUFFICES ASSUME NEW filter \in Filters, NEW props \in Contents,
                    NEW i \in DOMAIN filter.property_conditions,
                    filter.property_conditions[i].key \in DOMAIN props \cap IndexedFields
             PROVE  LET cond == filter.property_conditions[i]
                    IN  IndexTakes(cond, props[cond.key])
                            <=> compare_values(cond.op, props[cond.key], cond.value)
  BY DEF ComparisonsAgree
<1> DEFINE cond == filter.property_conditions[i]
           k == props[cond.key]
           key == cond.value
<1>1. cond.op \in ComparisonOp /\ key \in Value /\ k \in Value
  <2> DEFINE C == [key : STRING, op : ComparisonOp, value : Value]
             conds == filter.property_conditions
  <2>0. conds \in Seq(C)
    BY DEF Typed, NodeFilter
  <2>1. cond \in C
    <3> HIDE DEF C
    <3> QED BY <2>0
  <2>2. k \in Value
    BY DEF Typed
  <2> HIDE DEF cond, k
  <2> QED BY <2>1, <2>2
<1>2. /\ k.type # "Float" /\ (k.type = "Null" => k.v = 0)
      /\ key.type # "Float" /\ (key.type = "Null" => key.v = 0)
  BY DEF FloatFree
<1> HIDE DEF cond, k, key
<1>3. /\ k.v \in Int /\ key.v \in Int
      /\ k.type \in {"Null", "Boolean", "Integer", "Text"}
      /\ key.type \in {"Null", "Boolean", "Integer", "Text"}
      /\ k = key <=> k.type = key.type /\ k.v = key.v
  BY <1>1, <1>2 DEF Value
<1>4. CASE k.type # key.type
  <2>1. ~IndexTakes(cond, k)
    BY <1>4 DEF IndexTakes, key
  <2>2. {k.type, key.type} \notin {{"Text"}, {"Integer"}, {"Boolean"}, {"Null"}}
    BY <1>4
  <2>3. {k.type, key.type} \notin {{"Float"}, {"Integer", "Float"}}
    BY <1>2
  <2>4. ~compare_values(cond.op, k, key)
    BY <2>2, <2>3 DEF compare_values
  <2> QED BY <2>1, <2>4 DEF cond, k, key
<1>5. CASE k.type = key.type
  <2>1. Rank(k) = k.v /\ Rank(key) = key.v
    BY <1>2 DEF Rank
  <2>2. SameValue(k, key) <=> k.v = key.v
    BY <1>2, <1>3, <1>5 DEF SameValue
  <2>3. InRange(cond.op, k, key) <=> compare_ord(cond.op, k.v, key.v)
    BY <1>1, <2>1, <2>2 DEF InRange, compare_ord, ComparisonOp
  <2>4. IndexTakes(cond, k) <=>
            (k.type = "Null" => cond.op = "=") /\ compare_ord(cond.op, k.v, key.v)
    BY <1>5, <2>3 DEF IndexTakes, key
  <2>5. {k.type, key.type} = {k.type}
    BY <1>5
  <2>6. {k.type} \notin {{"Float"}, {"Integer", "Float"}}
    BY <1>2
  <2>7. CASE k.type = "Null"
    <3>1. {k.type} = {"Null"} /\ {k.type} \notin {{"Text"}, {"Integer"}, {"Boolean"}}
      BY <2>7
    <3>2. compare_values(cond.op, k, key) <=> cond.op = "="
      BY <2>5, <2>6, <3>1 DEF compare_values
    <3>3. cond.op = "=" => compare_ord(cond.op, k.v, key.v)
      BY <1>2, <1>5, <2>7 DEF compare_ord
    <3> QED BY <2>4, <2>7, <3>2, <3>3 DEF cond, k, key
  <2>8. CASE k.type # "Null"
    <3>1. {k.type} \in {{"Text"}, {"Integer"}, {"Boolean"}} /\ {k.type} # {"Null"}
      BY <1>3, <2>8
    <3>2. compare_values(cond.op, k, key) <=> compare_ord(cond.op, k.v, key.v)
      BY <2>5, <2>6, <3>1 DEF compare_values
    <3> QED BY <2>4, <2>8, <3>2 DEF cond, k, key
  <2> QED BY <2>7, <2>8
<1> QED
  BY <1>4, <1>5

\* So with no floats about, no plan changes an answer, whatever the other
\* types that a field and the conditions on it have.
THEOREM FloatFreePlansDoNotMatter == ASSUME Typed, FloatFree PROVE Spec => []AnswerIsFullScan
BY FloatFreeAgrees, PlansDoNotMatter

-----------------------------------------------------------------------------
(* The counters.                                                           *)

\* The ways to answer a MATCH NODE, and the sum index_hit_rate() divides by.
NodePlans == {"PropertyIndexScan", "LabelIndexScan", "FullNodeScan"}

NodeHits(m) == m.label_index_hits + m.property_index_hits + m.full_node_scans

\* The counters are numbers, so that a sum of them grows by what one grows by.
CountInv ==
    /\ metrics \in [Counters -> Nat]
    /\ matched \in Nat
    /\ EachMatchCountedOnce

\* Whatever the statistics say, a MATCH NODE is answered in one of three ways.
LEMMA NodePlanKind ==
    ASSUME NEW filter, NEW st
    PROVE  plan([kind |-> "MatchNodes", filter |-> filter], st).kind \in NodePlans
<1>1. plan([kind |-> "MatchNodes", filter |-> filter], st) = plan_match_nodes(filter, st)
  BY DEF plan
<1>2. plan_match_nodes(filter, st) \in
          {PropertyIndexScan(filter, st), LabelIndexScan(filter), FullNodeScan(filter)}
  <2>1. CASE PropertyIndexPays(filter, st)
    BY <2>1 DEF plan_match_nodes
  <2>2. CASE ~PropertyIndexPays(filter, st) /\ LabelIndexPays(filter, st)
    BY <2>2 DEF plan_match_nodes
  <2>3. CASE ~PropertyIndexPays(filter, st) /\ ~LabelIndexPays(filter, st)
    BY <2>3 DEF plan_match_nodes
  <2> QED BY <2>1, <2>2, <2>3
<1>3. /\ PropertyIndexScan(filter, st).kind = "PropertyIndexScan"
      /\ LabelIndexScan(filter).kind = "LabelIndexScan"
      /\ FullNodeScan(filter).kind = "FullNodeScan"
  BY DEF PropertyIndexScan, LabelIndexScan, FullNodeScan
<1> QED
  BY <1>1, <1>2, <1>3 DEF NodePlans

\* No other command is answered in one of them.
LEMMA OtherPlanKind ==
    ASSUME NEW command, NEW kind \in DOMAIN PlanName, command.kind = kind,
           "kind" \in DOMAIN command, NEW st
    PROVE  plan(command, st).kind \notin NodePlans
<1>1. kind # "MatchNodes" /\ PlanName[kind] \notin NodePlans
  BY DEF PlanName, NodePlans
<1>2. plan(command, st) = [command EXCEPT !.kind = PlanName[kind]]
  BY <1>1 DEF plan
<1> QED
  BY <1>1, <1>2

\* A counter named once goes up by one, and the others stay.
LEMMA CountedOnce ==
    ASSUME metrics \in [Counters -> Nat], NEW p,
           metrics' = Counted(metrics, {"queries_executed"} \cup CountedAs(p.kind))
    PROVE  /\ metrics' \in [Counters -> Nat]
           /\ NodeHits(metrics') = NodeHits(metrics) + (IF p.kind \in NodePlans THEN 1 ELSE 0)
<1>1. \A c \in Counters :
          metrics'[c] = IF c = "queries_executed" \/ c \in CountedAs(p.kind)
                        THEN metrics[c] + 1 ELSE metrics[c]
  BY DEF Counted
<1>2. metrics' \in [Counters -> Nat]
  BY DEF Counted
<1>3. p.kind \notin NodePlans =>
          CountedAs(p.kind) \subseteq {"full_edge_scans"}
  BY DEF CountedAs, NodePlans
<1>4. /\ p.kind = "PropertyIndexScan" => CountedAs(p.kind) = {"property_index_hits"}
      /\ p.kind = "LabelIndexScan" => CountedAs(p.kind) = {"label_index_hits"}
      /\ p.kind = "FullNodeScan" => CountedAs(p.kind) = {"full_node_scans"}
  BY DEF CountedAs
<1> QED
  BY <1>1, <1>2, <1>3, <1>4 DEF NodeHits, NodePlans, Counters

LEMMA CountInit == Init => CountInv
BY DEF Init, CountInv, EachMatchCountedOnce, NewMetrics, Counters

LEMMA CountNext == CountInv /\ [Next]_vars => CountInv'
<1> SUFFICES ASSUME CountInv, [Next]_vars PROVE CountInv'
  OBVIOUS
<1>1. NodeHits(metrics) = matched /\ matched \in Nat /\ metrics \in [Counters -> Nat]
  BY DEF CountInv, EachMatchCountedOnce, NodeHits
<1>2. ASSUME NodeHits(metrics') = matched', matched' \in Nat, metrics' \in [Counters -> Nat]
      PROVE  CountInv'
  BY <1>2 DEF CountInv, EachMatchCountedOnce, NodeHits
<1>3. ASSUME UNCHANGED <<metrics, matched>> PROVE CountInv'
  BY <1>1, <1>2, <1>3 DEF NodeHits
<1>4. ASSUME NEW p, NEW n, Answered(p, n),
              matched' = matched + (IF p.kind \in NodePlans THEN 1 ELSE 0)
       PROVE  CountInv'
  <2>1. metrics' = Counted(metrics, {"queries_executed"} \cup CountedAs(p.kind))
    BY <1>4 DEF Answered
  <2>2. /\ metrics' \in [Counters -> Nat]
        /\ NodeHits(metrics') = NodeHits(metrics) + (IF p.kind \in NodePlans THEN 1 ELSE 0)
    BY <1>1, <2>1, CountedOnce
  <2>3. NodeHits(metrics') = matched' /\ matched' \in Nat
    BY <1>1, <1>4, <2>2
  <2> QED BY <1>2, <2>2, <2>3
<1>5. CASE Reopen
  <2>1. metrics' = NewMetrics /\ matched' = 0
    BY <1>5, Zenon DEF Reopen
  <2> QED BY <2>1 DEF CountInv, EachMatchCountedOnce, NewMetrics, Counters
<1>6. ASSUME NEW filter, MatchNodes(filter) PROVE CountInv'
  <2>1. PICK p : p.kind \in NodePlans /\ Answered(p, Len(Candidates(p)))
    BY <1>6, NodePlanKind DEF MatchNodes
  <2>2. matched' = matched + 1
    BY <1>6 DEF MatchNodes
  <2> QED BY <1>4, <2>1, <2>2
<1>7. ASSUME NEW filter, MatchEdges(filter) PROVE CountInv'
  <2> DEFINE command == [kind |-> "MatchEdges", filter |-> filter]
  <2>1. plan(command, stats).kind \notin NodePlans
    <3>1. "MatchEdges" \in DOMAIN PlanName
      BY DEF PlanName
    <3> QED BY <3>1, OtherPlanKind
  <2>2. PICK p, n : p.kind \notin NodePlans /\ Answered(p, n)
    BY <1>7, <2>1 DEF MatchEdges
  <2>3. matched' = matched
    BY <1>7 DEF MatchEdges
  <2>4. matched' = matched + (IF p.kind \in NodePlans THEN 1 ELSE 0)
    BY <1>1, <2>2, <2>3
  <2> QED BY <1>4, <2>2, <2>4
<1>8. ASSUME NEW kind \in DOMAIN PlanName, OtherQuery(kind) PROVE CountInv'
  <2>1. plan([kind |-> kind], stats).kind \notin NodePlans
    BY OtherPlanKind
  <2>2. PICK p, n : p.kind \notin NodePlans /\ Answered(p, n)
    BY <1>8, <2>1 DEF OtherQuery
  <2>3. matched' = matched
    BY <1>8 DEF OtherQuery
  <2>4. matched' = matched + (IF p.kind \in NodePlans THEN 1 ELSE 0)
    BY <1>1, <2>2, <2>3
  <2> QED BY <1>4, <2>2, <2>4
<1>9. CASE ParseFails
  <2>1. NodeHits(metrics') = NodeHits(metrics) /\ metrics' \in [Counters -> Nat]
    BY <1>1, <1>9 DEF ParseFails, Counted, NodeHits, Counters
  <2>2. matched' = matched
    BY <1>9 DEF ParseFails
  <2> QED BY <1>1, <1>2, <2>1, <2>2
<1>10. CASE UNCHANGED vars
  BY <1>3, <1>10 DEF vars
<1>11. ASSUME NEW label, NEW props, InsertNode(label, props) PROVE CountInv'
  BY <1>3, <1>11 DEF InsertNode
<1>12. ASSUME NEW id, DeleteNode(id) \/ DeleteEdge(id) PROVE CountInv'
  BY <1>3, <1>12 DEF DeleteNode, DeleteEdge
<1>13. ASSUME NEW s, NEW t, NEW label, NEW w, InsertEdge(s, t, label, w) PROVE CountInv'
  BY <1>3, <1>13 DEF InsertEdge
<1> QED
  BY <1>5, <1>6, <1>7, <1>8, <1>9, <1>10, <1>11, <1>12, <1>13 DEF Next

\* Every MATCH NODE is counted under exactly one of the three ways to answer
\* it, and no other query, failed parse, write or restart comes between: the
\* hit rate divides by what it should.
THEOREM MatchesAreCounted == Spec => []EachMatchCountedOnce
<1>1. CountInv => EachMatchCountedOnce
  BY DEF CountInv
<1> QED
  BY <1>1, CountInit, CountNext, PTL DEF Spec
=============================================================================
