-------------------------------- MODULE Loop --------------------------------
(***************************************************************************)
(* A loop of the program as a recursive function: State(x)[k] is the state *)
(* of the loop over x after its first k turns.  A module that has a loop   *)
(* instantiates this one with where the loop starts and what a turn does,  *)
(* and gets with it what proofs need, that there is such a function.       *)
(***************************************************************************)
EXTENDS Naturals, WellFoundedInduction, TLAPS

CONSTANTS
    Start(_),      \* the state before the loop over x
    Turn(_, _, _)  \* the state after turn k of the loop over x, from the one before

State(x) ==
    LET after[k \in Nat] == IF k = 0 THEN Start(x) ELSE Turn(x, k, after[k - 1])
    IN  after

-----------------------------------------------------------------------------
\* A set of numbers has a least one.
LEMMA LeastNumber ==
    ASSUME NEW S, S \subseteq Nat, S # {}
    PROVE  \E m \in S : \A n \in S : m =< n
<1>1. PICK R : IsWellFoundedOn(R, Nat) /\ \A m, n \in Nat : n < m => <<n, m>> \in R
  <2>1. \A m, n \in Nat : n < m => <<n, m>> \in OpToRel(<, Nat)
    BY DEF OpToRel
  <2> QED BY <2>1, NatLessThanWellFounded
<1>2. PICK m \in S : \A n \in S : <<n, m>> \notin R
  BY <1>1, WFMin
<1>3. ASSUME NEW n \in S PROVE m =< n
  <2>1. ~(n < m)
    BY <1>1, <1>2
  <2> QED BY <2>1
<1> QED
  BY <1>3

\* f lists the states after 0, 1, ... and m turns.
Lists(f, x, m) == f = [k \in 0 .. m |-> IF k = 0 THEN Start(x) ELSE Turn(x, k, f[k - 1])]

LEMMA ListsAt ==
    ASSUME NEW f, NEW x, NEW m \in Nat, Lists(f, x, m)
    PROVE  f[0] = Start(x) /\ \A k \in 1 .. m : f[k] = Turn(x, k, f[k - 1])
BY DEF Lists

LEMMA ListsExist ==
    ASSUME NEW x, NEW m \in Nat
    PROVE  \E f : Lists(f, x, m)
<1> DEFINE without == {k \in Nat : ~\E f : Lists(f, x, k)}
<1>1. ASSUME without # {} PROVE FALSE
  <2>1. PICK k \in without : \A n \in without : k =< n
    BY <1>1, LeastNumber
  <2>2. CASE k = 0
    <3> DEFINE f == [n \in 0 .. 0 |-> Start(x)]
    <3>1. f = [n \in 0 .. 0 |-> IF n = 0 THEN Start(x) ELSE Turn(x, n, f[n - 1])]
      OBVIOUS
    <3> QED BY <2>1, <2>2, <3>1 DEF Lists
  <2>3. CASE k # 0
    <3>1. k - 1 \in Nat /\ k - 1 \notin without
      BY <2>1, <2>3
    <3>2. PICK g : Lists(g, x, k - 1)
      BY <3>1
    <3> DEFINE f == [n \in 0 .. k |-> IF n = k THEN Turn(x, k, g[k - 1]) ELSE g[n]]
    <3>3. ASSUME NEW n \in 0 .. k
          PROVE  f[n] = IF n = 0 THEN Start(x) ELSE Turn(x, n, f[n - 1])
      <4>1. CASE n = k
        BY <2>1, <2>3, <4>1
      <4>2. CASE n # k
        <5>1. /\ n \in 0 .. (k - 1) /\ f[n] = g[n]
              /\ n # 0 => n - 1 \in 0 .. (k - 1) /\ f[n - 1] = g[n - 1]
          BY <2>1, <4>2
        <5>2. g[n] = IF n = 0 THEN Start(x) ELSE Turn(x, n, g[n - 1])
          BY <3>2, <5>1 DEF Lists
        <5> QED BY <5>1, <5>2
      <4> QED BY <4>1, <4>2
    <3>4. f = [n \in 0 .. k |-> IF n = 0 THEN Start(x) ELSE Turn(x, n, f[n - 1])]
      BY <3>3
    <3> HIDE DEF f
    <3> QED BY <2>1, <3>4 DEF Lists
  <2> QED BY <2>2, <2>3
<1> QED
  BY <1>1

LEMMA ListsAgree ==
    ASSUME NEW x, NEW m \in Nat, NEW n \in Nat, NEW f, NEW g,
           Lists(f, x, m), Lists(g, x, n), NEW i \in Nat, i =< m, i =< n
    PROVE  f[i] = g[i]
<1> DEFINE differ == {k \in Nat : k =< m /\ k =< n /\ f[k] # g[k]}
<1>1. ASSUME differ # {} PROVE FALSE
  <2>1. PICK k \in differ : \A j \in differ : k =< j
    BY <1>1, LeastNumber
  <2>2. k # 0
    BY <2>1, ListsAt
  <2>3. k - 1 \in Nat /\ k - 1 \notin differ /\ k \in 1 .. m /\ k \in 1 .. n
    BY <2>1, <2>2
  <2>4. f[k - 1] = g[k - 1]
    BY <2>1, <2>3
  <2>5. f[k] = Turn(x, k, f[k - 1]) /\ g[k] = Turn(x, k, g[k - 1])
    BY <2>3, ListsAt
  <2> QED BY <2>1, <2>4, <2>5
<1> QED
  BY <1>1

\* The recursion has a solution, whatever the turns do: a loop that is given
\* turn by turn has a state after each.
LEMMA StateAt ==
    \A x : /\ State(x)[0] = Start(x)
           /\ \A k \in Nat : State(x)[k + 1] = Turn(x, k + 1, State(x)[k])
<1> SUFFICES ASSUME NEW x
             PROVE  /\ State(x)[0] = Start(x)
                    /\ \A k \in Nat : State(x)[k + 1] = Turn(x, k + 1, State(x)[k])
  OBVIOUS
<1> DEFINE list(k) == CHOOSE f : Lists(f, x, k)
           F == [k \in Nat |-> list(k)[k]]
<1>1. \A k \in Nat : Lists(list(k), x, k)
  BY ListsExist
<1>2. ASSUME NEW k \in Nat
      PROVE  F[k] = IF k = 0 THEN Start(x) ELSE Turn(x, k, F[k - 1])
  <2>1. CASE k = 0
    BY <1>1, <2>1, ListsAt
  <2>2. CASE k # 0
    <3>1. k - 1 \in Nat /\ k \in 1 .. k
      BY <2>2
    <3>2. Lists(list(k), x, k) /\ Lists(list(k - 1), x, k - 1)
      BY <1>1, <3>1
    <3> HIDE DEF list
    <3>3. list(k)[k] = Turn(x, k, list(k)[k - 1])
      BY <3>1, <3>2, ListsAt
    <3>4. list(k)[k - 1] = list(k - 1)[k - 1]
      BY <3>1, <3>2, ListsAgree
    <3> QED BY <2>2, <3>1, <3>3, <3>4
  <2> QED BY <2>1, <2>2
<1> HIDE DEF F
<1>3. F = [k \in Nat |-> IF k = 0 THEN Start(x) ELSE Turn(x, k, F[k - 1])]
  <2>1. F = [k \in Nat |-> F[k]]
    BY DEF F
  <2> QED BY <1>2, <2>1
<1> DEFINE S == State(x)
<1>4. S = [k \in Nat |-> IF k = 0 THEN Start(x) ELSE Turn(x, k, S[k - 1])]
  <2>1. S = CHOOSE G : G = [k \in Nat |-> IF k = 0 THEN Start(x) ELSE Turn(x, k, G[k - 1])]
    BY DEF State
  <2> HIDE DEF S
  <2> QED BY <1>3, <2>1
<1> HIDE DEF S
<1>5. S[0] = Start(x)
  BY <1>4
<1>6. ASSUME NEW k \in Nat PROVE S[k + 1] = Turn(x, k + 1, S[k])
  <2>1. k + 1 \in Nat /\ k + 1 # 0 /\ (k + 1) - 1 = k
    OBVIOUS
  <2> QED BY <1>4, <2>1
<1> QED
  BY <1>5, <1>6 DEF S
=============================================================================
