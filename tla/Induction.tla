------------------------------ MODULE Induction ------------------------------
(* Induction over 0..n and recursion along it, as facts about sets: what the *)
(* proofs about the passes over a plan's events rest on.  Both come from the *)
(* least element of a set of naturals, so that no theorem has a predicate    *)
(* for a parameter: an instance gives the set of the numbers it holds for.   *)
EXTENDS Integers, Sequences, WellFoundedInduction, TLAPS

\* A set of naturals with an element has a least one.
LEMMA LeastNumber ==
  ASSUME NEW T, T \subseteq Nat, T # {}
  PROVE  \E x \in T : \A y \in T : x <= y
<1> DEFINE R == OpToRel(<, Nat)
<1>1. IsWellFoundedOn(R, Nat)
  BY NatLessThanWellFounded
<1>2. PICK x \in T : \A y \in T : <<y, x>> \notin R
  <2> HIDE DEF R
  <2>. QED BY <1>1, WFMin
<1>3. \A y \in T : ~(y < x)
  BY <1>2 DEF OpToRel
<1>4. ASSUME NEW y \in T PROVE x <= y
  <2>1. x \in Nat /\ y \in Nat /\ ~(y < x)
    BY <1>3
  <2>. QED  BY <2>1
<1>. QED  BY <1>4

\* Induction: what holds of 0 and, with a number below n, of the next one,
\* holds up to n.
LEMMA SetInduction ==
  ASSUME NEW n \in Nat, NEW S, 0 \in S, \A i \in 0..(n - 1) : i \in S => i + 1 \in S
  PROVE  0..n \subseteq S
<1> DEFINE T == (0..n) \ S
<1>. SUFFICES ASSUME T # {} PROVE FALSE
  OBVIOUS
<1>1. T \subseteq Nat
  OBVIOUS
<1>2. PICK k \in T : \A y \in T : k <= y
  <2> HIDE DEF T
  <2>. QED  BY <1>1, LeastNumber
<1>3. k \in 1..n
  OBVIOUS
<1>4. k - 1 \in 0..(n - 1) /\ k - 1 \in 0..n /\ ~(k <= k - 1)
  BY <1>3
<1>5. k - 1 \in S
  BY <1>2, <1>4
<1>6. (k - 1) + 1 \in S /\ (k - 1) + 1 = k
  BY <1>3, <1>4, <1>5
<1>. QED  BY <1>6

\* A value for each number up to n: x0, then each from the one before it.
Iterates(g, n, S, x0, F) ==
  /\ g \in [0..n -> S] /\ g[0] = x0
  /\ \A i \in 1..n : g[i] = F[i][g[i - 1]]

\* Recursion: there are such values.
LEMMA Iteration ==
  ASSUME NEW n \in Nat, NEW S, NEW x0 \in S, NEW F \in [1..n -> [S -> S]]
  PROVE  \E g : Iterates(g, n, S, x0, F)
<1> DEFINE Ok(k, g) == g[0] = x0 /\ \A i \in 1..k : g[i] = F[i][g[i - 1]]
           G == {k \in 0..n : \E g \in [0..k -> S] : Ok(k, g)}
<1>1. 0 \in G
  <2> DEFINE g == [i \in 0..0 |-> x0]
  <2>1. g[0] = x0 /\ \A i \in 1..0 : FALSE
    OBVIOUS
  <2>2. g \in [0..0 -> S] /\ Ok(0, g) /\ 0 \in 0..n
    BY <2>1
  <2> HIDE DEF g
  <2>. QED BY <2>2
<1>2. ASSUME NEW k \in 0..(n - 1), k \in G PROVE k + 1 \in G
  <2>1. PICK g \in [0..k -> S] : Ok(k, g)
    BY <1>2
  <2> DEFINE h == [i \in 0..(k + 1) |-> IF i = k + 1 THEN F[k + 1][g[k]] ELSE g[i]]
  <2>2. F[k + 1][g[k]] \in S
    <3>1. k \in 0..k /\ k + 1 \in 1..n
      OBVIOUS
    <3>. QED  BY <3>1
  <2>3. h \in [0..(k + 1) -> S]
    BY <2>2
  <2>4. ASSUME NEW i \in 1..(k + 1) PROVE h[i] = F[i][h[i - 1]]
    <3>0. i - 1 \in 0..(k + 1) /\ i - 1 # k + 1 /\ i \in 0..(k + 1)
      OBVIOUS
    <3>3. h[i - 1] = g[i - 1]
      BY <3>0
    <3>1. CASE i = k + 1
      BY <3>1, <3>0, <3>3
    <3>2. CASE i # k + 1
      BY <3>2, <3>0, <3>3, <2>1
    <3>. QED BY <3>1, <3>2
  <2>5. h[0] = x0
    BY <2>1
  <2>6. k + 1 \in 0..n
    OBVIOUS
  <2>. HIDE DEF h
  <2>7. Ok(k + 1, h)
    BY <2>4, <2>5
  <2>. QED BY <2>3, <2>6, <2>7
<1>3. n \in G
  <2>1. \A k \in 0..(n - 1) : k \in G => k + 1 \in G
    BY <1>2
  <2>2. 0..n \subseteq G
    <3> HIDE DEF G
    <3>. QED BY <1>1, <2>1, SetInduction
  <2>. QED BY <2>2
<1>. QED BY <1>3 DEF Iterates
=============================================================================
