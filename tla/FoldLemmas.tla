----------------------------- MODULE FoldLemmas -----------------------------
(***************************************************************************)
(* What the proofs about loops need: the least of some numbers, counting   *)
(* up to a bound, and the results of FoldLeft, turn by turn.               *)
(***************************************************************************)
EXTENDS Integers, SequencesExt, WellFoundedInduction, TLAPS

LEMMA LeastNumber ==
  ASSUME NEW T, T \subseteq Nat, T # {}
  PROVE  \E m \in T : \A n \in T : ~(n < m)
<1>1. \E m \in T : \A n \in T : <<n, m>> \notin OpToRel(<, Nat)
  BY WFMin, NatLessThanWellFounded
<1> QED
  BY <1>1, Zenon DEF OpToRel

\* Induction up to a bound, over the numbers in a set.
LEMMA CountUp ==
  ASSUME NEW S, NEW k \in Nat, 0 \in S, \A n \in 0 .. k - 1 : n \in S => n + 1 \in S
  PROVE  \A n \in 0 .. k : n \in S
<1> DEFINE T == {n \in 0 .. k : n \notin S}
<1> SUFFICES ASSUME T # {} PROVE FALSE
  OBVIOUS
<1>1. T \subseteq Nat
  OBVIOUS
<1>2. PICK m \in T : \A n \in T : ~(n < m)
  <2> HIDE DEF T
  <2> QED
    BY <1>1, LeastNumber
<1>3. m \in 1 .. k /\ m - 1 \notin T /\ m \notin S
  BY <1>2
<1> QED
  BY <1>3

LEMMA MaxIn ==
  ASSUME NEW n \in Nat, NEW s \in SUBSET (1 .. n), s # {}
  PROVE  Max(s) \in s /\ \A m \in s : Max(s) >= m
<1> DEFINE T == {n - m : m \in s}
<1>1. T \subseteq Nat /\ T # {}
  <2>1. \A m \in s : n - m \in Nat
    OBVIOUS
  <2>2. PICK m : m \in s
    OBVIOUS
  <2>3. n - m \in T
    BY <2>2
  <2> QED
    BY <2>1, <2>3
<1>2. PICK t \in T : \A u \in T : ~(u < t)
  <2> HIDE DEF T
  <2> QED
    BY <1>1, LeastNumber
<1>3. PICK x \in s : t = n - x
  OBVIOUS
<1>4. \A y \in s : x >= y
  <2> TAKE y \in s
  <2>1. n - y \in T /\ x \in 1 .. n /\ y \in 1 .. n
    OBVIOUS
  <2> QED
    BY <1>2, <1>3, <2>1
<1> DEFINE P(z) == \A y \in s : z >= y
<1>5. (CHOOSE z \in s : P(z)) \in s /\ P(CHOOSE z \in s : P(z))
  <2>1. x \in s /\ P(x)
    BY <1>4
  <2> HIDE DEF P
  <2> QED
    BY <2>1, Zenon
<1> QED
  BY <1>5 DEF Max

LEMMA MaxOfPrefix ==
  ASSUME NEW n \in Nat, NEW s \in SUBSET (1 .. n), n \in s
  PROVE  Max(s) = n
<1>1. Max(s) \in s /\ Max(s) >= n
  BY MaxIn
<1>2. Max(s) \in 1 .. n
  BY <1>1
<1> QED
  BY <1>1, <1>2

------------------------------------------------------------------------------
(* Folds over a sequence                                                   *)

IsFold(H, base, k, step, f) ==
    /\ f \in [SUBSET (1 .. k) -> H]
    /\ \A s \in SUBSET (1 .. k) :
         f[s] = IF s = {} THEN base ELSE step[Max(s)][f[s \ {Max(s)}]]

Unfolds(H, base, k, step, f) ==
    /\ f[{}] = base
    /\ \A s \in SUBSET (1 .. k) : s # {} /\ f[s \ {Max(s)}] \in H =>
         f[s] = step[Max(s)][f[s \ {Max(s)}]]

\* The results of the turns of a loop, the first before any of them.
IsLoop(H, base, k, step, g) ==
    /\ g \in [0 .. k -> H] /\ g[0] = base
    /\ \A n \in 1 .. k : g[n] = step[n][g[n - 1]]

\* A function on the subsets of 1 .. k that takes the greatest element first:
\* what FoldLeft chooses exists.
LEMMA FoldExists ==
  ASSUME NEW H, NEW base \in H, NEW k \in Nat, NEW step \in [1 .. k -> [H -> H]]
  PROVE  \E f : IsFold(H, base, k, step, f)
<1> USE DEF IsFold
<1> DEFINE Folds(f, n) == IsFold(H, base, n, step, f)
           S == {n \in 0 .. k : \E f : Folds(f, n)}
<1>1. 0 \in S
  <2>1. Folds([s \in SUBSET (1 .. 0) |-> base], 0)
    BY SMT
  <2> QED
    <3> HIDE DEF Folds
    <3> QED
      BY <2>1
<1>2. ASSUME NEW n \in 0 .. k - 1, n \in S PROVE n + 1 \in S
  <2>1. PICK f : Folds(f, n)
    BY <1>2
  <2> DEFINE g == [s \in SUBSET (1 .. n + 1) |->
                     IF n + 1 \in s THEN step[n + 1][f[s \ {n + 1}]] ELSE f[s]]
  <2>2. ASSUME NEW s \in SUBSET (1 .. n + 1)
        PROVE  g[s] \in H /\ g[s] = IF s = {} THEN base ELSE step[Max(s)][g[s \ {Max(s)}]]
    <3>1. CASE n + 1 \in s
      <4>1. Max(s) = n + 1
        BY <3>1, MaxOfPrefix
      <4>2. s \ {n + 1} \in SUBSET (1 .. n) /\ s \ {n + 1} \in SUBSET (1 .. n + 1)
        BY SMT
      <4>3. g[s \ {n + 1}] = f[s \ {n + 1}] /\ f[s \ {n + 1}] \in H
        BY <2>1, <4>2
      <4>4. step[n + 1] \in [H -> H]
        OBVIOUS
      <4> QED
        BY <3>1, <4>1, <4>3, <4>4
    <3>2. CASE n + 1 \notin s
      <4>1. s \in SUBSET (1 .. n)
        BY <3>2
      <4>2. g[s] = f[s]
        BY <3>2
      <4>3. CASE s = {}
        BY <2>1, <4>1, <4>2, <4>3
      <4>4. CASE s # {}
        <5>1. n + 1 \notin s \ {Max(s)} /\ s \ {Max(s)} \in SUBSET (1 .. n + 1)
          BY <3>2
        <5>2. g[s \ {Max(s)}] = f[s \ {Max(s)}]
          BY <5>1
        <5> QED
          BY <2>1, <4>1, <4>2, <4>4, <5>2
      <4> QED
        BY <4>3, <4>4
    <3> QED
      BY <3>1, <3>2
  <2>3. Folds(g, n + 1)
    <3>1. g \in [SUBSET (1 .. n + 1) -> H]
      <4>1. \A s \in SUBSET (1 .. n + 1) : g[s] \in H
        BY <2>2
      <4> QED
        BY <4>1
    <3> QED
      BY <2>2, <3>1
  <2> QED
    <3> HIDE DEF Folds, g
    <3> QED
      BY <2>3
<1>3. k \in S
  <2> HIDE DEF S
  <2>1. \A n \in 0 .. k : n \in S
    BY <1>1, <1>2, CountUp, Zenon
  <2> QED
    BY <2>1
<1> QED
  BY <1>3

\* The values on the prefixes of what FoldLeft chooses.
LEMMA FoldPrefixes ==
  ASSUME NEW H, NEW base \in H, NEW k \in Nat, NEW step \in [1 .. k -> [H -> H]],
         NEW f, Unfolds(H, base, k, step, f)
  PROVE  \E g : IsLoop(H, base, k, step, g) /\ g[k] = f[1 .. k]
<1> USE DEF Unfolds
<1> DEFINE g == [n \in 0 .. k |-> f[1 .. n]]
           S == {n \in 0 .. k : f[1 .. n] \in H}
<1>1. ASSUME NEW n \in 1 .. k, f[1 .. n - 1] \in H
      PROVE  f[1 .. n] = step[n][f[1 .. n - 1]] /\ f[1 .. n] \in H
  <2>1. n \in Nat /\ 1 .. n \in SUBSET (1 .. n) /\ n \in 1 .. n
    OBVIOUS
  <2>2. Max(1 .. n) = n
    BY <2>1, MaxOfPrefix
  <2>3. (1 .. n) \ {n} = 1 .. n - 1
    <3>1. \A m : m \in (1 .. n) \ {n} <=> m \in 1 .. n - 1
      BY <2>1
    <3> QED
      BY <3>1, Zenon
  <2>4. 1 .. n \in SUBSET (1 .. k) /\ 1 .. n # {}
    BY <2>1
  <2>5. f[1 .. n] = step[n][f[1 .. n - 1]]
    BY <1>1, <2>2, <2>3, <2>4
  <2>6. step[n] \in [H -> H]
    OBVIOUS
  <2> QED
    BY <1>1, <2>5, <2>6
<1>2. f[1 .. 0] = base
  <2>1. 1 .. 0 = {}
    OBVIOUS
  <2> QED
    BY <2>1
<1>3. \A n \in 0 .. k : n \in S
  <2>1. 0 \in S
    BY <1>2
  <2>2. ASSUME NEW n \in 0 .. k - 1, n \in S PROVE n + 1 \in S
    <3>1. n + 1 \in 1 .. k /\ n + 1 \in 0 .. k /\ (n + 1) - 1 = n
      OBVIOUS
    <3>2. f[1 .. n] \in H
      BY <2>2
    <3> QED
      BY <1>1, <3>1, <3>2
  <2> HIDE DEF S
  <2> QED
    BY <2>1, <2>2, CountUp, Zenon
<1>4. g \in [0 .. k -> H] /\ g[0] = base /\ g[k] = f[1 .. k]
  BY <1>2, <1>3
<1>5. ASSUME NEW n \in 1 .. k PROVE g[n] = step[n][g[n - 1]]
  <2>1. n \in 0 .. k /\ n - 1 \in 0 .. k
    OBVIOUS
  <2>2. g[n] = f[1 .. n] /\ g[n - 1] = f[1 .. n - 1] /\ f[1 .. n - 1] \in H
    BY <1>3, <2>1
  <2> HIDE DEF g
  <2> QED
    BY <1>1, <2>2
<1> HIDE DEF g
<1> QED
  BY <1>4, <1>5 DEF IsLoop
=============================================================================
