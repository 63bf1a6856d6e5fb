---------------------------- MODULE SequenceLemmas ----------------------------
(***************************************************************************)
(* Induction over numbers, functions that are defined step by step, and    *)
(* what follows for the operators on sequences that the models of the      *)
(* files and of the messages are built from.                               *)
(*                                                                         *)
(* An induction is stated of a set of numbers: a proof that needs one      *)
(* defines the set of the numbers its claim holds for.                     *)
(***************************************************************************)
EXTENDS Integers, Sequences, SequencesExt, SequenceTheorems, WellFoundedInduction, TLAPS

\* Among numbers there is a smallest.
LEMMA SmallestNumber ==
  ASSUME NEW T \in SUBSET Nat, T # {}
  PROVE  \E x \in T : \A y \in T : x <= y
<1> DEFINE R == OpToRel(<, Nat)
<1>1. IsWellFoundedOn(R, Nat)
  BY NatLessThanWellFounded
<1>2. \A x, y \in Nat : y < x => <<y, x>> \in R
  BY DEF OpToRel
<1> HIDE DEF R
<1>3. PICK x \in T : \A y \in T : ~ (<<y, x>> \in R)
  BY <1>1, WFMin
<1>4. \A y \in T : ~ (y < x)
  BY <1>2, <1>3
<1> QED BY <1>4

\* Induction from 0 to n.
LEMMA InductionUpTo ==
  ASSUME NEW n \in Nat, NEW T, 0 \in T, \A i \in 0 .. n - 1 : i \in T => i + 1 \in T
  PROVE  \A i \in 0 .. n : i \in T
<1> DEFINE Missed == {i \in 0 .. n : i \notin T}
<1>1. SUFFICES ASSUME Missed # {} PROVE FALSE
  OBVIOUS
<1>2. PICK x \in Missed : \A y \in Missed : x <= y
  <2>1. Missed \in SUBSET Nat
    OBVIOUS
  <2> HIDE DEF Missed
  <2> QED BY <1>1, <2>1, SmallestNumber
<1>3. x - 1 \in 0 .. n - 1 /\ x - 1 \notin Missed
  BY <1>2
<1> QED BY <1>2, <1>3

\* Induction over all numbers.
LEMMA NumberInduction ==
  ASSUME NEW T, 0 \in T, \A i \in Nat : i \in T => i + 1 \in T
  PROVE  Nat \subseteq T
<1> SUFFICES ASSUME NEW n \in Nat PROVE n \in T
  OBVIOUS
<1>1. \A i \in 0 .. n - 1 : i \in T => i + 1 \in T
  OBVIOUS
<1>2. \A i \in 0 .. n : i \in T
  BY <1>1, InductionUpTo
<1> QED BY <1>2

\* Induction from all smaller numbers.
LEMMA CompleteInduction ==
  ASSUME NEW T, \A n \in Nat : (\A i \in 0 .. n - 1 : i \in T) => n \in T
  PROVE  Nat \subseteq T
<1> DEFINE Missed == {n \in Nat : n \notin T}
<1>1. SUFFICES ASSUME Missed # {} PROVE FALSE
  OBVIOUS
<1>2. PICK x \in Missed : \A y \in Missed : x <= y
  <2>1. Missed \in SUBSET Nat
    OBVIOUS
  <2> HIDE DEF Missed
  <2> QED BY <1>1, <2>1, SmallestNumber
<1>3. \A i \in 0 .. x - 1 : i \in T
  BY <1>2
<1> QED BY <1>2, <1>3

\* The function f on 0 .. n begins with start and goes on by step.
IsStepwise(f, n, S, start, step) ==
  /\ f \in [0 .. n -> S]
  /\ f[0] = start
  /\ \A i \in 1 .. n : f[i] = step[i][f[i - 1]]

\* A function is defined by its first value and by each value from the one before.
LEMMA StepwiseFunction ==
  ASSUME NEW n \in Nat, NEW S, NEW start \in S,
         NEW step, \A i \in 1 .. n : \A s \in S : step[i][s] \in S
  PROVE  \E f : IsStepwise(f, n, S, start, step)
<1> DEFINE Good(f, m) == f[0] = start /\ \A i \in 1 .. m : f[i] = step[i][f[i - 1]]
           T == {m \in 0 .. n : \E f \in [0 .. n -> S] : Good(f, m)}
<1>1. 0 \in T
  <2>1. Good([i \in 0 .. n |-> start], 0)
    OBVIOUS
  <2> HIDE DEF Good
  <2> QED BY <2>1
<1>2. ASSUME NEW m \in 0 .. n - 1, m \in T PROVE m + 1 \in T
  <2>1. PICK f \in [0 .. n -> S] : Good(f, m)
    BY <1>2
  <2> DEFINE g == [f EXCEPT ![m + 1] = step[m + 1][f[m]]]
  <2>2. m + 1 \in 1 .. n /\ m \in 0 .. n /\ m + 1 \in 0 .. n
    OBVIOUS
  <2>3. step[m + 1][f[m]] \in S
    BY <2>2
  <2>4. g \in [0 .. n -> S] /\ g[m + 1] = step[m + 1][f[m]]
        /\ \A i \in 0 .. n : i # m + 1 => g[i] = f[i]
    BY <2>2, <2>3
  <2> HIDE DEF g
  <2>5. Good(g, m + 1)
    <3>1. g[0] = start
      BY <2>1, <2>4
    <3>2. ASSUME NEW i \in 1 .. m + 1 PROVE g[i] = step[i][g[i - 1]]
      <4>1. CASE i = m + 1
        <5>1. g[i - 1] = f[m]
          BY <2>2, <2>4, <4>1
        <5> QED BY <2>4, <4>1, <5>1
      <4>2. CASE i # m + 1
        <5>1. i \in 1 .. m /\ i \in 0 .. n /\ i - 1 \in 0 .. n /\ i - 1 # m + 1
          BY <2>2, <4>2
        <5>2. g[i] = f[i] /\ g[i - 1] = f[i - 1]
          BY <2>4, <4>2, <5>1
        <5> QED BY <2>1, <5>1, <5>2
      <4> QED BY <4>1, <4>2
    <3> QED BY <3>1, <3>2
  <2> HIDE DEF Good
  <2> QED BY <2>2, <2>4, <2>5
<1>3. n \in T
  <2> HIDE DEF T
  <2>1. \A m \in 0 .. n - 1 : m \in T => m + 1 \in T
    BY <1>2
  <2>2. \A m \in 0 .. n : m \in T
    BY <1>1, <2>1, InductionUpTo
  <2> QED BY <2>2
<1>4. PICK f \in [0 .. n -> S] : Good(f, n)
  BY <1>3
<1> QED BY <1>4 DEF IsStepwise

-----------------------------------------------------------------------------
(* Order.                                                                  *)

\* The places 1 .. n can be put in the order of their keys.
IsOrder(f, n, key) ==
  /\ f \in [1 .. n -> 1 .. n]
  /\ IsInjective(f)
  /\ \A i \in 1 .. n - 1 : key[f[i]] <= key[f[i + 1]]

\* One place more is put in front of the first that has a larger key.
LEMMA OrderInsert ==
  ASSUME NEW n \in Nat, NEW key \in [1 .. n + 1 -> Nat], NEW f, IsOrder(f, n, key)
  PROVE  \E g : IsOrder(g, n + 1, key)
<1> DEFINE T == {k \in 1 .. n + 1 : k = n + 1 \/ key[n + 1] < key[f[k]]}
<1>0. f \in [1 .. n -> 1 .. n] /\ \A i, j \in 1 .. n : f[i] = f[j] => i = j
  BY DEF IsOrder, IsInjective
<1>1. T \in SUBSET Nat /\ n + 1 \in T
  OBVIOUS
<1>2. PICK k \in T : \A j \in T : k <= j
  <2> HIDE DEF T
  <2> QED BY <1>1, SmallestNumber
<1>3. k \in 1 .. n + 1 /\ (k = n + 1 \/ key[n + 1] < key[f[k]])
  BY <1>2
<1>4. ASSUME NEW i \in 1 .. n, i < k PROVE key[f[i]] <= key[n + 1]
  <2>1. i \notin T
    <3>1. i \in T => k <= i
      <4> HIDE DEF T
      <4> QED BY <1>2
    <3> QED BY <1>3, <1>4, <3>1
  <2>2. i \in 1 .. n + 1 /\ i # n + 1 /\ f[i] \in 1 .. n + 1 /\ n + 1 \in 1 .. n + 1
    <3>1. f[i] \in 1 .. n
      BY <1>0
    <3> QED BY <3>1
  <2>3. ~(key[n + 1] < key[f[i]])
    BY <2>1, <2>2
  <2> QED BY <2>2, <2>3
<1> HIDE DEF T
<1> DEFINE g == [i \in 1 .. n + 1 |->
                   IF i < k THEN f[i] ELSE IF i = k THEN n + 1 ELSE f[i - 1]]
<1>5. ASSUME NEW i \in 1 .. n + 1
      PROVE  /\ i < k => i \in 1 .. n /\ g[i] = f[i] /\ g[i] \in 1 .. n
             /\ i = k => g[i] = n + 1
             /\ i > k => i - 1 \in 1 .. n /\ g[i] = f[i - 1] /\ g[i] \in 1 .. n
  <2>1. CASE i < k
    <3>1. i \in 1 .. n /\ ~(i = k) /\ ~(i > k)
      BY <1>3, <2>1
    <3>2. g[i] = f[i]
      BY <2>1
    <3>3. f[i] \in 1 .. n
      BY <1>0, <3>1
    <3> HIDE DEF g
    <3> QED BY <3>1, <3>2, <3>3
  <2>2. CASE i = k
    BY <2>2, <1>3
  <2>3. CASE i > k
    <3>1. i - 1 \in 1 .. n /\ ~(i < k) /\ i # k
      BY <1>3, <2>3
    <3>2. g[i] = f[i - 1]
      BY <3>1
    <3>3. f[i - 1] \in 1 .. n /\ ~(i = k)
      BY <1>0, <3>1
    <3> HIDE DEF g
    <3> QED BY <3>1, <3>2, <3>3
  <2>4. i \in Int /\ k \in Int /\ (i < k \/ i = k \/ i > k)
    BY <1>3
  <2> HIDE DEF g
  <2> QED BY <2>1, <2>2, <2>3, <2>4, Zenon
<1>6. g \in [1 .. n + 1 -> 1 .. n + 1]
  <2>1. \A i \in 1 .. n + 1 : g[i] \in 1 .. n + 1
    <3> HIDE DEF g
    <3> QED BY <1>3, <1>5
  <2> QED BY <2>1
<1> HIDE DEF g
<1>7. ASSUME NEW i \in 1 .. n + 1, NEW j \in 1 .. n + 1, g[i] = g[j] PROVE i = j
  <2>1. CASE i = k \/ j = k
    BY <1>3, <1>5, <1>7, <2>1
  <2>2. CASE i < k /\ j < k
    BY <1>0, <1>5, <1>7, <2>2
  <2>3. CASE i > k /\ j > k
    <3>1. f[i - 1] = f[j - 1] /\ i - 1 \in 1 .. n /\ j - 1 \in 1 .. n
      BY <1>5, <1>7, <2>3
    <3>2. i - 1 = j - 1
      BY <1>0, <3>1
    <3> QED BY <3>2
  <2>4. CASE i < k /\ j > k
    <3>1. f[i] = f[j - 1] /\ i \in 1 .. n /\ j - 1 \in 1 .. n
      BY <1>5, <1>7, <2>4
    <3>2. i = j - 1
      BY <1>0, <3>1
    <3> QED BY <1>3, <2>4, <3>2
  <2>5. CASE i > k /\ j < k
    <3>1. f[i - 1] = f[j] /\ j \in 1 .. n /\ i - 1 \in 1 .. n
      BY <1>5, <1>7, <2>5
    <3>2. i - 1 = j
      BY <1>0, <3>1
    <3> QED BY <1>3, <2>5, <3>2
  <2> QED BY <1>3, <2>1, <2>2, <2>3, <2>4, <2>5
<1>8. ASSUME NEW i \in 1 .. n PROVE key[g[i]] <= key[g[i + 1]]
  <2>0. i \in 1 .. n + 1 /\ i + 1 \in 1 .. n + 1 /\ (i + 1) - 1 = i
    OBVIOUS
  <2>1. CASE i + 1 < k
    <3>1. g[i] = f[i] /\ g[i + 1] = f[i + 1] /\ i \in 1 .. n - 1
      BY <1>3, <1>5, <2>0, <2>1
    <3> QED BY <3>1 DEF IsOrder
  <2>2. CASE i + 1 = k
    <3>1. g[i] = f[i] /\ g[i + 1] = n + 1 /\ i < k
      BY <1>3, <1>5, <2>0, <2>2
    <3> QED BY <1>4, <3>1
  <2>3. CASE i = k
    <3>0. i + 1 > k /\ k # n + 1 /\ f[i] \in 1 .. n
      BY <1>0, <1>3, <2>3
    <3>1. g[i] = n + 1 /\ g[i + 1] = f[i] /\ f[i] \in 1 .. n /\ k # n + 1
      BY <1>5, <2>0, <2>3, <3>0
    <3>2. key[n + 1] < key[f[i]] /\ key[n + 1] \in Nat /\ key[f[i]] \in Nat
      BY <1>3, <2>3, <3>1
    <3> QED BY <3>1, <3>2
  <2>4. CASE i > k
    <3>1. g[i] = f[i - 1] /\ g[i + 1] = f[i] /\ i - 1 \in 1 .. n - 1
      BY <1>3, <1>5, <2>0, <2>4
    <3>2. (i - 1) + 1 = i
      OBVIOUS
    <3> QED BY <3>1, <3>2 DEF IsOrder
  <2> QED BY <1>3, <2>1, <2>2, <2>3, <2>4
<1>9. (n + 1) - 1 = n
  OBVIOUS
<1>10. IsOrder(g, n + 1, key)
  BY <1>6, <1>7, <1>8, <1>9 DEF IsOrder, IsInjective
<1> QED BY <1>10

LEMMA OrderExists ==
  ASSUME NEW n \in Nat, NEW key \in [1 .. n -> Nat]
  PROVE  \E f : IsOrder(f, n, key)
<1> DEFINE part(m) == [i \in 1 .. m |-> key[i]]
           T == {m \in 0 .. n : \E f : IsOrder(f, m, part(m))}
<1>1. 0 \in T
  <2>1. IsOrder([i \in 1 .. 0 |-> i], 0, part(0))
    BY DEF IsOrder, IsInjective
  <2> HIDE DEF part
  <2> QED BY <2>1
<1>2. ASSUME NEW m \in 0 .. n - 1, m \in T PROVE m + 1 \in T
  <2>1. PICK f : IsOrder(f, m, part(m))
    BY <1>2
  <2>2. f \in [1 .. m -> 1 .. m] /\ m \in Nat /\ m + 1 \in 0 .. n
    BY <2>1 DEF IsOrder
  <2>3. \A j \in 1 .. m : part(m + 1)[j] = part(m)[j]
    BY <2>2
  <2>4. IsOrder(f, m, part(m + 1))
    <3>a. \A i \in 1 .. m - 1 : i \in 1 .. m /\ i + 1 \in 1 .. m
      BY <2>2
    <3>1. \A i \in 1 .. m - 1 : f[i] \in 1 .. m /\ f[i + 1] \in 1 .. m
      BY <2>2, <3>a, Zenon
    <3> HIDE DEF part
    <3> QED BY <2>1, <2>3, <3>1 DEF IsOrder
  <2>5. part(m + 1) \in [1 .. m + 1 -> Nat]
    BY <2>2
  <2> HIDE DEF part
  <2>6. \E g : IsOrder(g, m + 1, part(m + 1))
    BY <2>2, <2>4, <2>5, OrderInsert
  <2> QED BY <2>2, <2>6
<1>3. n \in T
  <2> HIDE DEF T
  <2>1. \A m \in 0 .. n - 1 : m \in T => m + 1 \in T
    BY <1>2
  <2>2. \A m \in 0 .. n : m \in T
    BY <1>1, <2>1, InductionUpTo
  <2> QED BY <2>2
<1>4. part(n) = key
  OBVIOUS
<1> HIDE DEF part
<1> QED BY <1>3, <1>4

\* What increases from each place to the next increases.
LEMMA Increasing ==
  ASSUME NEW n \in Nat, NEW s \in [1 .. n -> Nat], \A i \in 1 .. n - 1 : s[i] < s[i + 1]
  PROVE  \A i, j \in 1 .. n : i < j => s[i] < s[j]
<1> SUFFICES ASSUME NEW i \in 1 .. n PROVE \A j \in 1 .. n : i < j => s[i] < s[j]
  OBVIOUS
<1> DEFINE T == {d \in Nat : i + d + 1 <= n => s[i] < s[i + d + 1]}
<1>1. 0 \in T
  OBVIOUS
<1>2. ASSUME NEW d \in Nat, d \in T PROVE d + 1 \in T
  <2> SUFFICES ASSUME i + (d + 1) + 1 <= n PROVE s[i] < s[i + (d + 1) + 1]
    OBVIOUS
  <2> DEFINE j == i + d + 1
  <2>1. j \in 1 .. n - 1 /\ j \in 1 .. n /\ j + 1 \in 1 .. n /\ i + (d + 1) + 1 = j + 1
    OBVIOUS
  <2>2. s[i] < s[j]
    BY <1>2, <2>1
  <2> HIDE DEF j, T
  <2>3. s[j] < s[j + 1] /\ s[i] \in Nat /\ s[j] \in Nat /\ s[j + 1] \in Nat
    BY <2>1
  <2>4. s[i] < s[j + 1]
    BY <2>2, <2>3
  <2> QED BY <2>1, <2>4
<1>3. Nat \subseteq T
  <2> HIDE DEF T
  <2> QED BY <1>1, <1>2, NumberInduction
<1> SUFFICES ASSUME NEW j \in 1 .. n, i < j PROVE s[i] < s[j]
  OBVIOUS
<1> DEFINE d == j - i - 1
<1>4. d \in Nat /\ i + d + 1 = j /\ i + d + 1 <= n
  OBVIOUS
<1> HIDE DEF d
<1>5. d \in T
  BY <1>3, <1>4
<1>6. s[i] < s[i + d + 1]
  BY <1>4, <1>5
<1> QED BY <1>4, <1>6

-----------------------------------------------------------------------------
(* FlattenSeq.                                                             *)

\* What FlattenSeq computes on the way.
IsFlattening(f, seqs) ==
  \A i \in 1 .. Len(seqs) : f[i] = IF i = 1 THEN seqs[i] ELSE f[i - 1] \o seqs[i]

\* FlattenSeq is the last of the sequences computed on the way.
LEMMA FlattenDef ==
  ASSUME NEW A, NEW seqs \in Seq(Seq(A)), Len(seqs) # 0
  PROVE  \E f \in [1 .. Len(seqs) -> Seq(A)] :
           IsFlattening(f, seqs) /\ FlattenSeq(seqs) = f[Len(seqs)]
<1> DEFINE n == Len(seqs)
           step == [i \in 1 .. n |-> [s \in Seq(A) |-> s \o seqs[i]]]
           Def(f) == [i \in 1 .. n |-> IF i = 1 THEN seqs[i] ELSE f[i - 1] \o seqs[i]]
           g == CHOOSE f : f = Def(f)
<1>1. n \in Nat /\ n # 0 /\ \A i \in 1 .. n : seqs[i] \in Seq(A)
  BY LenProperties, ElementOfSeq
<1>2. step \in [1 .. n -> [Seq(A) -> Seq(A)]]
  BY <1>1, ConcatProperties
<1>3. <<>> \in Seq(A)
  BY EmptySeq
<1> HIDE DEF step, n
<1>4. PICK f \in [0 .. n -> Seq(A)] :
        f[0] = <<>> /\ \A i \in 1 .. n : f[i] = step[i][f[i - 1]]
  <2> DEFINE S == Seq(A)
             start == <<>>
  <2>1. n \in Nat /\ start \in S /\ \A i \in 1 .. n : \A s \in S : step[i][s] \in S
    BY <1>1, <1>2, <1>3
  <2> HIDE DEF S, start
  <2>2. PICK f : IsStepwise(f, n, S, start, step)
    BY <2>1, StepwiseFunction
  <2> QED BY <2>2 DEF S, start, IsStepwise
<1>5. ASSUME NEW i \in 1 .. n PROVE f[i] = f[i - 1] \o seqs[i] /\ f[i - 1] \in Seq(A)
  <2>1. f[i - 1] \in Seq(A)
    BY <1>1
  <2>2. step[i][f[i - 1]] = f[i - 1] \o seqs[i]
    BY <2>1 DEF step
  <2> QED BY <1>4, <2>1, <2>2
<1>6. f[1] = seqs[1]
  <2>1. 1 \in 1 .. n /\ 1 - 1 = 0
    BY <1>1
  <2>2. f[1] = <<>> \o seqs[1] /\ seqs[1] \in Seq(A)
    BY <1>1, <1>4, <1>5, <2>1
  <2> QED BY <2>2, ConcatEmptySeq
<1> DEFINE h == [i \in 1 .. n |-> f[i]]
<1>7. h = Def(h)
  <2>1. ASSUME NEW i \in 1 .. n PROVE h[i] = IF i = 1 THEN seqs[i] ELSE h[i - 1] \o seqs[i]
    <3>1. CASE i = 1
      BY <1>6, <3>1
    <3>2. CASE i # 1
      <4>1. i - 1 \in 1 .. n
        BY <1>1, <3>2
      <4> QED BY <1>5, <3>2, <4>1
    <3> QED BY <3>1, <3>2
  <2> QED BY <2>1
<1> HIDE DEF h, Def
<1>8. g = Def(g)
  BY <1>7, Zenon
<1>9. FlattenSeq(seqs) = g[n]
  BY <1>1, Zenon DEF FlattenSeq, Def, n
<1> HIDE DEF g
<1>10. IsFlattening(g, seqs)
  BY <1>8 DEF Def, IsFlattening, n
<1>11. g \in [1 .. n -> Seq(A)]
  <2> DEFINE T == {m \in 0 .. n : \A i \in 1 .. m : g[i] \in Seq(A)}
  <2>1. 0 \in T
    BY <1>1
  <2>2. ASSUME NEW m \in 0 .. n - 1, m \in T PROVE m + 1 \in T
    <3>1. g[m + 1] \in Seq(A)
      <4>1. CASE m = 0
        BY <1>1, <1>10, <4>1 DEF IsFlattening, n
      <4>2. CASE m # 0
        <5>1. m \in 1 .. n /\ m + 1 \in 1 .. n /\ m + 1 # 1 /\ m \in 1 .. m
          BY <1>1, <4>2
        <5>2. g[m + 1] = g[m] \o seqs[m + 1]
          <6>1. (m + 1) - 1 = m
            OBVIOUS
          <6> QED BY <1>10, <5>1, <6>1 DEF IsFlattening, n
        <5>3. g[m] \in Seq(A) /\ seqs[m + 1] \in Seq(A)
          BY <1>1, <2>2, <5>1
        <5> QED BY <5>2, <5>3, ConcatProperties
      <4> QED BY <4>1, <4>2
    <3>2. \A i \in 1 .. m + 1 : i \in 1 .. m \/ i = m + 1
      OBVIOUS
    <3>3. \A i \in 1 .. m + 1 : g[i] \in Seq(A)
      BY <2>2, <3>1, <3>2
    <3>4. m + 1 \in 0 .. n
      BY <1>1
    <3> QED BY <3>3, <3>4
  <2>3. n \in T
    <3> HIDE DEF T
    <3>1. \A m \in 0 .. n - 1 : m \in T => m + 1 \in T
      BY <2>2
    <3>2. \A m \in 0 .. n : m \in T
      BY <1>1, <2>1, <3>1, InductionUpTo
    <3> QED BY <1>1, <3>2
  <2>4. DOMAIN g = 1 .. n /\ g = [i \in 1 .. n |-> g[i]]
    BY <1>8 DEF Def
  <2> QED BY <2>3, <2>4
<1> QED BY <1>9, <1>10, <1>11 DEF n

LEMMA FlattenType ==
  ASSUME NEW A, NEW seqs \in Seq(Seq(A))
  PROVE  FlattenSeq(seqs) \in Seq(A)
<1>1. CASE Len(seqs) = 0
  <2>1. FlattenSeq(seqs) = seqs /\ seqs = <<>>
    BY <1>1, EmptySeq DEF FlattenSeq
  <2> QED BY <2>1, EmptySeq
<1>2. CASE Len(seqs) # 0
  <2>1. PICK f \in [1 .. Len(seqs) -> Seq(A)] : FlattenSeq(seqs) = f[Len(seqs)]
    BY <1>2, FlattenDef
  <2>2. Len(seqs) \in 1 .. Len(seqs)
    BY <1>2, LenProperties
  <2> QED BY <2>1, <2>2
<1> QED BY <1>1, <1>2

LEMMA FlattenEmpty == FlattenSeq(<<>>) = <<>>
BY DEF FlattenSeq

\* One more sequence at the end.
LEMMA FlattenAppend ==
  ASSUME NEW A, NEW seqs \in Seq(Seq(A)), NEW e \in Seq(A)
  PROVE  FlattenSeq(Append(seqs, e)) = FlattenSeq(seqs) \o e
<1> DEFINE n == Len(seqs)
           more == Append(seqs, e)
<1>1. /\ n \in Nat
      /\ more \in Seq(Seq(A))
      /\ Len(more) = n + 1
      /\ \A i \in 1 .. n : more[i] = seqs[i]
      /\ more[n + 1] = e
  BY LenProperties, AppendProperties
<1>2. Len(more) # 0 /\ n + 1 \in 1 .. n + 1
  BY <1>1
<1> HIDE DEF n, more
<1>3. PICK g \in [1 .. Len(more) -> Seq(A)] :
        IsFlattening(g, more) /\ FlattenSeq(more) = g[Len(more)]
  BY <1>1, <1>2, FlattenDef
<1>4. CASE n = 0
  <2>1. seqs = <<>> /\ FlattenSeq(seqs) = <<>>
    BY <1>4, EmptySeq, FlattenEmpty DEF n
  <2>2. FlattenSeq(more) = e
    BY <1>1, <1>2, <1>3, <1>4 DEF IsFlattening
  <2> QED BY <2>1, <2>2, ConcatEmptySeq DEF more
<1>5. CASE n # 0
  <2>1. PICK f \in [1 .. n -> Seq(A)] : IsFlattening(f, seqs) /\ FlattenSeq(seqs) = f[n]
    BY <1>5, FlattenDef DEF n
  <2> DEFINE T == {m \in 0 .. n : \A i \in 1 .. m : f[i] = g[i]}
  <2>2. 0 \in T
    BY <1>1
  <2>3. ASSUME NEW m \in 0 .. n - 1, m \in T PROVE m + 1 \in T
    <3>1. /\ m + 1 \in 1 .. n /\ m + 1 \in 0 .. n /\ (m + 1) - 1 = m
          /\ m + 1 \in 1 .. n + 1
      BY <1>1
    <3>2. f[m + 1] = IF m + 1 = 1 THEN seqs[m + 1] ELSE f[m] \o seqs[m + 1]
      BY <2>1, <3>1 DEF IsFlattening, n
    <3>3. g[m + 1] = IF m + 1 = 1 THEN seqs[m + 1] ELSE g[m] \o seqs[m + 1]
      BY <1>1, <1>3, <3>1 DEF IsFlattening
    <3>4. f[m + 1] = g[m + 1]
      <4>1. CASE m = 0
        BY <3>2, <3>3, <4>1
      <4>2. CASE m # 0
        <5>1. f[m] = g[m] /\ m + 1 # 1
          BY <2>3, <4>2
        <5> QED BY <3>2, <3>3, <5>1
      <4> QED BY <4>1, <4>2
    <3>5. \A i \in 1 .. m + 1 : i \in 1 .. m \/ i = m + 1
      OBVIOUS
    <3>6. \A i \in 1 .. m + 1 : f[i] = g[i]
      BY <2>3, <3>4, <3>5
    <3> QED BY <3>1, <3>6
  <2>4. n \in T
    <3> HIDE DEF T
    <3>1. \A m \in 0 .. n - 1 : m \in T => m + 1 \in T
      BY <2>3
    <3>2. \A m \in 0 .. n : m \in T
      BY <1>1, <2>2, <3>1, InductionUpTo
    <3> QED BY <1>1, <3>2
  <2>5. f[n] = g[n]
    BY <1>1, <1>5, <2>4
  <2>6. g[n + 1] = g[n] \o e
    <3>1. (n + 1) - 1 = n /\ n + 1 # 1
      BY <1>1, <1>5
    <3> QED BY <1>1, <1>2, <1>3, <3>1 DEF IsFlattening
  <2> QED BY <1>1, <1>3, <2>1, <2>5, <2>6 DEF more
<1> QED BY <1>4, <1>5

\* One more element of a prefix.
LEMMA PrefixAppend ==
  ASSUME NEW S, NEW s \in Seq(S), NEW i \in 1 .. Len(s)
  PROVE  /\ SubSeq(s, 1, i) \in Seq(S) /\ SubSeq(s, 1, i - 1) \in Seq(S)
         /\ s[i] \in S
         /\ SubSeq(s, 1, i) = Append(SubSeq(s, 1, i - 1), s[i])
<1>1. Len(s) \in Nat /\ i \in Nat /\ i - 1 \in Nat /\ \A j \in 1 .. Len(s) : s[j] \in S
  BY LenProperties, ElementOfSeq
<1>2. (\A j \in 1 .. i : s[j] \in S) /\ \A j \in 1 .. i - 1 : s[j] \in S
  BY <1>1
<1>3. /\ SubSeq(s, 1, i) \in Seq(S)
      /\ Len(SubSeq(s, 1, i)) = IF 1 <= i THEN i - 1 + 1 ELSE 0
      /\ \A j \in 1 .. i - 1 + 1 : SubSeq(s, 1, i)[j] = s[1 + j - 1]
  BY <1>1, <1>2, SubSeqProperties
<1>4. /\ SubSeq(s, 1, i - 1) \in Seq(S)
      /\ Len(SubSeq(s, 1, i - 1)) = IF 1 <= i - 1 THEN (i - 1) - 1 + 1 ELSE 0
      /\ \A j \in 1 .. (i - 1) - 1 + 1 : SubSeq(s, 1, i - 1)[j] = s[1 + j - 1]
  BY <1>1, <1>2, SubSeqProperties
<1> DEFINE t == SubSeq(s, 1, i - 1)
           u == SubSeq(s, 1, i)
<1>5. Len(u) = i /\ Len(t) = i - 1
  BY <1>1, <1>3, <1>4
<1>6. (\A j \in 1 .. i : u[j] = s[j]) /\ \A j \in 1 .. i - 1 : t[j] = s[j]
  <2>1. \A j \in 1 .. i : 1 + j - 1 = j
    OBVIOUS
  <2> QED BY <1>1, <1>3, <1>4, <2>1
<1> HIDE DEF t, u
<1>7. /\ Append(t, s[i]) \in Seq(S)
      /\ Len(Append(t, s[i])) = i
      /\ \A j \in 1 .. i - 1 : Append(t, s[i])[j] = t[j]
      /\ Append(t, s[i])[i] = s[i]
  BY <1>1, <1>4, <1>5, AppendProperties DEF t
<1>8. \A j \in 1 .. i : u[j] = Append(t, s[i])[j]
  BY <1>1, <1>6, <1>7
<1>9. u = Append(t, s[i])
  BY <1>3, <1>5, <1>7, <1>8, SeqEqual DEF u
<1> QED BY <1>1, <1>3, <1>4, <1>9 DEF t, u

\* FlattenSeq, one sequence after the other.
LEMMA FlattenPrefix ==
  ASSUME NEW A, NEW seqs \in Seq(Seq(A)), NEW i \in 1 .. Len(seqs)
  PROVE  /\ FlattenSeq(SubSeq(seqs, 1, i - 1)) \in Seq(A)
         /\ FlattenSeq(SubSeq(seqs, 1, i)) = FlattenSeq(SubSeq(seqs, 1, i - 1)) \o seqs[i]
<1>1. /\ SubSeq(seqs, 1, i - 1) \in Seq(Seq(A))
      /\ seqs[i] \in Seq(A)
      /\ SubSeq(seqs, 1, i) = Append(SubSeq(seqs, 1, i - 1), seqs[i])
  BY PrefixAppend
<1> QED BY <1>1, FlattenType, FlattenAppend

=============================================================================
