---------------------------- MODULE FiniteInduction ----------------------------
(* What the library's rules of induction cannot be used for, since they take an *)
(* operator as a parameter: induction over numbers and finite sets, the sums of *)
(* the community modules over a finite set, and functions that are made step by *)
(* step, as the recursive functions over a sequence are.                        *)
EXTENDS Integers, FiniteSets, FiniteSetTheorems, SequenceTheorems, TLAPS

-----------------------------------------------------------------------------
(* Induction over numbers and finite sets, and sums.  A function that adds 1 and
   misses 0 would be one-to-one from the numbers of a set onto fewer: so what holds of
   0 and is passed on holds of every number (the pigeonhole principle, no rule of
   induction is needed). *)

\* Induction over the numbers: a first number that is missing would leave as many
\* numbers below it as there are successors of these.
LEMMA NatInd ==
  ASSUME NEW P, 0 \in P, \A k \in Nat : k \in P => k + 1 \in P
  PROVE  \A n \in Nat : n \in P
  <1> SUFFICES ASSUME NEW n \in Nat, n \notin P PROVE FALSE
    OBVIOUS
  <1> DEFINE A == {k \in 0..n : k \in P}
             f == [k \in A |-> k + 1]
  <1>1. IsFiniteSet(A) /\ IsFiniteSet(A \ {0}) /\ Cardinality(A) \in Nat
        /\ Cardinality(A \ {0}) = Cardinality(A) - 1
    <2>1. IsFiniteSet(0..n)
      BY FS_Interval
    <2>2. A \in SUBSET (0..n)
      OBVIOUS
    <2>3. IsFiniteSet(A)
      BY ONLY <2>1, <2>2, FS_Subset
    <2>4. 0 \in A
      OBVIOUS
    <2> QED
      BY <2>3, <2>4, FS_RemoveElement, FS_CardinalityType
  <1>2. f \in [A -> A \ {0}]
    OBVIOUS
  <1>3. PICK x, y \in A : x # y /\ f[x] = f[y]
    <2> HIDE DEF f, A
    <2>1. Cardinality(A \ {0}) < Cardinality(A)
      BY <1>1
    <2> QED
      BY <1>1, <1>2, <2>1, FS_PigeonHole
  <1> QED
    BY <1>3

\* A set of numbers has a least one.
LEMMA NatMin ==
  ASSUME NEW T, T \subseteq Nat, T # {}
  PROVE  \E m \in T : \A x \in T : m <= x
  <1> SUFFICES ASSUME \A m \in T : \E x \in T : ~(m <= x) PROVE FALSE
    OBVIOUS
  <1> DEFINE P == {n \in Nat : \A x \in T : n <= x}
  <1>1. 0 \in P
    OBVIOUS
  <1>2. ASSUME NEW n \in Nat, n \in P PROVE n + 1 \in P
    BY <1>2
  <1>3. \A n \in Nat : n \in P
    <2> HIDE DEF P
    <2> QED
      BY <1>1, <1>2, NatInd
  <1>4. PICK x \in T : x \in Nat
    OBVIOUS
  <1>5. x + 1 \in P
    BY <1>3, <1>4
  <1> QED
    BY <1>4, <1>5

\* Some member of a set.
Picked(s) == CHOOSE x \in s : TRUE
\* A sum over s with that member taken out first.
SumStep(f, g, s) == IF s = {} THEN 0 ELSE f[Picked(s)] + g[s \ {Picked(s)}]
\* The sums over all subsets of S.
Sums(g, f, S) == g = [s \in SUBSET S |-> SumStep(f, g, s)]

\* What is true of the subsets of S with fewer members is true of all.
LEMMA SizeInd ==
  ASSUME NEW S, IsFiniteSet(S), NEW P,
         \A s \in SUBSET S : (s = {} \/ (Picked(s) \in s /\ s \ {Picked(s)} \in P)) => s \in P
  PROVE  \A s \in SUBSET S : s \in P
  <1> DEFINE N == {n \in Nat : \A s \in SUBSET S : Cardinality(s) <= n => s \in P}
  <1>1. \A s \in SUBSET S : /\ IsFiniteSet(s) /\ Cardinality(s) \in Nat
                            /\ (Cardinality(s) = 0 <=> s = {})
                            /\ \A x \in s : Cardinality(s \ {x}) = Cardinality(s) - 1
    BY FS_Subset, FS_CardinalityType, FS_EmptySet, FS_RemoveElement
  <1>2. \A s \in SUBSET S : s # {} => Picked(s) \in s
    BY DEF Picked
  <1>3. 0 \in N
    BY <1>1
  <1>4. ASSUME NEW n \in Nat, n \in N PROVE n + 1 \in N
    <2> SUFFICES ASSUME NEW s \in SUBSET S, Cardinality(s) <= n + 1 PROVE s \in P
      OBVIOUS
    <2>1. CASE s = {}
      BY <2>1
    <2>2. CASE s # {}
      <3>1. Picked(s) \in s /\ s \ {Picked(s)} \in SUBSET S /\ Cardinality(s \ {Picked(s)}) <= n
        BY <1>1, <1>2, <2>2
      <3> QED
        BY <1>4, <3>1
    <2> QED
      BY <2>1, <2>2
  <1>5. \A n \in Nat : n \in N
    <2> HIDE DEF N
    <2> QED
      BY <1>3, <1>4, NatInd
  <1> QED
    BY <1>1, <1>5

\* The sums over the subsets of a finite set are a function.
LEMMA SumsExist ==
  ASSUME NEW S, IsFiniteSet(S), NEW f, \A x \in S : f[x] \in Int
  PROVE  \E g : Sums(g, f, S)
  <1> DEFINE N == {n \in Nat : \E g \in [SUBSET S -> Int] :
                     \A s \in SUBSET S : Cardinality(s) <= n => g[s] = SumStep(f, g, s)}
  <1>1. \A s \in SUBSET S : /\ IsFiniteSet(s) /\ Cardinality(s) \in Nat
                            /\ (Cardinality(s) = 0 <=> s = {})
                            /\ \A x \in s : Cardinality(s \ {x}) = Cardinality(s) - 1
    BY FS_Subset, FS_CardinalityType, FS_EmptySet, FS_RemoveElement
  <1>2. \A s \in SUBSET S : s # {} => Picked(s) \in s /\ Picked(s) \in S /\ s \ {Picked(s)} \in SUBSET S
    BY DEF Picked
  <1>3. ASSUME NEW g \in [SUBSET S -> Int], NEW s \in SUBSET S PROVE SumStep(f, g, s) \in Int
    BY <1>2 DEF SumStep
  <1>4. 0 \in N
    <2>1. PICK g : g = [s \in SUBSET S |-> 0]
      OBVIOUS
    <2>2. g \in [SUBSET S -> Int]
      BY <2>1
    <2>3. ASSUME NEW s \in SUBSET S, Cardinality(s) <= 0 PROVE g[s] = SumStep(f, g, s)
      BY <1>1, <2>1, <2>3 DEF SumStep
    <2> QED
      BY <2>2, <2>3
  <1>5. ASSUME NEW n \in Nat, n \in N PROVE n + 1 \in N
    <2>1. PICK g \in [SUBSET S -> Int] :
             \A s \in SUBSET S : Cardinality(s) <= n => g[s] = SumStep(f, g, s)
      BY <1>5
    <2> DEFINE h == [s \in SUBSET S |-> SumStep(f, g, s)]
    <2>2. h \in [SUBSET S -> Int]
      BY <1>3
    <2>3. ASSUME NEW s \in SUBSET S, Cardinality(s) <= n + 1 PROVE h[s] = SumStep(f, h, s)
      <3>1. CASE s = {}
        BY <3>1 DEF SumStep
      <3>2. CASE s # {}
        <4>1. PICK r : r = s \ {Picked(s)}
          OBVIOUS
        <4>2. r \in SUBSET S /\ Cardinality(r) <= n
          BY <1>1, <1>2, <2>3, <3>2, <4>1
        <4>3. h[r] = g[r]
          BY <2>1, <4>2
        <4> QED
          BY <3>2, <4>1, <4>3 DEF SumStep
      <3> QED
        BY <3>1, <3>2
    <2> HIDE DEF h
    <2> QED
      BY <2>2, <2>3
  <1>6. \A n \in Nat : n \in N
    <2> HIDE DEF N
    <2> QED
      BY <1>4, <1>5, NatInd
  <1>7. PICK g \in [SUBSET S -> Int] :
           \A s \in SUBSET S : Cardinality(s) <= Cardinality(S) => g[s] = SumStep(f, g, s)
    BY <1>1, <1>6
  <1>8. \A s \in SUBSET S : Cardinality(s) <= Cardinality(S)
    BY FS_Subset
  <1>9. g = [s \in SUBSET S |-> SumStep(f, g, s)]
    BY <1>7, <1>8
  <1> QED
    BY <1>9 DEF Sums

\* It does not matter which member is taken first.
LEMMA SumAny ==
  ASSUME NEW S, IsFiniteSet(S), NEW f, \A x \in S : f[x] \in Int, NEW g, Sums(g, f, S)
  PROVE  \A s \in SUBSET S : g[s] \in Int /\ \A x \in s : g[s] = f[x] + g[s \ {x}]
  <1> DEFINE Fine(s) == g[s] \in Int /\ \A x \in s : g[s] = f[x] + g[s \ {x}]
             N == {n \in Nat : \A s \in SUBSET S : Cardinality(s) <= n => Fine(s)}
  <1>1. \A s \in SUBSET S : /\ IsFiniteSet(s) /\ Cardinality(s) \in Nat
                            /\ (Cardinality(s) = 0 <=> s = {})
                            /\ \A x \in s : Cardinality(s \ {x}) = Cardinality(s) - 1
    BY FS_Subset, FS_CardinalityType, FS_EmptySet, FS_RemoveElement
  <1>2. \A s \in SUBSET S : g[s] = SumStep(f, g, s)
    BY DEF Sums
  <1>3. Fine({})
    <2>1. {} \in SUBSET S
      OBVIOUS
    <2>2. g[{}] = 0
      BY <1>2, <2>1 DEF SumStep
    <2> QED
      BY <2>2
  <1>4. 0 \in N
    <2>1. ASSUME NEW s \in SUBSET S, Cardinality(s) <= 0 PROVE Fine(s)
      <3>1. s = {}
        BY <1>1, <2>1
      <3> HIDE DEF Fine
      <3> QED
        BY <1>3, <3>1
    <2> QED
      BY <2>1
  <1>5. ASSUME NEW n \in Nat, n \in N PROVE n + 1 \in N
    <2> SUFFICES ASSUME NEW s \in SUBSET S, Cardinality(s) <= n + 1, s # {} PROVE Fine(s)
      BY <1>3
    <2>1. PICK y, r : y = Picked(s) /\ r = s \ {y}
      OBVIOUS
    <2>2. y \in s /\ r \in SUBSET S /\ Cardinality(r) <= n
      BY <1>1, <2>1 DEF Picked
    <2>3. Fine(r)
      BY <1>5, <2>2
    <2>4. g[s] = f[y] + g[r]
      BY <1>2, <2>1 DEF SumStep
    <2>5. f[y] \in Int /\ g[r] \in Int
      BY <2>2, <2>3
    <2>6. ASSUME NEW x \in s PROVE g[s] = f[x] + g[s \ {x}]
      <3>1. CASE x = y
        BY <2>1, <2>4, <3>1
      <3>2. CASE x # y
        <4>1. PICK q, t : q = s \ {x} /\ t = r \ {x}
          OBVIOUS
        <4>2. q \in SUBSET S /\ Cardinality(q) <= n /\ y \in q /\ q \ {y} = t /\ x \in r /\ t \in SUBSET S
          BY <1>1, <2>1, <2>2, <3>2, <4>1
        <4>3. t \in SUBSET S /\ Cardinality(t) <= n
          <5>1. Cardinality(t) = Cardinality(r) - 1 /\ Cardinality(r) \in Nat
            BY <1>1, <2>2, <4>1, <4>2
          <5> QED
            BY <2>2, <4>2, <5>1
        <4>4. Fine(q) /\ Fine(t)
          BY <1>5, <4>2, <4>3
        <4>5. g[q] = f[y] + g[t] /\ g[r] = f[x] + g[t] /\ g[t] \in Int /\ f[x] \in Int
          BY <2>3, <4>1, <4>2, <4>4
        <4> QED
          BY <2>4, <2>5, <4>1, <4>5
      <3> QED
        BY <3>1, <3>2
    <2> QED
      BY <2>4, <2>5, <2>6
  <1>6. \A n \in Nat : n \in N
    <2> HIDE DEF N
    <2> QED
      BY <1>4, <1>5, NatInd
  <1> QED
    BY <1>1, <1>6

\* A sum over a part is the same, whatever it is a part of.
LEMMA SumsAgree ==
  ASSUME NEW S, NEW T \in SUBSET S, IsFiniteSet(T), NEW f, NEW g, NEW h, Sums(g, f, S), Sums(h, f, T)
  PROVE  \A s \in SUBSET T : h[s] = g[s]
  <1> DEFINE P == {s \in SUBSET T : h[s] = g[s]}
  <1>1. ASSUME NEW s \in SUBSET T, s = {} \/ (Picked(s) \in s /\ s \ {Picked(s)} \in P) PROVE s \in P
    <2>1. h[s] = SumStep(f, h, s) /\ g[s] = SumStep(f, g, s)
      BY DEF Sums
    <2> QED
      BY <1>1, <2>1 DEF SumStep
  <1>2. \A s \in SUBSET T : s \in P
    <2> HIDE DEF P
    <2> QED
      BY <1>1, SizeInd
  <1> QED
    BY <1>2

\* The sum over a set is the sum over a part of it and the sum over the rest.
LEMMA SumSplit ==
  ASSUME NEW S, IsFiniteSet(S), NEW A \in SUBSET S, NEW f, \A x \in S : f[x] \in Int, NEW g, Sums(g, f, S)
  PROVE  g[A] \in Int /\ g[S \ A] \in Int /\ g[S] = g[A] + g[S \ A]
  <1> DEFINE B == S \ A
             P == {s \in SUBSET B : g[A \cup s] = g[A] + g[s]}
  <1>1. \A s \in SUBSET S : g[s] \in Int /\ \A x \in s : g[s] = f[x] + g[s \ {x}]
    BY SumAny
  <1>2. IsFiniteSet(B)
    BY FS_Subset
  <1>3. g[{}] = 0
    BY DEF Sums, SumStep
  <1>4. ASSUME NEW s \in SUBSET B, s = {} \/ (Picked(s) \in s /\ s \ {Picked(s)} \in P) PROVE s \in P
    <2>1. CASE s = {}
      <3>1. A \cup s = A /\ g[A] \in Int
        BY <1>1, <2>1
      <3> QED
        BY <1>3, <2>1, <3>1
    <2>2. CASE s # {}
      <3>1. PICK x, r : x = Picked(s) /\ r = s \ {x}
        OBVIOUS
      <3>2. x \in s /\ x \in S /\ r \in P /\ r \in SUBSET S /\ s \in SUBSET S
        BY <1>4, <2>2, <3>1
      <3>3. A \cup s \in SUBSET S /\ x \in A \cup s /\ (A \cup s) \ {x} = A \cup r
        BY <3>1, <3>2
      <3>4. g[A \cup s] = f[x] + g[A \cup r]
        BY <1>1, <3>3
      <3>5. g[s] = f[x] + g[r]
        BY <1>1, <3>1, <3>2
      <3>6. g[A \cup r] = g[A] + g[r]
        BY <3>2
      <3>7. f[x] \in Int /\ g[A] \in Int /\ g[r] \in Int
        BY <1>1, <3>2
      <3>8. g[A \cup s] = g[A] + g[s]
        BY ONLY <3>4, <3>5, <3>6, <3>7
      <3> QED
        BY <3>8
    <2> QED
      BY <2>1, <2>2
  <1>5. \A s \in SUBSET B : s \in P
    <2> HIDE DEF P, B
    <2> QED
      BY <1>2, <1>4, SizeInd
  <1>6. A \cup B = S /\ B \in P
    BY <1>5
  <1> QED
    BY <1>1, <1>6

-----------------------------------------------------------------------------
(* Steps. *)

\* What is made step by step, from one value to the next, exists and stays in its set.
Steps(g, N, a, F) == g = [n \in 0 .. N |-> IF n = 0 THEN a ELSE F[<<n, g[n - 1]>>]]
\* Such steps exist.
LEMMA StepsExist ==
  ASSUME NEW N \in Nat, NEW A, NEW a \in A, NEW F \in [(1 .. N) \X A -> A]
  PROVE  \E g : g \in [0 .. N -> A] /\ Steps(g, N, a, F)
  <1> DEFINE body(g, n) == IF n = 0 THEN a ELSE F[<<n, g[n - 1]>>]
             P == {k \in Nat : \E g \in [0 .. N -> A] : \A n \in 0 .. N : n <= k => g[n] = body(g, n)}
  <1>1. 0 \in P
    <2>1. PICK g : g = [n \in 0 .. N |-> a]
      OBVIOUS
    <2>2. g \in [0 .. N -> A] /\ \A n \in 0 .. N : n <= 0 => g[n] = body(g, n)
      BY <2>1
    <2> QED
      BY <2>2
  <1>2. ASSUME NEW k \in Nat, k \in P PROVE k + 1 \in P
    <2>1. PICK g \in [0 .. N -> A] : \A n \in 0 .. N : n <= k => g[n] = body(g, n)
      BY <1>2
    <2>2. PICK h : h = [n \in 0 .. N |-> body(g, n)]
      OBVIOUS
    <2>3. h \in [0 .. N -> A]
      BY <2>2
    <2>4. ASSUME NEW n \in 0 .. N, n <= k + 1 PROVE h[n] = body(h, n)
      <3>1. CASE n = 0
        BY <2>2, <3>1
      <3>2. CASE n # 0
        <4>1. n - 1 \in 0 .. N /\ n - 1 <= k
          BY <2>4, <3>2
        <4>2. h[n - 1] = g[n - 1]
          BY <2>1, <2>2, <4>1
        <4> QED
          BY <2>2, <3>2, <4>2
      <3> QED
        BY <3>1, <3>2
    <2> QED
      BY <2>3, <2>4
  <1>3. \A k \in Nat : k \in P
    <2> HIDE DEF P
    <2> QED
      BY <1>1, <1>2, NatInd
  <1>4. PICK g \in [0 .. N -> A] : \A n \in 0 .. N : n <= N => g[n] = body(g, n)
    BY <1>3
  <1>5. g = [n \in 0 .. N |-> body(g, n)]
    BY <1>4
  <1> QED
    BY <1>5 DEF Steps

\* Steps that start in a set and do not leave it stay in it.
LEMMA StepsIn ==
  ASSUME NEW N \in Nat, NEW A, NEW g,
         0 \in 0 .. N => g[0] \in A,
         \A n \in 1 .. N : g[n - 1] \in A => g[n] \in A
  PROVE  \A n \in 0 .. N : g[n] \in A
  <1> DEFINE P == {n \in Nat : n <= N => g[n] \in A}
  <1>1. 0 \in P
    OBVIOUS
  <1>2. ASSUME NEW k \in Nat, k \in P PROVE k + 1 \in P
    <2> SUFFICES ASSUME k + 1 <= N PROVE g[k + 1] \in A
      OBVIOUS
    <2>1. k + 1 \in 1 .. N /\ (k + 1) - 1 = k /\ g[k] \in A
      BY <1>2
    <2> QED
      BY <2>1
  <1>3. \A n \in Nat : n \in P
    <2> HIDE DEF P
    <2> QED
      BY <1>1, <1>2, NatInd
  <1> QED
    BY <1>3
================================================================================
