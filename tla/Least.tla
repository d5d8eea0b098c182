-------------------------------- MODULE Least --------------------------------
(***************************************************************************)
(* Arguments by a least counterexample, and what they give for functions   *)
(* that are defined by recursion: that the function exists whose equation  *)
(* the definition states, and what a sum over a finite set is.             *)
(***************************************************************************)
EXTENDS Integers, FiniteSets, Functions, FiniteSetTheorems, WellFoundedInduction, TLAPS

\* Every set of numbers has a least one.
LEMMA LeastNumber ==
  ASSUME NEW S \in SUBSET Nat, S # {}
  PROVE  \E m \in S : \A k \in S : m <= k
<1> DEFINE R == OpToRel(<, Nat)
<1>1. IsWellFoundedOn(R, Nat)
  BY NatLessThanWellFounded
<1> HIDE DEF R
<1>2. PICK m \in S : \A k \in S : <<k, m>> \notin R
  BY <1>1, WFMin
<1>3. \A k \in S : ~(k < m)
  BY <1>2 DEF R, OpToRel
<1> QED
  BY <1>3

\* A family of subsets of a finite set has one of which no proper subset of
\* one element less belongs to it.
LEMMA LeastSubset ==
  ASSUME NEW S, IsFiniteSet(S), NEW C \in SUBSET SUBSET S, C # {}
  PROVE  \E m \in C : \A x \in m : m \ {x} \notin C
<1> DEFINE Sizes == {Cardinality(c) : c \in C}
<1>1. \A c \in C : IsFiniteSet(c) /\ Cardinality(c) \in Nat
  BY FS_Subset, FS_CardinalityType
<1>2. PICK n \in Sizes : \A k \in Sizes : n <= k
  <2>1. Sizes \in SUBSET Nat /\ Sizes # {}
    BY <1>1
  <2> HIDE DEF Sizes
  <2> QED
    BY <2>1, LeastNumber
<1>3. PICK m \in C : Cardinality(m) = n
  OBVIOUS
<1>4. ASSUME NEW x \in m, m \ {x} \in C PROVE FALSE
  <2>1. Cardinality(m \ {x}) = Cardinality(m) - 1
    BY <1>1, FS_RemoveElement
  <2>2. n <= Cardinality(m \ {x})
    BY <1>2, <1>4
  <2> QED
    BY <1>1, <1>3, <2>1, <2>2
<1> QED
  BY <1>4

\* f is a, G[a], G[G[a]], ... up to N.
Iterates(f, A, a, G, N) == /\ f \in [0..N -> A] /\ f[0] = a
                           /\ \A n \in 1..N : f[n] = G[f[n - 1]]

\* A function that is defined by iteration exists, up to any bound.
LEMMA IteratesExist ==
  ASSUME NEW A, NEW a \in A, NEW G \in [A -> A], NEW N \in Nat
  PROVE  \E f : Iterates(f, A, a, G, N)
<1> DEFINE Upto(M) == \E f : Iterates(f, A, a, G, M)
           Bad == {M \in Nat : ~Upto(M)}
<1> SUFFICES ASSUME Bad # {} PROVE FALSE
  OBVIOUS
<1>1. PICK M \in Bad : \A k \in Bad : M <= k
  <2>1. Bad \in SUBSET Nat
    OBVIOUS
  <2> HIDE DEF Bad
  <2> QED
    BY <2>1, LeastNumber
<1>2. Upto(0)
  <2> DEFINE f == [n \in 0..0 |-> a]
  <2>1. f \in [0..0 -> A] /\ f[0] = a /\ 1..0 = {}
    OBVIOUS
  <2>2. Iterates(f, A, a, G, 0)
    BY <2>1 DEF Iterates
  <2> QED
    BY <2>2
<1>3. M \in Nat /\ M # 0 /\ ~Upto(M)
  BY <1>1, <1>2
<1>4. M - 1 \in Nat /\ M - 1 \notin Bad
  <2>1. M - 1 \in Nat /\ ~(M <= M - 1)
    BY <1>3
  <2> HIDE DEF Bad
  <2> QED
    BY <1>1, <2>1
<1>5. PICK f : Iterates(f, A, a, G, M - 1)
  BY <1>4
<1> DEFINE g == [n \in 0..M |-> IF n = M THEN G[f[M - 1]] ELSE f[n]]
<1>6. g \in [0..M -> A] /\ g[0] = a
  BY <1>3, <1>5 DEF Iterates
<1>7. ASSUME NEW n \in 1..M PROVE g[n] = G[g[n - 1]]
  <2>1. CASE n = M
    BY <1>3, <2>1
  <2>2. CASE n # M
    BY <1>3, <1>5, <2>2 DEF Iterates
  <2> QED
    BY <2>1, <2>2
<1>8. Iterates(g, A, a, G, M)
  BY <1>6, <1>7 DEF Iterates
<1> HIDE DEF g
<1> QED
  BY <1>3, <1>8

\* What holds of the first value and is kept from one to the next holds of all.
LEMMA IteratesStay ==
  ASSUME NEW N \in Nat, NEW f, NEW P, f[0] \in P,
         \A n \in 1..N : f[n - 1] \in P => f[n] \in P
  PROVE  \A n \in 0..N : f[n] \in P
<1> DEFINE Bad == {n \in 0..N : f[n] \notin P}
<1> SUFFICES ASSUME Bad # {} PROVE FALSE
  OBVIOUS
<1>1. PICK m \in Bad : \A k \in Bad : m <= k
  <2>1. Bad \in SUBSET Nat
    OBVIOUS
  <2> HIDE DEF Bad
  <2> QED
    BY <2>1, LeastNumber
<1>2. m \in 1..N /\ m - 1 \in 0..N /\ ~(m <= m - 1)
  OBVIOUS
<1>3. m - 1 \notin Bad
  <2> HIDE DEF Bad
  <2> QED
    BY <1>1, <1>2
<1> QED
  BY <1>2, <1>3

\* Induction up to a bound.
LEMMA UpTo ==
  ASSUME NEW N \in Nat, NEW P, 0 \in P, \A n \in 1..N : n - 1 \in P => n \in P
  PROVE  \A n \in 0..N : n \in P
<1> DEFINE f == [n \in 0..N |-> n]
<1>1. f[0] \in P
  OBVIOUS
<1>2. \A n \in 1..N : f[n - 1] \in P => f[n] \in P
  OBVIOUS
<1> HIDE DEF f
<1>3. \A n \in 0..N : f[n] \in P
  BY <1>1, <1>2, IteratesStay
<1> QED
  BY <1>3 DEF f

\* f is a, G[1][a], G[2][G[1][a]], ... up to N.
StepByStep(f, a, G, N) == /\ f = [i \in 0..N |-> f[i]] /\ f[0] = a
                      /\ \A i \in 1..N : f[i] = G[i][f[i - 1]]

\* A function whose next value depends on its place and the last one exists.
LEMMA StepsExist ==
  ASSUME NEW a, NEW G, NEW N \in Nat
  PROVE  \E f : StepByStep(f, a, G, N)
<1> DEFINE Good(n) == \E f : StepByStep(f, a, G, n)
           P == {n \in Nat : Good(n)}
<1>1. 0 \in P
  <2> DEFINE f == [i \in 0..0 |-> a]
  <2>1. f = [i \in 0..0 |-> f[i]] /\ f[0] = a /\ 1..0 = {}
    OBVIOUS
  <2> HIDE DEF f
  <2>2. Good(0)
    BY <2>1 DEF StepByStep
  <2> QED
    BY <2>2
<1>2. ASSUME NEW n \in 1..N, n - 1 \in P PROVE n \in P
  <2>1. PICK f : StepByStep(f, a, G, n - 1)
    BY <1>2
  <2> DEFINE g == [i \in 0..n |-> IF i = n THEN G[n][f[n - 1]] ELSE f[i]]
  <2>2. g = [i \in 0..n |-> g[i]] /\ g[0] = a
    BY <2>1 DEF StepByStep
  <2>3. ASSUME NEW i \in 1..n PROVE g[i] = G[i][g[i - 1]]
    <3>1. i - 1 \in 0..n /\ i - 1 # n
      OBVIOUS
    <3>2. g[i - 1] = f[i - 1]
      BY <3>1
    <3>3. CASE i = n
      BY <3>2, <3>3
    <3>4. CASE i # n
      <4>1. i \in 1..n - 1 /\ i \in 0..n
        BY <3>4
      <4>2. f[i] = G[i][f[i - 1]]
        BY <2>1, <4>1 DEF StepByStep
      <4> QED
        BY <3>2, <3>4, <4>1, <4>2
    <3> QED
      BY <3>3, <3>4
  <2> HIDE DEF g
  <2>4. Good(n)
    BY <2>2, <2>3 DEF StepByStep
  <2> QED
    BY <2>4
<1> HIDE DEF P
<1>3. N \in 0..N
  OBVIOUS
<1>4. N \in P
  BY <1>1, <1>2, <1>3, UpTo
<1> QED
  BY <1>4 DEF P

-----------------------------------------------------------------------------
(* Folds remove the elements of a set in the order CHOOSE gives. *)

Some(s) == CHOOSE x \in s : TRUE

LEMMA SomeIsIn == ASSUME NEW s, s # {} PROVE Some(s) \in s
BY DEF Some

\* A fold from b over S, with the operation G[x] at x.
Folds(F, b, G, S) == /\ F = [s \in SUBSET S |-> F[s]]
                     /\ F[{}] = b
                     /\ \A s \in SUBSET S : s # {} => F[s] = G[Some(s)][F[s \ {Some(s)}]]

LEMMA FoldsExist ==
  ASSUME NEW S, IsFiniteSet(S), NEW A, NEW b \in A, NEW G \in [S -> [A -> A]]
  PROVE  \E F \in [SUBSET S -> A] : Folds(F, b, G, S)
<1> DEFINE Small(n) == {s \in SUBSET S : Cardinality(s) <= n}
           Upto(n) == \E F \in [Small(n) -> A] : F[{}] = b /\
             \A s \in Small(n) : s # {} => F[s] = G[Some(s)][F[s \ {Some(s)}]]
           Bad == {n \in Nat : ~Upto(n)}
<1>1. \A s \in SUBSET S : IsFiniteSet(s) /\ Cardinality(s) \in Nat
        /\ (Cardinality(s) = 0 <=> s = {}) /\ Cardinality(s) <= Cardinality(S)
  BY FS_Subset, FS_CardinalityType, FS_EmptySet
<1>2. \A s \in SUBSET S : s # {} =>
        /\ Some(s) \in s /\ Some(s) \in S
        /\ s \ {Some(s)} \in SUBSET S /\ Cardinality(s \ {Some(s)}) = Cardinality(s) - 1
  BY <1>1, SomeIsIn, FS_RemoveElement
<1>3. Bad = {}
  <2> SUFFICES ASSUME Bad # {} PROVE FALSE
    OBVIOUS
  <2>1. PICK M \in Bad : \A k \in Bad : M <= k
    <3>1. Bad \in SUBSET Nat
      OBVIOUS
    <3> HIDE DEF Bad
    <3> QED
      BY <3>1, LeastNumber
  <2>2. Upto(0)
    <3> DEFINE F == [s \in Small(0) |-> b]
    <3>1. \A s \in Small(0) : s = {}
      BY <1>1
    <3>2. {} \in Small(0)
      BY <1>1
    <3>3. F \in [Small(0) -> A] /\ F[{}] = b
      BY <3>2
    <3> QED
      BY <3>1, <3>3
  <2>3. M \in Nat /\ M # 0 /\ ~Upto(M)
    <3> HIDE DEF Upto
    <3> QED
      BY <2>1, <2>2
  <2>4. Upto(M - 1)
    <3>1. M - 1 \in Nat /\ ~(M <= M - 1)
      BY <2>3
    <3>2. M - 1 \notin Bad
      <4> HIDE DEF Bad
      <4> QED
        BY <2>1, <3>1
    <3> QED
      BY <3>1, <3>2
  <2>5. PICK F \in [Small(M - 1) -> A] : F[{}] = b /\
          \A s \in Small(M - 1) : s # {} => F[s] = G[Some(s)][F[s \ {Some(s)}]]
    BY <2>4
  <2> DEFINE H == [s \in Small(M) |-> IF s \in Small(M - 1) THEN F[s]
                                      ELSE G[Some(s)][F[s \ {Some(s)}]]]
  <2>6. {} \in Small(M - 1) /\ {} \in Small(M)
    BY <1>1, <2>3
  <2>7. \A s \in Small(M) : s # {} =>
          Some(s) \in S /\ s \ {Some(s)} \in Small(M - 1) /\ s \ {Some(s)} \in Small(M)
    <3>1. ASSUME NEW s \in Small(M), s # {}
          PROVE  Some(s) \in S /\ s \ {Some(s)} \in Small(M - 1) /\ s \ {Some(s)} \in Small(M)
      <4>1. Cardinality(s \ {Some(s)}) <= M - 1 /\ Cardinality(s \ {Some(s)}) <= M
        BY <1>1, <1>2, <2>3, <3>1
      <4> QED
        BY <1>2, <3>1, <4>1
    <3> QED
      BY <3>1
  <2> HIDE DEF Small
  <2>8. H \in [Small(M) -> A]
    <3>1. ASSUME NEW s \in Small(M), s \notin Small(M - 1)
          PROVE  G[Some(s)][F[s \ {Some(s)}]] \in A
      <4>1. Some(s) \in S /\ F[s \ {Some(s)}] \in A
        BY <2>5, <2>6, <2>7, <3>1
      <4> QED
        BY <4>1
    <3> QED
      BY <2>5, <3>1
  <2>9. H[{}] = b
    BY <2>5, <2>6
  <2>10. \A s \in Small(M) : s # {} => H[s] = G[Some(s)][H[s \ {Some(s)}]]
    BY <2>5, <2>7
  <2> HIDE DEF H
  <2> QED
    BY <2>3, <2>8, <2>9, <2>10
<1>4. Cardinality(S) \in Nat
  BY <1>1
<1>5. Small(Cardinality(S)) = SUBSET S
  BY <1>1
<1> HIDE DEF Small
<1>6. Upto(Cardinality(S))
  BY <1>3, <1>4
<1>7. PICK F \in [SUBSET S -> A] : F[{}] = b /\
        \A s \in SUBSET S : s # {} => F[s] = G[Some(s)][F[s \ {Some(s)}]]
  BY <1>5, <1>6
<1> QED
  BY <1>7 DEF Folds

-----------------------------------------------------------------------------
(* Sums. *)

SumOf(g, S) == FoldFunctionOnSet(+, 0, g, S)

\* F is the sum over each subset of S.
Sums(F, g, S) == /\ F = [s \in SUBSET S |-> F[s]]
                 /\ F[{}] = 0
                 /\ \A s \in SUBSET S : s # {} => F[s] = g[Some(s)] + F[s \ {Some(s)}]

LEMMA SumsAgree ==
  ASSUME NEW S, IsFiniteSet(S), NEW g, NEW F, NEW H, Sums(F, g, S), Sums(H, g, S)
  PROVE  F[S] = H[S]
<1> DEFINE Bad == {s \in SUBSET S : F[s] # H[s]}
<1> SUFFICES ASSUME Bad # {} PROVE FALSE
  OBVIOUS
<1>1. PICK m \in Bad : \A x \in m : m \ {x} \notin Bad
  <2>1. Bad \in SUBSET SUBSET S
    OBVIOUS
  <2> HIDE DEF Bad
  <2> QED
    BY <2>1, LeastSubset
<1>2. m # {}
  BY <1>1 DEF Sums
<1>3. Some(m) \in m
  BY <1>2, SomeIsIn
<1>4. F[m \ {Some(m)}] = H[m \ {Some(m)}]
  BY <1>1, <1>3
<1> QED
  BY <1>1, <1>2, <1>4 DEF Sums

\* What FoldFunctionOnSet(+, ...) yields is the sum, however it is computed.
LEMMA SumIs ==
  ASSUME NEW S, IsFiniteSet(S), NEW g, NEW H, Sums(H, g, S)
  PROVE  FoldFunctionOnSet(+, 0, g, S) = H[S]
<1> DEFINE iter == CHOOSE f : f = [s \in SUBSET S |->
                     IF s = {} THEN 0 ELSE g[Some(s)] + f[s \ {Some(s)}]]
<1>1. FoldFunctionOnSet(+, 0, g, S) = iter[S]
  BY DEF FoldFunctionOnSet, MapThenFoldSet, Some
<1>2. H = [s \in SUBSET S |-> IF s = {} THEN 0 ELSE g[Some(s)] + H[s \ {Some(s)}]]
  BY DEF Sums
<1>3. iter = [s \in SUBSET S |-> IF s = {} THEN 0 ELSE g[Some(s)] + iter[s \ {Some(s)}]]
  BY <1>2
<1> HIDE DEF iter
<1>4. Sums(iter, g, S)
  BY <1>3 DEF Sums
<1> QED
  BY <1>1, <1>4, SumsAgree

\* The partial sums of a function on a finite set exist, and are numbers.
LEMMA SumsExist ==
  ASSUME NEW S, IsFiniteSet(S), NEW g, \A x \in S : g[x] \in Int
  PROVE  \E F \in [SUBSET S -> Int] : Sums(F, g, S)
<1> DEFINE G == [x \in S |-> [n \in Int |-> g[x] + n]]
<1>1. G \in [S -> [Int -> Int]] /\ 0 \in Int
  OBVIOUS
<1>2. \A x \in S : \A n \in Int : G[x][n] = g[x] + n
  OBVIOUS
<1> HIDE DEF G
<1>3. PICK F \in [SUBSET S -> Int] : Folds(F, 0, G, S)
  BY <1>1, FoldsExist
<1>4. ASSUME NEW s \in SUBSET S, s # {} PROVE F[s] = g[Some(s)] + F[s \ {Some(s)}]
  <2>1. Some(s) \in S /\ F[s \ {Some(s)}] \in Int
    BY <1>4, SomeIsIn
  <2> QED
    BY <1>2, <1>3, <1>4, <2>1 DEF Folds
<1> QED
  BY <1>3, <1>4 DEF Sums, Folds

\* A sum of zeros is zero.
LEMMA SumOfZeros ==
  ASSUME NEW S, IsFiniteSet(S), NEW g, \A x \in S : g[x] = 0
  PROVE  SumOf(g, S) = 0
<1> DEFINE H == [s \in SUBSET S |-> 0]
<1>1. \A s \in SUBSET S : s # {} => g[Some(s)] = 0 /\ s \ {Some(s)} \in SUBSET S
  BY SomeIsIn
<1>2. Sums(H, g, S)
  BY <1>1 DEF Sums
<1>3. SumOf(g, S) = H[S]
  BY <1>2, SumIs DEF SumOf
<1> QED
  BY <1>3

LEMMA SumIsInt ==
  ASSUME NEW S, IsFiniteSet(S), NEW g, \A x \in S : g[x] \in Int
  PROVE  SumOf(g, S) \in Int
<1>1. PICK F \in [SUBSET S -> Int] : Sums(F, g, S)
  BY SumsExist
<1>2. SumOf(g, S) = F[S]
  BY <1>1, SumIs DEF SumOf
<1> QED
  BY <1>2

\* A sum changes by what one of its terms changes.
LEMMA SumChanges ==
  ASSUME NEW S, IsFiniteSet(S), NEW g, \A x \in S : g[x] \in Int, NEW b \in S,
         NEW h, h[b] \in Int, \A x \in S \ {b} : h[x] = g[x]
  PROVE  SumOf(h, S) - SumOf(g, S) = h[b] - g[b]
<1> DEFINE d == h[b] - g[b]
<1>0. d \in Int /\ h[b] = g[b] + d
  OBVIOUS
<1> HIDE DEF d
<1>1. PICK F \in [SUBSET S -> Int] : Sums(F, g, S)
  BY SumsExist
<1> DEFINE H == [s \in SUBSET S |-> IF b \in s THEN F[s] + d ELSE F[s]]
<1>2. ASSUME NEW s \in SUBSET S, s # {}
      PROVE  H[s] = h[Some(s)] + H[s \ {Some(s)}]
  <2> DEFINE c == Some(s)
  <2>1. c \in s /\ c \in S /\ s \ {c} \in SUBSET S /\ g[c] \in Int
    BY <1>2, SomeIsIn
  <2> HIDE DEF c
  <2>2. F[s] = g[c] + F[s \ {c}] /\ F[s] \in Int /\ F[s \ {c}] \in Int
    BY <1>1, <1>2, <2>1 DEF Sums, c
  <2>3. CASE c = b
    <3>1. H[s] = F[s] + d /\ H[s \ {c}] = F[s \ {c}] /\ h[c] = g[c] + d
      BY <1>0, <2>1, <2>3
    <3> QED
      BY <1>0, <2>1, <2>2, <3>1 DEF c
  <2>4. CASE c # b /\ b \in s
    <3>1. H[s] = F[s] + d /\ H[s \ {c}] = F[s \ {c}] + d /\ h[c] = g[c]
      BY <2>1, <2>4
    <3> QED
      BY <1>0, <2>1, <2>2, <3>1 DEF c
  <2>5. CASE c # b /\ b \notin s
    <3>1. H[s] = F[s] /\ H[s \ {c}] = F[s \ {c}] /\ h[c] = g[c]
      BY <2>1, <2>5
    <3> QED
      BY <1>0, <2>1, <2>2, <3>1 DEF c
  <2> QED
    BY <2>3, <2>4, <2>5
<1>3. Sums(H, h, S)
  <2>1. H = [s \in SUBSET S |-> H[s]] /\ H[{}] = 0
    BY <1>1 DEF Sums
  <2> HIDE DEF H
  <2> QED
    BY <1>2, <2>1 DEF Sums
<1>4. SumOf(g, S) = F[S] /\ SumOf(h, S) = H[S]
  BY <1>1, <1>3, SumIs DEF SumOf
<1>5. H[S] = F[S] + d
  OBVIOUS
<1> HIDE DEF H
<1> QED
  BY <1>0, <1>1, <1>4, <1>5 DEF d

\* The sums of functions that agree on the set are the same.
LEMMA SumSame ==
  ASSUME NEW S, IsFiniteSet(S), NEW g, \A x \in S : g[x] \in Int,
         NEW h, \A x \in S : h[x] = g[x]
  PROVE  SumOf(h, S) = SumOf(g, S)
<1>1. PICK F \in [SUBSET S -> Int] : Sums(F, g, S)
  BY SumsExist
<1>2. Sums(F, h, S)
  BY <1>1, SomeIsIn DEF Sums
<1>3. SumOf(g, S) = F[S] /\ SumOf(h, S) = F[S]
  BY <1>1, <1>2, SumIs DEF SumOf
<1> QED
  BY <1>3
===============================================================================
