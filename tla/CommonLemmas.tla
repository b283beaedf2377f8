---------------------------- MODULE CommonLemmas ----------------------------
(***************************************************************************)
(* Facts about the data that the models share: least elements, sums over   *)
(* finite sets, functions defined by recursion, and sequences from which   *)
(* elements are removed and to which they are appended.                    *)
(***************************************************************************)
EXTENDS Integers, Sequences, FiniteSets, SequencesExt, FiniteSetsExt,
        SequenceTheorems, FiniteSetTheorems, WellFoundedInduction, TLAPS

\* A set of naturals that is not empty has a least element.
LEMMA LeastElement ==
  ASSUME NEW W, W \subseteq Nat, W # {}
  PROVE  \E m \in W : \A x \in W : m <= x
<1> DEFINE R == OpToRel(<, Nat)
<1>1. IsWellFoundedOn(R, Nat)
  BY NatLessThanWellFounded
<1>2. \A a, b \in Nat : <<a, b>> \in R <=> a < b
  BY DEF OpToRel
<1> HIDE DEF R
<1>3. PICK m \in W : \A x \in W : ~(<<x, m>> \in R)
  BY <1>1, WFMin
<1>4. ASSUME NEW x \in W PROVE m <= x
  <2>1. m \in Nat /\ x \in Nat
    OBVIOUS
  <2>2. ~(<<x, m>> \in R)
    BY <1>3
  <2>3. ~(x < m)
    BY <2>1, <2>2, <1>2
  <2> QED
    BY <2>1, <2>3
<1> QED
  BY <1>4

\* A set of numbers up to N that is not empty has a greatest element.
LEMMA GreatestElement ==
  ASSUME NEW N \in Nat, NEW W, W \subseteq 0..N, W # {}
  PROVE  \E m \in W : \A x \in W : x <= m
<1> DEFINE T == {N - x : x \in W}
<1>1. T \subseteq Nat /\ T # {}
  <2>1. \A x \in W : x \in 0..N /\ N - x \in Nat
    OBVIOUS
  <2>2. PICK x \in W : TRUE
    OBVIOUS
  <2> QED
    BY <2>1, <2>2
<1>2. PICK y \in T : \A z \in T : y <= z
  BY <1>1, LeastElement
<1>3. PICK m \in W : y = N - m
  BY <1>2
<1>4. \A x \in W : N - m <= N - x
  BY <1>2, <1>3
<1> QED
  BY <1>3, <1>4

\* What Min and Max of the community modules choose.
LEMMA MinOfSet ==
  ASSUME NEW W, W \subseteq Nat, W # {}
  PROVE  Min(W) \in W /\ \A x \in W : Min(W) <= x
BY LeastElement DEF Min

LEMMA MinOfTwo ==
  ASSUME NEW a \in Nat, NEW b \in Nat
  PROVE  Min({a, b}) = IF a < b THEN a ELSE b
<1>1. Min({a, b}) \in {a, b} /\ Min({a, b}) <= a /\ Min({a, b}) <= b
  BY MinOfSet
<1> HIDE DEF Min
<1>. QED BY <1>1

LEMMA MaxOfSet ==
  ASSUME NEW N \in Nat, NEW W, W \subseteq 0..N, W # {}
  PROVE  Max(W) \in W /\ \A x \in W : x <= Max(W)
BY GreatestElement DEF Max

\* Among finite sets there is one with the fewest elements: what holds of all finite
\* sets is proved from the smallest counterexample.
LEMMA SmallestSet ==
  ASSUME NEW F, F # {}, \A T \in F : IsFiniteSet(T)
  PROVE  \E T \in F : \A U \in F : Cardinality(T) <= Cardinality(U)
<1> DEFINE N == {Cardinality(T) : T \in F}
<1>1. N \subseteq Nat /\ N # {}
  BY FS_CardinalityType
<1>2. PICK n \in N : \A m \in N : n <= m
  BY <1>1, LeastElement
<1>. QED BY <1>2

LEMMA UpTo ==
  ASSUME NEW n \in Nat
  PROVE  IsFiniteSet(1..n) /\ Cardinality(1..n) = n
<1>1. IsFiniteSet(1..n) /\ Cardinality(1..n) = IF 1 > n THEN 0 ELSE n - 1 + 1
  BY FS_Interval
<1>. QED BY <1>1

-----------------------------------------------------------------------------
(* Sums of natural numbers over finite sets.                               *)

AnyOf(s) == CHOOSE x \in s : TRUE
\* What SumFunctionOnSet chooses: a function that sums f over every subset of D.
Adds(g, f, D) == g = [s \in SUBSET D |-> IF s = {} THEN 0 ELSE f[AnyOf(s)] + g[s \ {AnyOf(s)}]]

LEMMA SumDefinition ==
  ASSUME NEW f, NEW D
  PROVE  SumFunctionOnSet(f, D) = (CHOOSE g : Adds(g, f, D))[D]
BY DEF SumFunctionOnSet, FoldFunctionOnSet, MapThenFoldSet, Adds, AnyOf

LEMMA SumsExist ==
  ASSUME NEW D, IsFiniteSet(D), NEW f, \A x \in D : f[x] \in Nat
  PROVE  \E g \in [SUBSET D -> Nat] : Adds(g, f, D)
<1> DEFINE Right(g, s) == g[s] = IF s = {} THEN 0 ELSE f[AnyOf(s)] + g[s \ {AnyOf(s)}]
           Upto(g, n) == \A s \in SUBSET D : Cardinality(s) <= n => Right(g, s)
           Bad == {n \in Nat : ~ \E g \in [SUBSET D -> Nat] : Upto(g, n)}
<1>0. \A s \in SUBSET D : IsFiniteSet(s) /\ Cardinality(s) \in Nat
  BY FS_Subset, FS_CardinalityType
<1>1. Bad = {}
  <2>. SUFFICES ASSUME Bad # {} PROVE FALSE
    OBVIOUS
  <2>1. PICK n \in Bad : \A m \in Bad : n <= m
    <3>1. Bad \subseteq Nat
      OBVIOUS
    <3> HIDE DEF Bad
    <3>. QED BY <3>1, LeastElement
  <2>2. n \in Nat /\ ~ \E g \in [SUBSET D -> Nat] : Upto(g, n)
    OBVIOUS
  <2>3. CASE n = 0
    <3> DEFINE g == [s \in SUBSET D |-> 0]
    <3>1. Upto(g, n)
      <4>. SUFFICES ASSUME NEW s \in SUBSET D, Cardinality(s) <= n PROVE Right(g, s)
        OBVIOUS
      <4>1. s = {}
        BY <1>0, <2>3, FS_EmptySet
      <4>. QED BY <4>1
    <3>2. g \in [SUBSET D -> Nat]
      OBVIOUS
    <3>. QED BY <2>2, <3>1, <3>2
  <2>4. CASE n > 0
    <3>1. n - 1 \in Nat /\ n - 1 \notin Bad
      <4> HIDE DEF Bad
      <4>. QED BY <2>1, <2>2, <2>4
    <3>2. PICK g \in [SUBSET D -> Nat] : Upto(g, n - 1)
      BY <3>1
    <3> DEFINE h == [s \in SUBSET D |-> IF s = {} \/ Cardinality(s) < n THEN g[s]
                                        ELSE f[AnyOf(s)] + g[s \ {AnyOf(s)}]]
    <3>3. h \in [SUBSET D -> Nat]
      <4>. SUFFICES ASSUME NEW s \in SUBSET D, s # {}
                    PROVE  f[AnyOf(s)] + g[s \ {AnyOf(s)}] \in Nat
        OBVIOUS
      <4>1. AnyOf(s) \in D
        BY DEF AnyOf
      <4>. QED BY <4>1
    <3>4. Upto(h, n)
      <4>. SUFFICES ASSUME NEW s \in SUBSET D, Cardinality(s) <= n PROVE Right(h, s)
        OBVIOUS
      <4>1. CASE s = {}
        <5>1. Cardinality(s) <= n - 1
          BY <4>1, <2>4, <2>2, FS_EmptySet
        <5>. QED BY <3>2, <4>1, <5>1
      <4>2. CASE s # {}
        <5> DEFINE r == s \ {AnyOf(s)}
        <5>1. AnyOf(s) \in s
          BY <4>2 DEF AnyOf
        <5>2. Cardinality(r) = Cardinality(s) - 1 /\ r \in SUBSET D
          BY <1>0, <5>1, FS_RemoveElement
        <5>3. h[r] = g[r]
          BY <1>0, <2>2, <5>2
        <5>4. CASE Cardinality(s) < n
          <6>1. Right(g, s) /\ h[s] = g[s]
            BY <1>0, <2>2, <3>2, <5>4
          <6>. QED BY <4>2, <5>3, <6>1
        <5>5. CASE ~(Cardinality(s) < n)
          BY <4>2, <5>3, <5>5
        <5>. QED BY <5>4, <5>5
      <4>. QED BY <4>1, <4>2
    <3> HIDE DEF h, Upto
    <3>. QED BY <2>2, <3>3, <3>4
  <2>. QED BY <2>2, <2>3, <2>4
<1>2. PICK g \in [SUBSET D -> Nat] : Upto(g, Cardinality(D))
  BY <1>0, <1>1
<1>3. ASSUME NEW s \in SUBSET D PROVE Right(g, s)
  BY <1>2, FS_Subset
<1>4. g = [s \in SUBSET D |-> IF s = {} THEN 0 ELSE f[AnyOf(s)] + g[s \ {AnyOf(s)}]]
  BY <1>3
<1>. QED BY <1>4 DEF Adds

\* A sum depends on nothing but what is summed.
LEMMA SumsAgree ==
  ASSUME NEW D, IsFiniteSet(D), NEW f, NEW g, Adds(g, f, D),
         NEW E, IsFiniteSet(E), NEW e, NEW h, Adds(h, e, E),
         NEW S \in SUBSET D, S \in SUBSET E, \A x \in S : f[x] = e[x]
  PROVE  g[S] = h[S]
<1> DEFINE Bad == {s \in SUBSET S : g[s] # h[s]}
<1>1. Bad = {}
  <2>. SUFFICES ASSUME Bad # {} PROVE FALSE
    OBVIOUS
  <2>0. \A s \in SUBSET S : IsFiniteSet(s) /\ Cardinality(s) \in Nat
    BY FS_Subset, FS_CardinalityType
  <2>1. PICK s \in Bad : \A t \in Bad : Cardinality(s) <= Cardinality(t)
    BY <2>0, SmallestSet
  <2>2. /\ g[s] = IF s = {} THEN 0 ELSE f[AnyOf(s)] + g[s \ {AnyOf(s)}]
        /\ h[s] = IF s = {} THEN 0 ELSE e[AnyOf(s)] + h[s \ {AnyOf(s)}]
    <3>1. s \in SUBSET D /\ s \in SUBSET E
      OBVIOUS
    <3>. QED BY <3>1 DEF Adds
  <2>3. s # {}
    BY <2>2
  <2>4. AnyOf(s) \in s
    BY <2>3 DEF AnyOf
  <2>5. Cardinality(s \ {AnyOf(s)}) = Cardinality(s) - 1
    BY <2>0, <2>4, FS_RemoveElement
  <2>6. s \ {AnyOf(s)} \notin Bad
    BY <2>0, <2>1, <2>5
  <2>. QED BY <2>2, <2>3, <2>4, <2>6
<1>. QED BY <1>1

\* SumFunctionOnSet, for all subsets at once.
SumTable(g, f, D) ==
  g \in [SUBSET D -> Nat] /\ Adds(g, f, D) /\ \A T \in SUBSET D : SumFunctionOnSet(f, T) = g[T]

LEMMA SumFunctionExists ==
  ASSUME NEW D, IsFiniteSet(D), NEW f, \A x \in D : f[x] \in Nat
  PROVE  \E g : SumTable(g, f, D)
<1>1. PICK g \in [SUBSET D -> Nat] : Adds(g, f, D)
  BY SumsExist
<1>2. ASSUME NEW S \in SUBSET D PROVE SumFunctionOnSet(f, S) = g[S]
  <2>1. IsFiniteSet(S)
    BY FS_Subset
  <2>2. \E h : Adds(h, f, S)
    BY <2>1, SumsExist
  <2> DEFINE h == CHOOSE h : Adds(h, f, S)
  <2>3. Adds(h, f, S)
    BY <2>2
  <2>4. SumFunctionOnSet(f, S) = h[S]
    BY SumDefinition
  <2> HIDE DEF h
  <2>5. h[S] = g[S]
    BY <1>1, <2>1, <2>3, SumsAgree
  <2>. QED BY <2>4, <2>5
<1>. QED BY <1>1, <1>2 DEF SumTable

LEMMA SumCongruence ==
  ASSUME NEW S, IsFiniteSet(S), NEW f, NEW e, \A x \in S : f[x] \in Nat /\ e[x] = f[x]
  PROVE  SumFunctionOnSet(f, S) = SumFunctionOnSet(e, S)
<1>1. PICK g : SumTable(g, f, S)
  <2>1. \A x \in S : f[x] \in Nat
    OBVIOUS
  <2>. QED BY <2>1, SumFunctionExists
<1>2. PICK h : SumTable(h, e, S)
  <2>1. \A x \in S : e[x] \in Nat
    OBVIOUS
  <2>. QED BY <2>1, SumFunctionExists
<1>3. g[S] = h[S]
  BY <1>1, <1>2, SumsAgree DEF SumTable
<1>. QED BY <1>1, <1>2, <1>3 DEF SumTable

LEMMA SumEmpty ==
  ASSUME NEW f
  PROVE  SumFunctionOnSet(f, {}) = 0
<1>0. IsFiniteSet({}) /\ \A x \in {} : f[x] \in Nat
  BY FS_EmptySet
<1>1. PICK g : SumTable(g, f, {})
  BY <1>0, SumFunctionExists
<1>. QED BY <1>1 DEF SumTable, Adds

\* Any element may be the first.
LEMMA SumStep ==
  ASSUME NEW S, IsFiniteSet(S), NEW f, \A x \in S : f[x] \in Nat
  PROVE  /\ SumFunctionOnSet(f, S) \in Nat
         /\ \A x \in S : SumFunctionOnSet(f, S) = f[x] + SumFunctionOnSet(f, S \ {x})
<1>1. PICK g : SumTable(g, f, S)
  BY SumFunctionExists
<1>0. /\ g \in [SUBSET S -> Nat]
      /\ Adds(g, f, S)
      /\ \A T \in SUBSET S : SumFunctionOnSet(f, T) = g[T]
  BY <1>1 DEF SumTable
<1>2. \A s \in SUBSET S : IsFiniteSet(s) /\ Cardinality(s) \in Nat
  BY FS_Subset, FS_CardinalityType
<1> DEFINE Bad == {s \in SUBSET S : \E x \in s : g[s] # f[x] + g[s \ {x}]}
<1>3. Bad = {}
  <2>. SUFFICES ASSUME Bad # {} PROVE FALSE
    OBVIOUS
  <2>1. PICK s \in Bad : \A t \in Bad : Cardinality(s) <= Cardinality(t)
    BY <1>2, SmallestSet
  <2>2. PICK x \in s : g[s] # f[x] + g[s \ {x}]
    OBVIOUS
  <2> DEFINE c == AnyOf(s)
  <2>3. c \in s
    BY <2>2 DEF AnyOf
  <2>4. g[s] = f[c] + g[s \ {c}]
    BY <1>0, <2>2 DEF Adds
  <2>5. x # c
    BY <2>2, <2>4
  <2> HIDE DEF c
  <2>6. /\ Cardinality(s \ {c}) = Cardinality(s) - 1
        /\ Cardinality(s \ {x}) = Cardinality(s) - 1
    BY <1>2, <2>2, <2>3, FS_RemoveElement
  <2>7. s \ {c} \notin Bad /\ s \ {x} \notin Bad
    <3>1. s \in SUBSET S
      OBVIOUS
    <3> HIDE DEF Bad
    <3>. QED BY <1>2, <2>1, <2>6, <3>1
  <2>8. g[s \ {c}] = f[x] + g[(s \ {c}) \ {x}]
    BY <2>5, <2>7
  <2>9. g[s \ {x}] = f[c] + g[(s \ {x}) \ {c}]
    BY <2>3, <2>5, <2>7
  <2>10. (s \ {x}) \ {c} = (s \ {c}) \ {x}
    OBVIOUS
  <2>11. f[x] \in Nat /\ f[c] \in Nat /\ g[(s \ {c}) \ {x}] \in Nat
    BY <1>0, <2>3
  <2>12. g[s \ {x}] = f[c] + g[(s \ {c}) \ {x}]
    BY <2>9, <2>10
  <2> DEFINE r == g[(s \ {c}) \ {x}]
  <2>13. f[c] + (f[x] + r) = f[x] + (f[c] + r)
    BY <2>11
  <2>. QED BY <2>2, <2>4, <2>8, <2>12, <2>13
<1>4. SumFunctionOnSet(f, S) = g[S] /\ g[S] \in Nat
  BY <1>0
<1>5. ASSUME NEW x \in S PROVE SumFunctionOnSet(f, S) = f[x] + SumFunctionOnSet(f, S \ {x})
  <2>1. g[S] = f[x] + g[S \ {x}]
    BY <1>3
  <2>2. SumFunctionOnSet(f, S \ {x}) = g[S \ {x}]
    BY <1>0
  <2>. QED BY <1>4, <2>1, <2>2
<1>. QED BY <1>4, <1>5

\* What sums to nothing may be left out.
LEMMA SumDropZeros ==
  ASSUME NEW D, IsFiniteSet(D), NEW f, \A x \in D : f[x] \in Nat,
         NEW S \in SUBSET D, \A x \in D \ S : f[x] = 0
  PROVE  SumFunctionOnSet(f, D) = SumFunctionOnSet(f, S)
<1> DEFINE Bad == {U \in SUBSET D : S \subseteq U /\ SumFunctionOnSet(f, U) # SumFunctionOnSet(f, S)}
<1>1. Bad = {}
  <2>. SUFFICES ASSUME Bad # {} PROVE FALSE
    OBVIOUS
  <2>0. \A U \in SUBSET D : IsFiniteSet(U) /\ Cardinality(U) \in Nat
    BY FS_Subset, FS_CardinalityType
  <2>1. PICK U \in Bad : \A T \in Bad : Cardinality(U) <= Cardinality(T)
    BY <2>0, SmallestSet
  <2>2. PICK x \in U : x \notin S
    OBVIOUS
  <2>3. Cardinality(U \ {x}) = Cardinality(U) - 1
    BY <2>0, FS_RemoveElement
  <2>4. U \ {x} \notin Bad
    <3>1. U \in SUBSET D
      OBVIOUS
    <3> HIDE DEF Bad
    <3>. QED BY <2>0, <2>1, <2>3, <3>1
  <2>5. SumFunctionOnSet(f, U \ {x}) = SumFunctionOnSet(f, S)
    BY <2>2, <2>4
  <2>6. SumFunctionOnSet(f, U) = f[x] + SumFunctionOnSet(f, U \ {x})
    BY <2>0, SumStep
  <2>7. SumFunctionOnSet(f, U \ {x}) \in Nat
    BY <2>0, SumStep
  <2>8. f[x] = 0
    BY <2>2
  <2>. QED BY <2>5, <2>6, <2>7, <2>8
<1>. QED BY <1>1

\* A sum is no less than another of which it has a larger number for every one.
LEMMA SumBounded ==
  ASSUME NEW S, IsFiniteSet(S), NEW f, \A x \in S : f[x] \in Nat,
         NEW D, IsFiniteSet(D), NEW h, \A x \in D : h[x] \in Nat,
         NEW m \in [S -> D], \A x, y \in S : m[x] = m[y] => x = y,
         \A x \in S : f[x] <= h[m[x]]
  PROVE  SumFunctionOnSet(f, S) <= SumFunctionOnSet(h, D)
<1> DEFINE Covers(s, T) == \A x \in s : m[x] \in T
           Bad == {s \in SUBSET S : \E T \in SUBSET D :
                     Covers(s, T) /\ ~(SumFunctionOnSet(f, s) <= SumFunctionOnSet(h, T))}
<1>0. /\ \A s \in SUBSET S : IsFiniteSet(s) /\ Cardinality(s) \in Nat
      /\ \A s \in SUBSET D : IsFiniteSet(s)
  BY FS_Subset, FS_CardinalityType
<1>1. Bad = {}
  <2>. SUFFICES ASSUME Bad # {} PROVE FALSE
    OBVIOUS
  <2>1. PICK s \in Bad : \A t \in Bad : Cardinality(s) <= Cardinality(t)
    BY <1>0, SmallestSet
  <2>2. PICK T \in SUBSET D :
          Covers(s, T) /\ ~(SumFunctionOnSet(f, s) <= SumFunctionOnSet(h, T))
    OBVIOUS
  <2>3. SumFunctionOnSet(h, T) \in Nat
    BY <1>0, SumStep
  <2>4. s # {}
    BY <2>2, <2>3, SumEmpty
  <2>5. PICK x \in s : TRUE
    BY <2>4
  <2>6. s \ {x} \notin Bad
    <3>1. s \in SUBSET S
      OBVIOUS
    <3>2. Cardinality(s \ {x}) = Cardinality(s) - 1
      BY <1>0, FS_RemoveElement
    <3> HIDE DEF Bad
    <3>. QED BY <1>0, <2>1, <3>1, <3>2
  <2>7. Covers(s \ {x}, T \ {m[x]})
    BY <2>2
  <2>8. SumFunctionOnSet(f, s \ {x}) <= SumFunctionOnSet(h, T \ {m[x]})
    BY <2>6, <2>7
  <2>9. SumFunctionOnSet(f, s) = f[x] + SumFunctionOnSet(f, s \ {x})
    <3>1. IsFiniteSet(s) /\ \A y \in s : f[y] \in Nat
      BY <1>0
    <3>. QED BY <3>1, SumStep
  <2>10. SumFunctionOnSet(h, T) = h[m[x]] + SumFunctionOnSet(h, T \ {m[x]})
    <3>1. IsFiniteSet(T) /\ m[x] \in T /\ \A y \in T : h[y] \in Nat
      BY <1>0, <2>2
    <3>. QED BY <3>1, SumStep
  <2>11. SumFunctionOnSet(f, s \ {x}) \in Nat /\ SumFunctionOnSet(h, T \ {m[x]}) \in Nat
    <3>1. IsFiniteSet(s \ {x}) /\ \A y \in s \ {x} : f[y] \in Nat
      BY <1>0
    <3>2. IsFiniteSet(T \ {m[x]}) /\ \A y \in T \ {m[x]} : h[y] \in Nat
      BY <1>0
    <3>. QED BY <3>1, <3>2, SumStep
  <2>12. f[x] \in Nat /\ h[m[x]] \in Nat /\ f[x] <= h[m[x]]
    OBVIOUS
  <2> HIDE DEF Bad
  <2>. QED BY <2>2, <2>8, <2>9, <2>10, <2>11, <2>12
<1>2. S \notin Bad
  BY <1>1
<1>3. Covers(S, D)
  OBVIOUS
<1>. QED BY <1>2, <1>3

-----------------------------------------------------------------------------
(* Functions defined by recursion on 0..N.                                 *)

\* The values of a function defined by recursion on 0..N, where step says how one
\* follows from the one before.
Recursive(F, N, base, step) ==
  F = [n \in 0..N |-> IF n = 0 THEN base ELSE step[<<n, F[n-1]>>]]

LEMMA RecursiveExists ==
  ASSUME NEW T, NEW N \in Nat, NEW base \in T, NEW step \in [(1..N) \X T -> T]
  PROVE  \E F \in [0..N -> T] : Recursive(F, N, base, step)
<1> DEFINE Upto(F, m) == \A n \in 0..m : F[n] = IF n = 0 THEN base ELSE step[<<n, F[n-1]>>]
           Bad == {m \in 0..N : ~ \E F \in [0..N -> T] : Upto(F, m)}
<1>1. Bad = {}
  <2>. SUFFICES ASSUME Bad # {} PROVE FALSE
    OBVIOUS
  <2>1. PICK m \in Bad : \A k \in Bad : m <= k
    <3>1. Bad \subseteq Nat
      OBVIOUS
    <3> HIDE DEF Bad
    <3>. QED BY <3>1, LeastElement
  <2>2. m \in 0..N /\ ~ \E F \in [0..N -> T] : Upto(F, m)
    OBVIOUS
  <2>3. CASE m = 0
    <3> DEFINE F == [n \in 0..N |-> base]
    <3>1. F \in [0..N -> T] /\ Upto(F, m)
      BY <2>3
    <3>. QED BY <2>2, <3>1
  <2>4. CASE m # 0
    <3>1. m - 1 \in 0..N /\ m - 1 \notin Bad
      <4> HIDE DEF Bad
      <4>. QED BY <2>1, <2>2, <2>4
    <3>2. PICK F \in [0..N -> T] : Upto(F, m - 1)
      BY <3>1
    <3> DEFINE G == [F EXCEPT ![m] = step[<<m, F[m-1]>>]]
    <3>3. <<m, F[m-1]>> \in (1..N) \X T
      BY <2>2, <2>4, <3>1
    <3>4. G \in [0..N -> T]
      BY <3>3
    <3>5. \A n \in 0..m : n # m => n \in 0..(m-1) /\ G[n] = F[n]
      BY <2>2, <3>4
    <3>6. G[m] = step[<<m, F[m-1]>>] /\ G[m-1] = F[m-1]
      BY <2>2, <2>4, <3>1
    <3> HIDE DEF G
    <3>7. ASSUME NEW n \in 0..m PROVE G[n] = IF n = 0 THEN base ELSE step[<<n, G[n-1]>>]
      <4>1. CASE n = m
        BY <2>4, <3>6, <4>1
      <4>2. CASE n # m
        <5>1. n \in 0..(m-1) /\ G[n] = F[n] /\ (n # 0 => G[n-1] = F[n-1])
          <6>1. n # 0 => n - 1 \in 0..m /\ n - 1 # m
            BY <2>2
          <6>. QED BY <3>5, <4>2, <6>1
        <5>. QED BY <3>2, <5>1
      <4>. QED BY <4>1, <4>2
    <3>. QED BY <2>2, <3>4, <3>7
  <2>. QED BY <2>3, <2>4
<1>2. PICK F \in [0..N -> T] : Upto(F, N)
  <2>1. N \in 0..N
    OBVIOUS
  <2>2. N \notin Bad
    <3> HIDE DEF Bad
    <3>. QED BY <1>1
  <2>. QED BY <2>1, <2>2
<1>. QED BY <1>2 DEF Recursive

\* A property of the values up to N, proved from that of the one before.
LEMMA ValuesUpTo ==
  ASSUME NEW T, NEW N \in Nat, NEW F, F[0] \in T, \A n \in 1..N : F[n-1] \in T => F[n] \in T
  PROVE  \A n \in 0..N : F[n] \in T
<1> DEFINE Bad == {n \in 0..N : F[n] \notin T}
<1>1. Bad = {}
  <2>. SUFFICES ASSUME Bad # {} PROVE FALSE
    OBVIOUS
  <2>1. PICK n \in Bad : \A k \in Bad : n <= k
    <3>1. Bad \subseteq Nat
      OBVIOUS
    <3> HIDE DEF Bad
    <3>. QED BY <3>1, LeastElement
  <2>2. n \in 0..N /\ F[n] \notin T /\ n # 0
    OBVIOUS
  <2>3. n - 1 \in 0..N /\ n - 1 \notin Bad /\ n \in 1..N
    <3> HIDE DEF Bad
    <3>. QED BY <2>1, <2>2
  <2>. QED BY <2>2, <2>3
<1>. QED BY <1>1

-----------------------------------------------------------------------------
(* Functions defined by recursion from N+1 down to 1.                      *)

\* From the last value to the first, where step says how one follows from the next.
FromEnd(F, N, base, step) ==
  F[N+1] = base /\ \A i \in 1..N : F[i] = step[<<i, F[i+1]>>]

LEMMA FromEndExists ==
  ASSUME NEW T, NEW N \in Nat, NEW base \in T, NEW step \in [(1..N) \X T -> T]
  PROVE  \E F \in [1..(N+1) -> T] : FromEnd(F, N, base, step)
<1> DEFINE back == [p \in (1..N) \X T |-> step[<<N + 1 - p[1], p[2]>>]]
<1>1. ASSUME NEW n \in 1..N, NEW x \in T
      PROVE  back[<<n, x>>] = step[<<N + 1 - n, x>>] /\ step[<<N + 1 - n, x>>] \in T
  <2>1. N + 1 - n \in 1..N /\ <<n, x>> \in (1..N) \X T
    OBVIOUS
  <2>. QED BY <2>1
<1>2. back \in [(1..N) \X T -> T]
  BY <1>1
<1> HIDE DEF back
<1>3. PICK G \in [0..N -> T] : Recursive(G, N, base, back)
  BY <1>2, RecursiveExists
<1>4. \A n \in 0..N : G[n] = IF n = 0 THEN base ELSE back[<<n, G[n-1]>>]
  BY <1>3 DEF Recursive
<1> DEFINE F == [i \in 1..(N+1) |-> G[N + 1 - i]]
<1>5. F \in [1..(N+1) -> T]
  <2>1. \A i \in 1..(N+1) : N + 1 - i \in 0..N
    OBVIOUS
  <2>. QED BY <2>1
<1>6. F[N+1] = base
  <2>1. N + 1 \in 1..(N+1) /\ N + 1 - (N + 1) = 0 /\ 0 \in 0..N
    OBVIOUS
  <2>. QED BY <1>4, <2>1
<1>7. ASSUME NEW i \in 1..N PROVE F[i] = step[<<i, F[i+1]>>]
  <2> DEFINE n == N + 1 - i
  <2>1. /\ n \in 0..N /\ n # 0 /\ n \in 1..N /\ n - 1 \in 0..N
        /\ N + 1 - n = i /\ N + 1 - (i + 1) = n - 1
        /\ i \in 1..(N+1) /\ i + 1 \in 1..(N+1)
    OBVIOUS
  <2>2. F[i] = G[n] /\ F[i+1] = G[n-1]
    BY <2>1
  <2> HIDE DEF n, F
  <2>3. G[n] = back[<<n, G[n-1]>>]
    BY <1>4, <2>1
  <2>4. back[<<n, G[n-1]>>] = step[<<N + 1 - n, G[n-1]>>]
    BY <1>1, <2>1
  <2>. QED BY <2>1, <2>2, <2>3, <2>4
<1> HIDE DEF F
<1>. QED BY <1>5, <1>6, <1>7 DEF FromEnd

\* What holds at the end, and of each that the next has it, holds of all.
LEMMA AllFromEnd ==
  ASSUME NEW N \in Nat, NEW Good, N + 1 \in Good, \A i \in 1..N : i + 1 \in Good => i \in Good
  PROVE  \A i \in 1..(N+1) : i \in Good
<1> DEFINE Bad == {i \in 1..(N+1) : i \notin Good}
<1>1. Bad = {}
  <2>. SUFFICES ASSUME Bad # {} PROVE FALSE
    OBVIOUS
  <2>1. PICK i \in Bad : \A j \in Bad : j <= i
    <3>1. Bad \subseteq 0..(N+1) /\ N + 1 \in Nat
      OBVIOUS
    <3> HIDE DEF Bad
    <3>. QED BY <3>1, GreatestElement
  <2>2. i \in 1..N /\ i \notin Good
    OBVIOUS
  <2>3. i + 1 \in 1..(N+1) /\ i + 1 \notin Bad
    <3> HIDE DEF Bad
    <3>. QED BY <2>1, <2>2
  <2>. QED BY <2>2, <2>3
<1>. QED BY <1>1

\* What is the same at the end, and follows alike, is the same at the beginning.
LEMMA SameFromEnd ==
  ASSUME NEW N \in Nat, NEW F, NEW G, F[N+1] = G[N+1],
         \A i \in 1..N : F[i+1] = G[i+1] => F[i] = G[i]
  PROVE  F[1] = G[1]
<1> DEFINE Good == {i \in 1..(N+1) : F[i] = G[i]}
<1>1. N + 1 \in Good /\ \A i \in 1..N : i + 1 \in Good => i \in Good
  OBVIOUS
<1>2. 1 \in 1..(N+1)
  OBVIOUS
<1> HIDE DEF Good
<1>3. 1 \in Good
  BY <1>1, <1>2, AllFromEnd
<1>. QED BY <1>3 DEF Good

\* Two rows of values built from the end, of x and of y for one text and of x and y for
\* another, where nothing happens to either at one position or the same is added to
\* both: the two of x are equal just if the two of y are.
TwinRows(n, xa, ya, la, A, m, xe, ye, le, E) ==
  /\ n \in Nat /\ A \in SUBSET (1..n)
  /\ m \in Nat /\ E \in SUBSET (1..m)
  /\ xa[n+1] = xe[m+1] /\ ya[n+1] = ye[m+1]
  /\ \A i \in (1..n) \ A : xa[i] = xa[i+1] /\ ya[i] = ya[i+1]
  /\ \A j \in (1..m) \ E : xe[j] = xe[j+1] /\ ye[j] = ye[j+1]
  /\ \A i \in A : xa[i] # xa[n+1] /\ ya[i] # ya[n+1]
  /\ \A j \in E : xe[j] # xe[m+1] /\ ye[j] # ye[m+1]
  /\ \A i \in A, j \in E : /\ xa[i] = xe[j] <=> la[i] = le[j] /\ xa[i+1] = xe[j+1]
                           /\ ya[i] = ye[j] <=> la[i] = le[j] /\ ya[i+1] = ye[j+1]

LEMMA Twins ==
  ASSUME NEW n, NEW xa, NEW ya, NEW la, NEW A, NEW m, NEW xe, NEW ye, NEW le, NEW E,
         TwinRows(n, xa, ya, la, A, m, xe, ye, le, E)
  PROVE  xa[1] = xe[1] <=> ya[1] = ye[1]
<1>0. /\ n \in Nat /\ A \in SUBSET (1..n)
      /\ m \in Nat /\ E \in SUBSET (1..m)
      /\ xa[n+1] = xe[m+1] /\ ya[n+1] = ye[m+1]
      /\ \A i \in (1..n) \ A : xa[i] = xa[i+1] /\ ya[i] = ya[i+1]
      /\ \A j \in (1..m) \ E : xe[j] = xe[j+1] /\ ye[j] = ye[j+1]
      /\ \A i \in A : xa[i] # xa[n+1] /\ ya[i] # ya[n+1]
      /\ \A j \in E : xe[j] # xe[m+1] /\ ye[j] # ye[m+1]
      /\ \A i \in A, j \in E : /\ xa[i] = xe[j] <=> la[i] = le[j] /\ xa[i+1] = xe[j+1]
                               /\ ya[i] = ye[j] <=> la[i] = le[j] /\ ya[i+1] = ye[j+1]
  BY DEF TwinRows
<1> DEFINE Same(i, j) == xa[i] = xe[j] <=> ya[i] = ye[j]
           Bad == {k \in Nat : \E i \in 1..(n+1), j \in 1..(m+1) :
                                 (n + 1 - i) + (m + 1 - j) = k /\ ~Same(i, j)}
<1>1. Bad = {}
  <2>. SUFFICES ASSUME Bad # {} PROVE FALSE
    BY <1>0
  <2>1. PICK k \in Bad : \A l \in Bad : k <= l
    <3>1. Bad \subseteq Nat
      BY <1>0
    <3> HIDE DEF Bad
    <3>. QED BY <1>0, <3>1, LeastElement
  <2>2. PICK i \in 1..(n+1), j \in 1..(m+1) : (n + 1 - i) + (m + 1 - j) = k /\ ~Same(i, j)
    BY <1>0
  <2>3. ASSUME NEW a \in 1..(n+1), NEW b \in 1..(m+1), (n + 1 - a) + (m + 1 - b) < k
        PROVE  Same(a, b)
    <3>1. (n + 1 - a) + (m + 1 - b) \in Nat
      BY <1>0
    <3>2. (n + 1 - a) + (m + 1 - b) \notin Bad
      <4> HIDE DEF Bad
      <4>1. k \in Nat
        BY DEF Bad
      <4>. QED BY <1>0, <2>1, <2>3, <3>1, <4>1
    <3> HIDE DEF Same
    <3>. QED BY <1>0, <3>1, <3>2
  <2>4. i <= n => /\ i \in 1..n /\ i + 1 \in 1..(n+1)
                  /\ (n + 1 - (i + 1)) + (m + 1 - j) < k
    BY <1>0, <2>2
  <2>5. j <= m => /\ j \in 1..m /\ j + 1 \in 1..(m+1)
                  /\ (n + 1 - i) + (m + 1 - (j + 1)) < k
    BY <1>0, <2>2
  <2>6. (i > n => i = n + 1) /\ (j > m => j = m + 1)
    BY <1>0, <2>2
  <2>7. CASE i <= n /\ i \notin A
    <3>1. Same(i + 1, j)
      BY <1>0, <2>3, <2>4, <2>7
    <3>. QED BY <1>0, <2>2, <2>4, <2>7, <3>1
  <2>8. CASE j <= m /\ j \notin E
    <3>1. Same(i, j + 1)
      BY <1>0, <2>3, <2>5, <2>8
    <3>. QED BY <1>0, <2>2, <2>5, <2>8, <3>1
  <2>9. CASE i \in A /\ j \in E
    <3>1. i <= n /\ j <= m
      BY <1>0, <2>9
    <3>2. (n + 1 - (i + 1)) + (m + 1 - (j + 1)) < k /\ i + 1 \in 1..(n+1) /\ j + 1 \in 1..(m+1)
      BY <1>0, <2>2, <3>1
    <3>3. Same(i + 1, j + 1)
      BY <1>0, <2>3, <3>2
    <3>. QED BY <1>0, <2>2, <2>9, <3>3
  <2>10. CASE i > n /\ (j > m \/ j \in E)
    <3>1. i = n + 1 /\ xa[i] = xe[m+1] /\ ya[i] = ye[m+1]
      BY <1>0, <2>6, <2>10
    <3>2. CASE j \in E
      <4>1. xe[j] # xe[m+1] /\ ye[j] # ye[m+1]
        BY <1>0, <3>2
      <4>. QED BY <1>0, <2>2, <3>1, <4>1
    <3>3. CASE j > m
      BY <1>0, <2>2, <2>6, <3>1, <3>3
    <3>. QED BY <1>0, <2>10, <3>2, <3>3
  <2>11. CASE j > m /\ i \in A
    BY <1>0, <2>2, <2>6, <2>11
  <2>. QED BY <1>0, <2>7, <2>8, <2>9, <2>10, <2>11
<1>2. Same(1, 1)
  <2>1. 1 \in 1..(n+1) /\ 1 \in 1..(m+1) /\ (n + 1 - 1) + (m + 1 - 1) \in Nat
    BY <1>0
  <2>2. (n + 1 - 1) + (m + 1 - 1) \notin Bad
    BY <1>0, <1>1
  <2> HIDE DEF Same
  <2>. QED BY <1>0, <2>1, <2>2
<1>. QED BY <1>0, <1>2

-----------------------------------------------------------------------------
(* Sequences.                                                              *)

\* What ToSet and IsInjective say of a sequence, by its positions.
LEMMA QueueView ==
  ASSUME NEW S, NEW q \in Seq(S)
  PROVE  /\ Len(q) \in Nat
         /\ ToSet(q) = {q[i] : i \in 1..Len(q)}
         /\ IsInjective(q) <=> \A i, j \in 1..Len(q) : q[i] = q[j] => i = j
  BY LenProperties DEF ToSet, IsInjective

\* RemoveFirst takes out the one place where the element stands.
LEMMA RemoveFirstAt ==
  ASSUME NEW S, NEW q \in Seq(S), IsInjective(q), NEW p \in 1..Len(q)
  PROVE  RemoveFirst(q, q[p]) = SubSeq(q, 1, p-1) \o SubSeq(q, p+1, Len(q))
<1> DEFINE I == {i \in 1..Len(q) : q[i] = q[p]}
<1>1. I = {p}
  BY DEF IsInjective
<1>2. Min(I) = p
  <2>1. \A x \in I : (\A y \in I : x <= y) <=> x = p
    BY <1>1
  <2>2. p \in I
    BY <1>1
  <2> QED
    BY <2>1, <2>2, <1>1 DEF Min
<1>3. RemoveFirst(q, q[p]) = RemoveAt(q, p)
  BY <1>1, <1>2 DEF RemoveFirst, SelectInSeq
<1> QED
  BY <1>3 DEF RemoveAt

\* The queue that remains, position by position.
LEMMA RemoveFirstPositions ==
  ASSUME NEW S, NEW q \in Seq(S), IsInjective(q), NEW p \in 1..Len(q)
  PROVE  LET r == RemoveFirst(q, q[p]) IN
         /\ r \in Seq(S)
         /\ Len(r) = Len(q) - 1
         /\ \A i \in 1..(Len(q) - 1) : r[i] = IF i < p THEN q[i] ELSE q[i+1]
<1> DEFINE a == SubSeq(q, 1, p-1)
           b == SubSeq(q, p+1, Len(q))
<1>1. /\ a \in Seq(S)
      /\ Len(a) = p - 1
      /\ \A i \in 1..(p-1) : a[i] = q[i]
  BY SubSeqProperties
<1>2. /\ b \in Seq(S)
      /\ Len(b) = Len(q) - p
      /\ \A i \in 1..(Len(q) - p) : b[i] = q[p + i]
  BY SubSeqProperties
<1>3. /\ a \o b \in Seq(S)
      /\ Len(a \o b) = Len(a) + Len(b)
      /\ \A i \in 1..(Len(a) + Len(b)) :
            (a \o b)[i] = IF i <= Len(a) THEN a[i] ELSE b[i - Len(a)]
  BY <1>1, <1>2, ConcatProperties
<1> HIDE DEF a, b
<1>0. Len(q) \in Nat
  BY LenProperties
<1>4. ASSUME NEW i \in 1..(Len(q) - 1)
      PROVE  (a \o b)[i] = IF i < p THEN q[i] ELSE q[i+1]
  <2>1. CASE i < p
    <3>1. i \in 1..(Len(a) + Len(b)) /\ i <= Len(a) /\ i \in 1..(p-1)
      BY <2>1, <1>0, <1>1, <1>2
    <3>2. (a \o b)[i] = a[i]
      BY <3>1, <1>3
    <3> QED
      BY <2>1, <3>1, <3>2, <1>1
  <2>2. CASE i >= p
    <3>1. i \in 1..(Len(a) + Len(b)) /\ ~(i <= Len(a))
      BY <2>2, <1>0, <1>1, <1>2
    <3>2. (a \o b)[i] = b[i - Len(a)]
      BY <3>1, <1>3
    <3>3. i - Len(a) \in 1..(Len(q) - p) /\ p + (i - Len(a)) = i + 1
      BY <2>2, <1>0, <1>1
    <3>4. b[i - Len(a)] = q[i + 1]
      BY <3>3, <1>2
    <3> QED
      BY <2>2, <3>2, <3>4, <1>0
  <2>3. i < p \/ i >= p
    BY <1>0
  <2> QED
    BY <2>1, <2>2, <2>3
<1>5. Len(a \o b) = Len(q) - 1
  BY <1>1, <1>2, <1>3
<1> QED
  BY <1>3, <1>4, <1>5, RemoveFirstAt DEF a, b

\* Removing an element, present or not, leaves the others, each once.
LEMMA RemoveFirstElements ==
  ASSUME NEW S, NEW q \in Seq(S), IsInjective(q), NEW e
  PROVE  LET r == RemoveFirst(q, e) IN
         /\ r \in Seq(S)
         /\ Len(r) = IF e \in ToSet(q) THEN Len(q) - 1 ELSE Len(q)
         /\ ToSet(r) = ToSet(q) \ {e}
         /\ IsInjective(r)
<1> DEFINE r == RemoveFirst(q, e)
<1>1. CASE e \notin ToSet(q)
  <2>1. r = q
    BY <1>1 DEF RemoveFirst, ToSet
  <2> QED
    BY <1>1, <2>1
<1>2. CASE e \in ToSet(q)
  <2>1. PICK p \in 1..Len(q) : q[p] = e
    BY <1>2 DEF ToSet
  <2>2. /\ r \in Seq(S)
        /\ Len(r) = Len(q) - 1
        /\ \A i \in 1..(Len(q) - 1) : r[i] = IF i < p THEN q[i] ELSE q[i+1]
    BY <2>1, RemoveFirstPositions
  <2> HIDE DEF r
  <2>3. ASSUME NEW i \in 1..Len(r)
        PROVE  r[i] \in ToSet(q) \ {e}
    <3>1. /\ i \in 1..(Len(q) - 1)
          /\ r[i] = IF i < p THEN q[i] ELSE q[i+1]
          /\ Len(q) \in Nat
      BY <2>2, QueueView
    <3>2. PICK k \in 1..Len(q) : r[i] = q[k] /\ k # p
      BY <3>1
    <3>3. q[k] # q[p]
      BY <3>2, QueueView
    <3> QED
      BY <2>1, <3>2, <3>3, QueueView
  <2>4. ASSUME NEW i \in 1..Len(q), i # p
        PROVE  q[i] \in ToSet(r)
    <3>1. CASE i < p
      <4>1. i \in 1..Len(r) /\ r[i] = q[i]
        BY <3>1, <2>2
      <4> QED
        BY <4>1 DEF ToSet
    <3>2. CASE i > p
      <4>1. i - 1 \in 1..Len(r) /\ r[i - 1] = q[i]
        BY <3>2, <2>2, QueueView
      <4> QED
        BY <4>1, <2>2, QueueView
    <3> QED
      BY <2>4, <3>1, <3>2
  <2>5. ToSet(r) = ToSet(q) \ {e}
    <3>1. ToSet(r) \subseteq ToSet(q) \ {e}
      BY <2>3 DEF ToSet
    <3>2. ToSet(q) \ {e} \subseteq ToSet(r)
      BY <2>1, <2>4 DEF ToSet
    <3> QED
      BY <3>1, <3>2
  <2>6. IsInjective(r)
    <3>1. ASSUME NEW i \in 1..Len(r), NEW j \in 1..Len(r), r[i] = r[j] PROVE i = j
      <4>1. Len(q) \in Nat /\ \A k, l \in 1..Len(q) : q[k] = q[l] => k = l
        BY QueueView
      <4>2. PICK k \in 1..Len(q) : k = (IF i < p THEN i ELSE i + 1) /\ r[i] = q[k]
        BY <2>2, <4>1
      <4>3. PICK l \in 1..Len(q) : l = (IF j < p THEN j ELSE j + 1) /\ r[j] = q[l]
        BY <2>2, <4>1
      <4>4. k = l
        BY <3>1, <4>1, <4>2, <4>3
      <4>. QED BY <2>2, <4>2, <4>3, <4>4
    <3>. QED BY <2>2, <3>1, QueueView
  <2> QED
    BY <1>2, <2>2, <2>5, <2>6 DEF r
<1> QED
  BY <1>1, <1>2

\* A new element joins at the back.
LEMMA AppendElements ==
  ASSUME NEW S, NEW q \in Seq(S), IsInjective(q), NEW e \in S, e \notin ToSet(q)
  PROVE  /\ Append(q, e) \in Seq(S)
         /\ Len(Append(q, e)) = Len(q) + 1
         /\ ToSet(Append(q, e)) = ToSet(q) \cup {e}
         /\ IsInjective(Append(q, e))
<1> DEFINE r == Append(q, e)
<1>1. /\ r \in Seq(S)
      /\ Len(r) = Len(q) + 1
      /\ \A i \in 1..Len(q) : r[i] = q[i]
      /\ r[Len(q) + 1] = e
  BY AppendProperties
<1> HIDE DEF r
<1>2. ToSet(r) = ToSet(q) \cup {e}
  <2>1. \A i \in 1..Len(r) : r[i] \in ToSet(q) \cup {e}
    BY <1>1 DEF ToSet
  <2>2. \A i \in 1..Len(q) : q[i] \in ToSet(r)
    BY <1>1 DEF ToSet
  <2>3. e \in ToSet(r)
    BY <1>1 DEF ToSet
  <2> QED
    BY <2>1, <2>2, <2>3 DEF ToSet
<1>3. IsInjective(r)
  BY <1>1 DEF IsInjective, ToSet
<1> QED
  BY <1>1, <1>2, <1>3 DEF r

\* The first n elements leave at the front.
LEMMA DropFrontElements ==
  ASSUME NEW S, NEW q \in Seq(S), IsInjective(q), NEW n \in 0..Len(q)
  PROVE  LET r == SubSeq(q, n + 1, Len(q)) IN
         /\ r \in Seq(S)
         /\ Len(r) = Len(q) - n
         /\ ToSet(r) = ToSet(q) \ {q[i] : i \in 1..n}
         /\ IsInjective(r)
<1> DEFINE r == SubSeq(q, n + 1, Len(q))
<1>1. /\ r \in Seq(S)
      /\ Len(r) = Len(q) - n
      /\ \A i \in 1..(Len(q) - n) : r[i] = q[n + i]
  BY SubSeqProperties
<1>0. Len(q) \in Nat
  BY LenProperties
<1> HIDE DEF r
<1>2. ASSUME NEW i \in 1..Len(r)
      PROVE  r[i] \in ToSet(q) \ {q[j] : j \in 1..n}
  <2>1. n + i \in 1..Len(q) /\ r[i] = q[n + i]
    BY <1>0, <1>1
  <2>2. \A j \in 1..n : j \in 1..Len(q) /\ j # n + i
    BY <1>0, <1>1
  <2> QED
    BY <2>1, <2>2 DEF ToSet, IsInjective
<1>3. ASSUME NEW i \in 1..Len(q), q[i] \notin {q[j] : j \in 1..n}
      PROVE  q[i] \in ToSet(r)
  <2>1. i - n \in 1..Len(r) /\ r[i - n] = q[i]
    <3>1. ~(i \in 1..n)
      BY <1>3
    <3>2. i - n \in 1..(Len(q) - n) /\ n + (i - n) = i
      BY <3>1, <1>0
    <3> QED
      BY <3>2, <1>1
  <2> QED
    BY <2>1 DEF ToSet
<1>4. ToSet(r) = ToSet(q) \ {q[i] : i \in 1..n}
  BY <1>2, <1>3 DEF ToSet
<1>5. IsInjective(r)
  <2>1. \A i \in 1..Len(r) : n + i \in 1..Len(q) /\ r[i] = q[n + i]
    BY <1>0, <1>1
  <2>2. \A i, j \in 1..Len(r) : n + i = n + j => i = j
    BY <1>0, <1>1
  <2>3. \A i, j \in 1..Len(r) : r[i] = r[j] => i = j
    BY <2>1, <2>2, QueueView
  <2> QED
    BY <2>3, <1>1, QueueView
<1> QED
  BY <1>1, <1>4, <1>5 DEF r

\* A queue from whose front something went to the back of the order.
LEMMA MoveHead ==
  ASSUME NEW S, NEW o \in Seq(S), NEW q \in Seq(S), q # <<>>
  PROVE  Append(o, Head(q)) \o Tail(q) = o \o q
<1>1. Head(q) \in S /\ Tail(q) \in Seq(S) /\ q = <<Head(q)>> \o Tail(q)
  <2>1. Head(q) \in S /\ Tail(q) \in Seq(S)
    BY HeadTailProperties
  <2>2. q = <<Head(q)>> \o Tail(q)
    OBVIOUS
  <2>. QED BY <2>1, <2>2
<1>2. Append(o, Head(q)) = o \o <<Head(q)>> /\ <<Head(q)>> \in Seq(S)
  BY <1>1, AppendIsConcat
<1>. QED BY <1>1, <1>2, ConcatAssociative

LEMMA AppendBehind ==
  ASSUME NEW S, NEW o \in Seq(S), NEW q \in Seq(S), NEW e \in S
  PROVE  o \o Append(q, e) = Append(o \o q, e)
<1>1. <<e>> \in Seq(S) /\ o \o q \in Seq(S)
  BY ConcatProperties
<1>2. Append(q, e) = q \o <<e>> /\ Append(o \o q, e) = (o \o q) \o <<e>>
  BY <1>1, AppendIsConcat
<1>. QED BY <1>1, <1>2, ConcatAssociative

LEMMA AppendToSet ==
  ASSUME NEW S, NEW q \in Seq(S), NEW e \in S
  PROVE  ToSet(Append(q, e)) = ToSet(q) \cup {e}
<1>1. /\ Append(q, e) \in Seq(S)
      /\ Len(Append(q, e)) = Len(q) + 1 /\ Len(q) \in Nat
      /\ \A i \in 1..Len(q) : Append(q, e)[i] = q[i]
      /\ Append(q, e)[Len(q) + 1] = e
  BY AppendProperties, LenProperties
<1>2. ToSet(Append(q, e)) = {Append(q, e)[i] : i \in 1..(Len(q) + 1)}
  BY <1>1, QueueView
<1>3. ToSet(q) = {q[i] : i \in 1..Len(q)}
  BY QueueView
<1>. QED BY <1>1, <1>2, <1>3

LEMMA ConcatToSet ==
  ASSUME NEW S, NEW o \in Seq(S), NEW q \in Seq(S)
  PROVE  ToSet(o \o q) = ToSet(o) \cup ToSet(q)
<1>1. /\ o \o q \in Seq(S)
      /\ Len(o \o q) = Len(o) + Len(q) /\ Len(o) \in Nat /\ Len(q) \in Nat
      /\ \A i \in 1..(Len(o) + Len(q)) :
           (o \o q)[i] = IF i <= Len(o) THEN o[i] ELSE q[i - Len(o)]
  BY ConcatProperties, LenProperties
<1>2. /\ ToSet(o \o q) = {(o \o q)[i] : i \in 1..(Len(o) + Len(q))}
      /\ ToSet(o) = {o[i] : i \in 1..Len(o)}
      /\ ToSet(q) = {q[i] : i \in 1..Len(q)}
  <2>1. ToSet(o \o q) = {(o \o q)[i] : i \in 1..Len(o \o q)}
    BY <1>1, QueueView
  <2>2. ToSet(o) = {o[i] : i \in 1..Len(o)}
    BY QueueView
  <2>3. ToSet(q) = {q[i] : i \in 1..Len(q)}
    BY QueueView
  <2>. QED BY <1>1, <2>1, <2>2, <2>3
<1>3. \A i \in 1..Len(q) : i + Len(o) \in 1..(Len(o) + Len(q)) /\ (o \o q)[i + Len(o)] = q[i]
  BY <1>1
<1>4. \A i \in 1..Len(o) : i \in 1..(Len(o) + Len(q)) /\ (o \o q)[i] = o[i]
  BY <1>1
<1>5. \A i \in 1..(Len(o) + Len(q)) : (o \o q)[i] \in ToSet(o) \cup ToSet(q)
  BY <1>1, <1>2
<1>. QED BY <1>2, <1>3, <1>4, <1>5

\* An element before a sequence.
LEMMA PrependType ==
  ASSUME NEW S, NEW q \in Seq(S), NEW e \in S
  PROVE  /\ <<e>> \o q \in Seq(S)
         /\ <<e>> \o q # <<>>
         /\ Len(<<e>> \o q) = Len(q) + 1
         /\ (<<e>> \o q)[1] = e
         /\ \A i \in 1..Len(q) : (<<e>> \o q)[i+1] = q[i]
<1>0. <<e>> \in Seq(S) /\ Len(<<e>>) = 1 /\ <<e>>[1] = e /\ Len(q) \in Nat
  BY LenProperties
<1>1. /\ <<e>> \o q \in Seq(S)
      /\ Len(<<e>> \o q) = Len(<<e>>) + Len(q)
      /\ \A i \in 1..(Len(<<e>>) + Len(q)) :
           (<<e>> \o q)[i] = IF i <= Len(<<e>>) THEN <<e>>[i] ELSE q[i - Len(<<e>>)]
  BY <1>0, ConcatProperties
<1> DEFINE r == <<e>> \o q
<1> HIDE DEF r
<1>2. /\ r \in Seq(S)
      /\ Len(r) = 1 + Len(q)
      /\ \A i \in 1..(1 + Len(q)) : r[i] = IF i <= 1 THEN <<e>>[i] ELSE q[i - 1]
  BY <1>0, <1>1 DEF r
<1>3. r[1] = e
  BY <1>0, <1>2
<1>4. ASSUME NEW i \in 1..Len(q) PROVE r[i+1] = q[i]
  <2>1. i + 1 \in 1..(1 + Len(q)) /\ ~(i + 1 <= 1) /\ (i + 1) - 1 = i
    BY <1>0
  <2>. QED BY <1>2, <2>1
<1>5. r # <<>>
  BY <1>0, <1>2
<1>. QED BY <1>0, <1>2, <1>3, <1>4, <1>5 DEF r

LEMMA PrependInjective ==
  ASSUME NEW S, NEW c \in S, NEW d \in S, NEW p \in Seq(S), NEW q \in Seq(S),
         <<c>> \o p = <<d>> \o q
  PROVE  c = d /\ p = q
<1> DEFINE r == <<c>> \o p
           u == <<d>> \o q
<1>1. Len(r) = Len(p) + 1 /\ r[1] = c /\ \A i \in 1..Len(p) : r[i+1] = p[i]
  BY PrependType
<1>2. Len(u) = Len(q) + 1 /\ u[1] = d /\ \A i \in 1..Len(q) : u[i+1] = q[i]
  BY PrependType
<1>3. r = u
  OBVIOUS
<1> HIDE DEF r, u
<1>4. Len(p) \in Nat /\ Len(q) \in Nat
  BY LenProperties
<1>5. Len(p) = Len(q)
  BY <1>1, <1>2, <1>3, <1>4
<1>6. \A i \in 1..Len(p) : p[i] = q[i]
  BY <1>1, <1>2, <1>3, <1>5
<1>7. p = q
  BY <1>5, <1>6, SeqEqual
<1>. QED BY <1>1, <1>2, <1>3, <1>7

LEMMA PrependedParts ==
  ASSUME NEW S, NEW e \in S, NEW q \in Seq(S)
  PROVE  (<<e>> \o q)[1] = e /\ Tail(<<e>> \o q) = q
<1> DEFINE r == <<e>> \o q
<1>1. r \in Seq(S) /\ r # <<>> /\ Len(r) = Len(q) + 1 /\ r[1] = e
      /\ \A i \in 1..Len(q) : r[i+1] = q[i]
  BY PrependType
<1> HIDE DEF r
<1>2. Tail(r) \in Seq(S) /\ Len(Tail(r)) = Len(r) - 1 /\ \A i \in 1..Len(Tail(r)) : Tail(r)[i] = r[i+1]
  BY <1>1, HeadTailProperties
<1> DEFINE u == Tail(r)
<1> HIDE DEF u
<1>3. Len(q) \in Nat
  BY LenProperties
<1>4. u \in Seq(S) /\ Len(u) = Len(q) /\ \A i \in 1..Len(q) : u[i] = q[i]
  BY <1>1, <1>2, <1>3 DEF u
<1>5. u = q
  BY <1>4, SeqEqual
<1>. QED BY <1>1, <1>5 DEF r, u

LEMMA FirstAndRest ==
  ASSUME NEW S, NEW q \in Seq(S), q # <<>>
  PROVE  q[1] \in S /\ Tail(q) \in Seq(S) /\ q = <<q[1]>> \o Tail(q)
<1> DEFINE e == q[1]
           u == Tail(q)
<1>1. Len(q) \in Nat /\ Len(q) > 0 /\ 1 \in 1..Len(q) /\ e \in S
  OBVIOUS
<1>2. u \in Seq(S) /\ Len(u) = Len(q) - 1 /\ \A i \in 1..Len(u) : u[i] = q[i+1]
  BY HeadTailProperties
<1> HIDE DEF u
<1>3. ASSUME NEW f, f = e PROVE q = <<f>> \o u
  <2> DEFINE v == <<f>> \o u
  <2>0. f \in S
    BY <1>1, <1>3
  <2>1. v \in Seq(S) /\ Len(v) = Len(u) + 1 /\ v[1] = f /\ \A i \in 1..Len(u) : v[i+1] = u[i]
    BY <1>2, <2>0, PrependType
  <2> HIDE DEF v
  <2>2. Len(v) = Len(q)
    BY <1>1, <1>2, <2>1
  <2>3. ASSUME NEW i \in 1..Len(q) PROVE v[i] = q[i]
    <3>1. CASE i = 1
      BY <1>3, <2>1, <3>1
    <3>2. CASE i # 1
      <4>1. i - 1 \in 1..Len(u) /\ (i - 1) + 1 = i
        BY <1>1, <1>2, <3>2
      <4>. QED BY <1>2, <2>1, <4>1
    <3>. QED BY <3>1, <3>2
  <2>4. v = q
    BY <2>1, <2>2, <2>3, SeqEqual
  <2>. QED BY <2>4 DEF v
<1>4. q = <<e>> \o u
  BY <1>3
<1>. QED BY <1>1, <1>2, <1>4 DEF u

LEMMA ExceptType ==
  ASSUME NEW S, NEW q \in Seq(S), NEW k, NEW e, k \in 1..Len(q) => e \in S
  PROVE  [q EXCEPT ![k] = e] \in Seq(S)
<1>1. q \in [1..Len(q) -> S] /\ Len(q) \in Nat
  BY LenProperties
<1>2. [q EXCEPT ![k] = e] \in [1..Len(q) -> S]
  BY <1>1
<1>. QED BY <1>1, <1>2

=============================================================================
