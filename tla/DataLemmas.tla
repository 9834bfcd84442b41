------------------------------ MODULE DataLemmas ------------------------------
(***************************************************************************)
(* Lemmas about data that the theorems about the rules rest on: induction  *)
(* over the natural numbers, which is stated for sets of numbers so that a *)
(* proof can use it, sums over finite sets, and selections from sequences. *)
(***************************************************************************)
EXTENDS Integers, FiniteSets, FiniteSetsExt, Functions, Sequences, Selection, FiniteSetTheorems,
        SequenceTheorems, TLAPS

-----------------------------------------------------------------------------
(* Induction *)

LEMMA LeastNumber ==
    ASSUME NEW S \in SUBSET Nat, S # {}
    PROVE  \E m \in S : \A n \in S : m <= n
<1> DEFINE Less == {p \in Nat \X Nat : p[1] < p[2]}
<1>1. IsWellFoundedOn(Less, Nat)
  BY NatLessThanWellFounded DEF OpToRel
<1> HIDE DEF Less
<1>2. PICK m \in S : \A n \in S : <<n, m>> \notin Less
  BY <1>1, WFMin
<1>3. \A n \in S : ~(n < m)
  BY <1>2 DEF Less
<1> QED BY <1>3

\* What holds of zero and goes over from each number to the next holds of all.
LEMMA AllNumbers ==
    ASSUME NEW S, 0 \in S, \A n \in S \cap Nat : n + 1 \in S
    PROVE  Nat \subseteq S
<1> SUFFICES ASSUME Nat \ S # {} PROVE FALSE
  OBVIOUS
<1>1. PICK m \in Nat \ S : \A n \in Nat \ S : m <= n
  BY LeastNumber
<1>2. m # 0 /\ m - 1 \in Nat
  BY <1>1
<1>3. m - 1 \in S
  BY <1>1, <1>2
<1>4. (m - 1) + 1 \in S
  BY <1>2, <1>3
<1> QED BY <1>1, <1>4

\* What holds of the empty set and stays true when an element is added holds of
\* every subset of a finite set.
LEMMA AllSubsets ==
    ASSUME NEW S, IsFiniteSet(S), NEW P, {} \in P,
           \A T \in P \cap SUBSET S : \A x \in S \ T : T \cup {x} \in P
    PROVE  SUBSET S \subseteq P
<1> DEFINE N == {n \in Nat : \A T \in SUBSET S : Cardinality(T) = n => T \in P}
<1>1. \A T \in SUBSET S : IsFiniteSet(T) /\ Cardinality(T) \in Nat
  BY FS_Subset, FS_CardinalityType
<1>2. 0 \in N
  BY <1>1, FS_EmptySet
<1>3. ASSUME NEW n \in N PROVE n + 1 \in N
  <2>1. n \in Nat /\ \A T \in SUBSET S : Cardinality(T) = n => T \in P
    OBVIOUS
  <2>2. ASSUME NEW T \in SUBSET S, Cardinality(T) = n + 1 PROVE T \in P
    <3>0. T # {}
      BY <2>1, <2>2, FS_EmptySet
    <3>1. PICK x \in T : TRUE
      BY <3>0
    <3>2. Cardinality(T \ {x}) = (n + 1) - 1
      BY <1>1, <2>2, <3>1, FS_RemoveElement
    <3>3. T \ {x} \in P \cap SUBSET S /\ x \in S \ (T \ {x}) /\ T = (T \ {x}) \cup {x}
      BY <2>1, <3>1, <3>2
    <3> QED BY <3>3
  <2> QED BY <2>1, <2>2
<1>4. Nat \subseteq N
  <2> HIDE DEF N
  <2> QED BY <1>2, <1>3, AllNumbers
<1> QED BY <1>1, <1>4

-----------------------------------------------------------------------------
(* Sums over finite sets *)

\* The sum of a function's values on a set, as the community modules add them up.
Total(S, g) == SumFunctionOnSet(g, S)

\* An element of a non-empty set, and the functions that add up subset by subset.
Pick(S) == CHOOSE x \in S : TRUE
Adds(S, g, sum) ==
    sum = [s \in SUBSET S |-> IF s = {} THEN 0 ELSE g[Pick(s)] + sum[s \ {Pick(s)}]]

LEMMA TotalDef == ASSUME NEW S, NEW g PROVE Total(S, g) = (CHOOSE sum : Adds(S, g, sum))[S]
BY DEF Total, SumFunctionOnSet, FoldFunctionOnSet, MapThenFoldSet, Adds, Pick

\* There is such a function, and it yields integers.
LEMMA SumExists ==
    ASSUME NEW S, IsFiniteSet(S), NEW g, \A x \in S : g[x] \in Int
    PROVE  \E sum \in [SUBSET S -> Int] : Adds(S, g, sum)
<1> DEFINE Upto(n) == {s \in SUBSET S : Cardinality(s) <= n}
           AddsTo(n, sum) ==
             sum = [s \in Upto(n) |-> IF s = {} THEN 0 ELSE g[Pick(s)] + sum[s \ {Pick(s)}]]
           Ok == {n \in Nat : \E sum \in [Upto(n) -> Int] : AddsTo(n, sum)}
<1>1. \A s \in SUBSET S : IsFiniteSet(s) /\ Cardinality(s) \in Nat
  BY FS_Subset, FS_CardinalityType
<1>2. \A s \in SUBSET S : s # {} => /\ Pick(s) \in s /\ s \ {Pick(s)} \in SUBSET S
                                    /\ Cardinality(s \ {Pick(s)}) = Cardinality(s) - 1
  <2> TAKE s \in SUBSET S
  <2> HAVE s # {}
  <2>1. Pick(s) \in s
    BY DEF Pick
  <2> QED BY <1>1, <2>1, FS_RemoveElement
<1>3. 0 \in Ok
  <2>1. Upto(0) = {{}}
    BY <1>1, FS_EmptySet
  <2>2. AddsTo(0, [s \in Upto(0) |-> 0]) /\ [s \in Upto(0) |-> 0] \in [Upto(0) -> Int]
    BY <2>1
  <2>3. \E sum \in [Upto(0) -> Int] : AddsTo(0, sum)
    BY <2>2
  <2> HIDE DEF Upto, AddsTo
  <2> QED BY <2>3 DEF Ok
<1>4. ASSUME NEW n \in Ok PROVE n + 1 \in Ok
  <2>1. n \in Nat /\ n + 1 \in Nat
    BY DEF Ok
  <2>2. PICK sum \in [Upto(n) -> Int] : AddsTo(n, sum)
    BY DEF Ok
  <2> DEFINE more == [s \in Upto(n + 1) |->
                        IF s = {} THEN 0 ELSE g[Pick(s)] + sum[s \ {Pick(s)}]]
  <2>3. \A s \in Upto(n + 1) : s # {} => s \ {Pick(s)} \in Upto(n)
    <3> TAKE s \in Upto(n + 1)
    <3> HAVE s # {}
    <3>1. /\ s \in SUBSET S /\ Cardinality(s) \in Nat /\ Cardinality(s) <= n + 1
          /\ s \ {Pick(s)} \in SUBSET S /\ Cardinality(s \ {Pick(s)}) = Cardinality(s) - 1
      BY <1>1, <1>2
    <3>2. Cardinality(s \ {Pick(s)}) <= n
      BY <2>1, <3>1
    <3> QED BY <3>1, <3>2
  <2>4. more \in [Upto(n + 1) -> Int]
    <3>1. \A s \in Upto(n + 1) : s # {} => g[Pick(s)] \in Int /\ sum[s \ {Pick(s)}] \in Int
      BY <1>2, <2>2, <2>3
    <3> HIDE DEF Upto
    <3> QED BY <3>1
  <2>5. \A s \in Upto(n) : s \in Upto(n + 1)
    BY <1>1, <2>1
  <2>6. \A s \in Upto(n) : more[s] = sum[s]
    <3> SUFFICES ASSUME NEW s \in Upto(n) PROVE more[s] = sum[s]
      OBVIOUS
    <3>1. sum[s] = IF s = {} THEN 0 ELSE g[Pick(s)] + sum[s \ {Pick(s)}]
      <4> HIDE DEF Upto
      <4> QED BY <2>2
    <3> HIDE DEF Upto
    <3> QED BY <2>5, <3>1
  <2>7. AddsTo(n + 1, more)
    <3> HIDE DEF Upto
    <3>1. \A s \in Upto(n + 1) : s # {} => sum[s \ {Pick(s)}] = more[s \ {Pick(s)}]
      BY <2>3, <2>6
    <3> QED BY <3>1
  <2>8. \E add \in [Upto(n + 1) -> Int] : AddsTo(n + 1, add)
    <3> HIDE DEF AddsTo, Upto
    <3> QED BY <2>4, <2>7
  <2> HIDE DEF AddsTo, Upto
  <2> QED BY <2>1, <2>8 DEF Ok
<1>5. Nat \subseteq Ok
  <2> HIDE DEF Ok
  <2> QED BY <1>3, <1>4, AllNumbers
<1>6. Cardinality(S) \in Ok
  BY <1>1, <1>5
<1>7. Upto(Cardinality(S)) = SUBSET S
  BY FS_Subset
<1> QED BY <1>6, <1>7 DEF Adds

\* Such a function is unique on what its set and another one have in common.
LEMMA SumUnique ==
    ASSUME NEW S, IsFiniteSet(S), NEW T \in SUBSET S, NEW g, NEW sum, Adds(S, g, sum),
           NEW other, Adds(T, g, other)
    PROVE  other[T] = sum[T]
<1> DEFINE N == {n \in Nat : \A s \in SUBSET T : Cardinality(s) = n => other[s] = sum[s]}
<1>1. \A s \in SUBSET T : IsFiniteSet(s) /\ Cardinality(s) \in Nat
  BY FS_Subset, FS_CardinalityType
<1>2. ASSUME NEW s \in SUBSET T
      PROVE  /\ sum[s] = IF s = {} THEN 0 ELSE g[Pick(s)] + sum[s \ {Pick(s)}]
             /\ other[s] = IF s = {} THEN 0 ELSE g[Pick(s)] + other[s \ {Pick(s)}]
  BY DEF Adds
<1>3. 0 \in N
  BY <1>1, <1>2, FS_EmptySet
<1>4. ASSUME NEW n \in N PROVE n + 1 \in N
  <2>1. n \in Nat /\ \A s \in SUBSET T : Cardinality(s) = n => other[s] = sum[s]
    OBVIOUS
  <2>2. ASSUME NEW s \in SUBSET T, Cardinality(s) = n + 1 PROVE other[s] = sum[s]
    <3>1. s # {} /\ Pick(s) \in s
      BY <2>1, <2>2, FS_EmptySet DEF Pick
    <3>2. Cardinality(s \ {Pick(s)}) = Cardinality(s) - 1
      BY <1>1, <3>1, FS_RemoveElement
    <3>2a. s \ {Pick(s)} \in SUBSET T /\ Cardinality(s \ {Pick(s)}) = n
      BY <2>1, <2>2, <3>2
    <3>3. other[s \ {Pick(s)}] = sum[s \ {Pick(s)}]
      BY <2>1, <3>2a
    <3> QED BY <1>2, <3>1, <3>3
  <2> QED BY <2>1, <2>2
<1>5. Nat \subseteq N
  <2> HIDE DEF N
  <2> QED BY <1>3, <1>4, AllNumbers
<1> QED BY <1>1, <1>5

\* A function that can be added up on a set, and its sums subset by subset.
Summable(S, g) == IsFiniteSet(S) /\ \A x \in S : g[x] \in Int

AddsUp(S, g, sum) ==
    /\ sum \in [SUBSET S -> Int] /\ Adds(S, g, sum)
    /\ \A T \in SUBSET S : Total(T, g) = sum[T]

LEMMA SummableSubset ==
    ASSUME NEW S, NEW g, Summable(S, g), NEW T \in SUBSET S
    PROVE  Summable(T, g)
BY FS_Subset DEF Summable

LEMMA TotalOf ==
    ASSUME NEW S, NEW g, Summable(S, g)
    PROVE  \E sum : AddsUp(S, g, sum)
<1>1. PICK sum \in [SUBSET S -> Int] : Adds(S, g, sum)
  BY SumExists DEF Summable
<1>2. ASSUME NEW T \in SUBSET S PROVE Total(T, g) = sum[T]
  <2>1. IsFiniteSet(T) /\ \A x \in T : g[x] \in Int
    BY FS_Subset DEF Summable
  <2>2. \E other : Adds(T, g, other)
    BY <2>1, SumExists
  <2>3. Adds(T, g, CHOOSE other : Adds(T, g, other))
    BY <2>2
  <2>4. IsFiniteSet(S)
    BY DEF Summable
  <2> QED BY <1>1, <2>3, <2>4, SumUnique, TotalDef
<1> QED BY <1>1, <1>2 DEF AddsUp

LEMMA TotalEmpty == ASSUME NEW g PROVE Total({}, g) = 0
<1>1. Summable({}, g)
  BY FS_EmptySet DEF Summable
<1>2. PICK sum : AddsUp({}, g, sum)
  BY <1>1, TotalOf
<1> QED BY <1>2 DEF AddsUp, Adds

LEMMA TotalType ==
    ASSUME NEW S, NEW g, Summable(S, g)
    PROVE  Total(S, g) \in Int
<1>1. PICK sum : AddsUp(S, g, sum)
  BY TotalOf
<1> QED BY <1>1 DEF AddsUp

\* A sum is one of its terms and the sum of the others, whichever that one is.
LEMMA TotalStep ==
    ASSUME NEW S, NEW g, Summable(S, g), NEW y \in S
    PROVE  Total(S, g) = g[y] + Total(S \ {y}, g)
<1>0. PICK sum : AddsUp(S, g, sum)
  BY TotalOf
<1>1. /\ sum \in [SUBSET S -> Int] /\ Adds(S, g, sum)
      /\ \A T \in SUBSET S : Total(T, g) = sum[T]
  BY <1>0 DEF AddsUp
<1> DEFINE N == {n \in Nat : \A T \in SUBSET S : Cardinality(T) = n =>
                                \A x \in T : sum[T] = g[x] + sum[T \ {x}]}
<1>2. \A T \in SUBSET S : IsFiniteSet(T) /\ Cardinality(T) \in Nat
  BY FS_Subset, FS_CardinalityType DEF Summable
<1>3. \A T \in SUBSET S : \A x \in T : Cardinality(T \ {x}) = Cardinality(T) - 1
  BY <1>2, FS_RemoveElement
<1>4. 0 \in N
  BY <1>2, FS_EmptySet
<1>5. ASSUME NEW n \in N PROVE n + 1 \in N
  <2>1. n \in Nat /\ \A T \in SUBSET S : Cardinality(T) = n =>
                       \A x \in T : sum[T] = g[x] + sum[T \ {x}]
    OBVIOUS
  <2>2. ASSUME NEW T \in SUBSET S, Cardinality(T) = n + 1, NEW x \in T
        PROVE  sum[T] = g[x] + sum[T \ {x}]
    <3>1. PICK p \in T : sum[T] = g[p] + sum[T \ {p}]
      <4>1. Pick(T) \in T
        BY <2>2 DEF Pick
      <4>2. sum[T] = g[Pick(T)] + sum[T \ {Pick(T)}]
        BY <1>1, <2>2 DEF Adds
      <4> QED BY <4>1, <4>2
    <3>2. CASE x = p
      BY <3>1, <3>2
    <3>3. CASE x # p
      <4> DEFINE R == (T \ {p}) \ {x}
      <4>1. Cardinality(T \ {p}) = n /\ Cardinality(T \ {x}) = n
        BY <1>3, <2>1, <2>2, <3>1
      <4>2. x \in T \ {p} /\ sum[T \ {p}] = g[x] + sum[R]
        BY <2>1, <3>1, <3>3, <4>1
      <4>3. R = (T \ {x}) \ {p}
        OBVIOUS
      <4>4. p \in T \ {x} /\ sum[T \ {x}] = g[p] + sum[R]
        BY <2>1, <3>1, <3>3, <4>1, <4>3
      <4>5. g[p] \in Int /\ g[x] \in Int /\ sum[R] \in Int
        BY <1>1, <3>1 DEF Summable
      <4> HIDE DEF R
      <4> QED BY <3>1, <4>2, <4>4, <4>5
    <3> QED BY <3>2, <3>3
  <2> QED BY <2>1, <2>2
<1>6. Nat \subseteq N
  <2> HIDE DEF N
  <2> QED BY <1>4, <1>5, AllNumbers
<1>7. sum[S] = g[y] + sum[S \ {y}]
  BY <1>2, <1>6
<1> QED BY <1>1, <1>7

LEMMA TotalAdd ==
    ASSUME NEW S, NEW g, NEW y, y \notin S, Summable(S \cup {y}, g)
    PROVE  Total(S \cup {y}, g) = g[y] + Total(S, g)
<1>1. y \in S \cup {y} /\ (S \cup {y}) \ {y} = S
  OBVIOUS
<1> QED BY <1>1, TotalStep

\* Functions that agree on a set have the same sum there.
LEMMA TotalSame ==
    ASSUME NEW S, NEW g, Summable(S, g), NEW h, \A x \in S : h[x] = g[x]
    PROVE  Total(S, h) = Total(S, g)
<1> DEFINE P == {T \in SUBSET S : Total(T, h) = Total(T, g)}
<1>1. {} \in P
  BY TotalEmpty
<1>2. ASSUME NEW T \in P \cap SUBSET S, NEW x \in S \ T PROVE T \cup {x} \in P
  <2>1. Summable(T \cup {x}, g)
    BY SummableSubset
  <2>2. Summable(T \cup {x}, h)
    BY <2>1 DEF Summable
  <2>3. h[x] = g[x]
    OBVIOUS
  <2>4. /\ Total(T \cup {x}, g) = g[x] + Total(T, g)
        /\ Total(T \cup {x}, h) = h[x] + Total(T, h)
    BY <2>1, <2>2, TotalAdd
  <2> QED BY <2>3, <2>4
<1>3. IsFiniteSet(S)
  BY DEF Summable
<1>4. SUBSET S \subseteq P
  <2> HIDE DEF P
  <2> QED BY <1>1, <1>2, <1>3, AllSubsets
<1> QED BY <1>4

\* Sums add up pointwise.
LEMMA TotalPlus ==
    ASSUME NEW S, NEW f, NEW g, NEW h, Summable(S, f), Summable(S, g),
           \A x \in S : h[x] = f[x] + g[x]
    PROVE  Summable(S, h) /\ Total(S, h) = Total(S, f) + Total(S, g)
<1>1. Summable(S, h) /\ IsFiniteSet(S)
  BY DEF Summable
<1> DEFINE P == {T \in SUBSET S : Total(T, h) = Total(T, f) + Total(T, g)}
<1>2. {} \in P
  BY TotalEmpty
<1>3. ASSUME NEW T \in P \cap SUBSET S, NEW x \in S \ T PROVE T \cup {x} \in P
  <2>1. /\ Summable(T \cup {x}, f) /\ Summable(T \cup {x}, g) /\ Summable(T \cup {x}, h)
        /\ Summable(T, f) /\ Summable(T, g)
    BY <1>1, SummableSubset
  <2>2. /\ Total(T \cup {x}, f) = f[x] + Total(T, f) /\ Total(T \cup {x}, g) = g[x] + Total(T, g)
        /\ Total(T \cup {x}, h) = h[x] + Total(T, h)
    BY <2>1, TotalAdd
  <2>3. f[x] \in Int /\ g[x] \in Int /\ h[x] = f[x] + g[x]
    BY DEF Summable
  <2>4. Total(T, f) \in Int /\ Total(T, g) \in Int
    BY <2>1, TotalType
  <2> QED BY <2>2, <2>3, <2>4
<1>4. SUBSET S \subseteq P
  <2> HIDE DEF P
  <2> QED BY <1>1, <1>2, <1>3, AllSubsets
<1> QED BY <1>1, <1>4

\* A constant is added as often as the set has elements.
LEMMA TotalConstant ==
    ASSUME NEW S, IsFiniteSet(S), NEW k \in Int, NEW g, \A x \in S : g[x] = k
    PROVE  Summable(S, g) /\ Total(S, g) = k * Cardinality(S)
<1>1. Summable(S, g)
  BY DEF Summable
<1> DEFINE P == {T \in SUBSET S : Total(T, g) = k * Cardinality(T)}
<1>2. {} \in P
  BY TotalEmpty, FS_EmptySet
<1>3. ASSUME NEW T \in P \cap SUBSET S, NEW x \in S \ T PROVE T \cup {x} \in P
  <2>1. Summable(T \cup {x}, g) /\ IsFiniteSet(T)
    BY <1>1, SummableSubset DEF Summable
  <2>2. Total(T \cup {x}, g) = g[x] + Total(T, g)
    BY <2>1, TotalAdd
  <2>3. Cardinality(T \cup {x}) = Cardinality(T) + 1 /\ Cardinality(T) \in Nat
    BY <2>1, FS_AddElement, FS_CardinalityType
  <2>4. k * (Cardinality(T) + 1) = k + k * Cardinality(T)
    BY <2>3
  <2> QED BY <2>2, <2>3, <2>4
<1>4. SUBSET S \subseteq P
  <2> HIDE DEF P
  <2> QED BY <1>1, <1>2, <1>3, AllSubsets
<1> QED BY <1>1, <1>4

LEMMA TotalOnes ==
    ASSUME NEW S, IsFiniteSet(S), NEW g, \A x \in S : g[x] = 1
    PROVE  Summable(S, g) /\ Total(S, g) = Cardinality(S)
<1>1. Summable(S, g) /\ Total(S, g) = 1 * Cardinality(S)
  BY TotalConstant
<1> QED BY <1>1, FS_CardinalityType

LEMMA TotalUnion ==
    ASSUME NEW S, NEW R, S \cap R = {}, NEW g, Summable(S \cup R, g)
    PROVE  Total(S \cup R, g) = Total(S, g) + Total(R, g)
<1> DEFINE P == {T \in SUBSET R : Total(S \cup T, g) = Total(S, g) + Total(T, g)}
<1>1. Summable(S, g) /\ Summable(R, g)
  BY SummableSubset
<1>2. {} \in P
  <2>1. S \cup {} = S /\ Total(S, g) \in Int
    BY <1>1, TotalType
  <2> QED BY <2>1, TotalEmpty
<1>3. ASSUME NEW T \in P \cap SUBSET R, NEW x \in R \ T PROVE T \cup {x} \in P
  <2>1. /\ Summable((S \cup T) \cup {x}, g) /\ Summable(T \cup {x}, g) /\ Summable(T, g)
    <3>1. (S \cup T) \cup {x} \in SUBSET (S \cup R) /\ T \cup {x} \in SUBSET (S \cup R)
      OBVIOUS
    <3> QED BY <1>1, <3>1, SummableSubset
  <2>2. x \notin S \cup T /\ x \notin T
    OBVIOUS
  <2>3. /\ Total((S \cup T) \cup {x}, g) = g[x] + Total(S \cup T, g)
        /\ Total(T \cup {x}, g) = g[x] + Total(T, g)
    BY <2>1, <2>2, TotalAdd
  <2>4. g[x] \in Int /\ Total(T, g) \in Int /\ Total(S, g) \in Int
    BY <1>1, <2>1, TotalType DEF Summable
  <2>5. S \cup (T \cup {x}) = (S \cup T) \cup {x}
    OBVIOUS
  <2>6. Total(S \cup T, g) = Total(S, g) + Total(T, g)
    OBVIOUS
  <2>7. Total(S \cup (T \cup {x}), g) = Total(S, g) + Total(T \cup {x}, g)
    <3>1. Total(S \cup (T \cup {x}), g) = g[x] + (Total(S, g) + Total(T, g))
      BY <2>3, <2>5, <2>6
    <3> QED BY <2>3, <2>4, <3>1
  <2> QED BY <2>7
<1>4. SUBSET R \subseteq P
  <2> HIDE DEF P
  <2>1. IsFiniteSet(R)
    BY <1>1 DEF Summable
  <2> QED BY <1>2, <1>3, <2>1, AllSubsets, ZenonT(60)
<1> QED BY <1>4

LEMMA TotalOne == ASSUME NEW x, NEW g, g[x] \in Int PROVE Total({x}, g) = g[x]
<1>1. Summable({} \cup {x}, g) /\ {} \cup {x} = {x}
  BY FS_Singleton DEF Summable
<1> QED BY <1>1, TotalAdd, TotalEmpty

\* Sums follow the order of their terms.
LEMMA TotalOrder ==
    ASSUME NEW S, NEW f, NEW g, Summable(S, f), Summable(S, g), \A x \in S : f[x] <= g[x]
    PROVE  Total(S, f) <= Total(S, g)
<1> DEFINE P == {T \in SUBSET S : Total(T, f) <= Total(T, g)}
<1>2. {} \in P
  BY TotalEmpty
<1>3. ASSUME NEW T \in P \cap SUBSET S, NEW x \in S \ T PROVE T \cup {x} \in P
  <2>1. /\ Summable(T \cup {x}, f) /\ Summable(T \cup {x}, g)
        /\ Summable(T, f) /\ Summable(T, g)
    BY SummableSubset
  <2>2. /\ Total(T \cup {x}, f) = f[x] + Total(T, f) /\ Total(T \cup {x}, g) = g[x] + Total(T, g)
    BY <2>1, TotalAdd
  <2>3. f[x] \in Int /\ g[x] \in Int /\ f[x] <= g[x]
    BY DEF Summable
  <2>4. Total(T, f) \in Int /\ Total(T, g) \in Int /\ Total(T, f) <= Total(T, g)
    BY <2>1, TotalType
  <2> QED BY <2>2, <2>3, <2>4
<1>4. IsFiniteSet(S)
  BY DEF Summable
<1>5. SUBSET S \subseteq P
  <2> HIDE DEF P
  <2> QED BY <1>2, <1>3, <1>4, AllSubsets
<1> QED BY <1>5


-----------------------------------------------------------------------------
(* Cardinalities *)

LEMMA CountUnion ==
    ASSUME NEW A, IsFiniteSet(A), NEW B, IsFiniteSet(B), A \cap B = {}
    PROVE  IsFiniteSet(A \cup B) /\ Cardinality(A \cup B) = Cardinality(A) + Cardinality(B)
<1>1. Cardinality(A \cap B) = 0
  BY FS_EmptySet
<1>2. Cardinality(A) \in Nat /\ Cardinality(B) \in Nat
  BY FS_CardinalityType
<1>3. /\ IsFiniteSet(A \cup B)
      /\ Cardinality(A \cup B) = Cardinality(A) + Cardinality(B) - Cardinality(A \cap B)
  BY FS_Union
<1> QED BY <1>1, <1>2, <1>3

LEMMA CountSubset ==
    ASSUME NEW S, IsFiniteSet(S), NEW T \in SUBSET S
    PROVE  IsFiniteSet(T) /\ Cardinality(T) \in Nat /\ Cardinality(T) <= Cardinality(S)
BY FS_Subset, FS_CardinalityType

-----------------------------------------------------------------------------
(* Division and products *)

LEMMA DivExact == ASSUME NEW a \in Nat, NEW b \in Nat \ {0} PROVE (b * a) \div b = a
OBVIOUS

LEMMA DivBound ==
    ASSUME NEW x \in Nat, NEW y \in Nat \ {0}, NEW q \in Nat, x <= q * y
    PROVE  x \div y <= q
OBVIOUS

LEMMA TimesOrder ==
    ASSUME NEW a \in Int, NEW b \in Int, a <= b, NEW k \in Nat
    PROVE  k * a <= k * b
OBVIOUS

-----------------------------------------------------------------------------
(* Places of a sequence *)

LEMMA PlaceInAll == ASSUME NEW n \in Nat, NEW k \in 1 .. n PROVE Nth(1 .. n, k) = k
<1>1. ASSUME NEW i \in 1 .. n PROVE Cardinality({j \in 1 .. n : j <= i}) = i
  <2>1. {j \in 1 .. n : j <= i} = 1 .. i
    OBVIOUS
  <2>2. Cardinality(1 .. i) = IF 1 > i THEN 0 ELSE i - 1 + 1
    BY FS_Interval
  <2>3. Cardinality(1 .. i) = i
    BY <2>2
  <2> QED BY <2>1, <2>3
<1> QED BY <1>1 DEF Nth

\* All places of a sequence are the sequence.
LEMMA KeptAll ==
    ASSUME NEW n \in Nat, NEW s
    PROVE  Kept(s, 1 .. n) = [k \in 1 .. n |-> s[k]]
<1>1. Cardinality(1 .. n) = n
  BY FS_Interval
<1> QED BY <1>1, PlaceInAll DEF Kept
LEMMA Pair == ASSUME NEW n \in Nat, n = 2 PROVE 1 .. n = {1, 2} /\ IsFiniteSet({1, 2})
<1>1. 1 .. n = {1, 2}
  OBVIOUS
<1>2. IsFiniteSet({1}) /\ {1, 2} = {1} \cup {2}
  BY FS_Singleton
<1>3. IsFiniteSet({1, 2})
  BY <1>2, FS_AddElement
<1> QED BY <1>1, <1>3

LEMMA KeptPair == ASSUME NEW a, NEW b PROVE Kept(<<a, b>>, {1, 2}) = <<a, b>>
<1> SUFFICES ASSUME NEW n \in Nat, n = 2 PROVE Kept(<<a, b>>, {1, 2}) = <<a, b>>
  OBVIOUS
<1>1. 1 .. n = {1, 2}
  BY Pair
<1>2. Kept(<<a, b>>, 1 .. n) = [k \in 1 .. n |-> <<a, b>>[k]]
  BY KeptAll
<1>3. [k \in 1 .. n |-> <<a, b>>[k]] = <<a, b>>
  BY <1>1
<1> QED BY <1>1, <1>2, <1>3


LEMMA InSeq == ASSUME NEW n \in Nat, NEW V, NEW s \in [1 .. n -> V] PROVE s \in Seq(V)
BY SeqDef

LEMMA CountUpTo ==
    ASSUME NEW n \in Nat
    PROVE  IsFiniteSet(1 .. n) /\ Cardinality(1 .. n) = n
<1>1. IsFiniteSet(1 .. n) /\ Cardinality(1 .. n) = IF 1 > n THEN 0 ELSE n - 1 + 1
  BY FS_Interval
<1> QED BY <1>1

LEMMA TimesStrict ==
    ASSUME NEW a \in Int, NEW b \in Int, a < b, NEW k \in Nat \ {0}
    PROVE  k * a < k * b
OBVIOUS

LEMMA TotalPair ==
    ASSUME NEW x, NEW y, x # y, NEW g, g[x] \in Int, g[y] \in Int
    PROVE  Total({x, y}, g) = g[x] + g[y]
<1>1. {x, y} = {y} \cup {x} /\ x \notin {y}
  OBVIOUS
<1>2. IsFiniteSet({y} \cup {x})
  BY FS_Singleton, FS_AddElement
<1>3. Summable({y} \cup {x}, g)
  BY <1>2 DEF Summable
<1>4. Total({y} \cup {x}, g) = g[x] + Total({y}, g)
  BY <1>1, <1>3, TotalAdd
<1> QED BY <1>1, <1>4, TotalOne

-----------------------------------------------------------------------------
(* Images and the sets of what has one key *)

LEMMA Image ==
    ASSUME NEW S, IsFiniteSet(S), NEW f
    PROVE  IsFiniteSet({f[x] : x \in S})
<1> DEFINE T == {f[x] : x \in S}  g == [x \in S |-> f[x]]
<1>1. g \in Surjection(S, T)
  BY DEF Surjection
<1> HIDE DEF g
<1> QED BY <1>1, FS_Surjection

\* h adds up what g gives to the elements with the same key.
ByKey(S, g, key, h) ==
    \A c \in {key[x] : x \in S} : h[c] = Total({x \in S : key[x] = c}, g)

\* A sum may be taken by first adding up what has the same key.
LEMMA TotalFibres ==
    ASSUME NEW S, NEW g, Summable(S, g), NEW key, NEW h, ByKey(S, g, key, h)
    PROVE  Summable({key[x] : x \in S}, h) /\ Total({key[x] : x \in S}, h) = Total(S, g)
<1> DEFINE C == {key[x] : x \in S}
           At(D) == {x \in S : key[x] \in D}
           P == {D \in SUBSET C : Total(D, h) = Total(At(D), g)}
<1>1. IsFiniteSet(C)
  BY Image DEF Summable
<1>2. ASSUME NEW c \in C PROVE h[c] = Total(At({c}), g) /\ h[c] \in Int
  <2>0. h[c] = Total({x \in S : key[x] = c}, g)
    BY DEF ByKey
  <2>1. At({c}) = {x \in S : key[x] = c}
    OBVIOUS
  <2>2. Summable(At({c}), g)
    BY SummableSubset
  <2>3. Total(At({c}), g) \in Int
    <3> HIDE DEF At
    <3> QED BY <2>2, TotalType
  <2> QED BY <2>0, <2>1, <2>3
<1>3. Summable(C, h)
  BY <1>1, <1>2 DEF Summable
<1>4. {} \in P
  BY TotalEmpty
<1>5. ASSUME NEW D \in P \cap SUBSET C, NEW c \in C \ D PROVE D \cup {c} \in P
  <2>1. At(D \cup {c}) = At(D) \cup At({c}) /\ At(D) \cap At({c}) = {}
        /\ At(D) \cup At({c}) \in SUBSET S
    OBVIOUS
  <2>2. Total(D, h) = Total(At(D), g)
    OBVIOUS
  <2>3. Summable(D \cup {c}, h) /\ Summable(D, h)
    BY <1>3, SummableSubset
  <2> HIDE DEF At
  <2>4. Summable(At(D) \cup At({c}), g)
    BY <2>1, SummableSubset
  <2>5. Total(At(D \cup {c}), g) = Total(At(D), g) + Total(At({c}), g)
    <3> DEFINE X == At(D)  Y == At({c})
    <3>1. X \cap Y = {} /\ Summable(X \cup Y, g)
      BY <2>1, <2>4
    <3> HIDE DEF X, Y
    <3>2. Total(X \cup Y, g) = Total(X, g) + Total(Y, g)
      BY <3>1, TotalUnion
    <3> QED BY <2>1, <3>2 DEF X, Y
  <2>6. Total(D \cup {c}, h) = h[c] + Total(D, h)
    BY <2>3, TotalAdd
  <2>7. Total(D, h) \in Int
    BY <2>3, TotalType
  <2>8. Total(D \cup {c}, h) = Total(At(D \cup {c}), g)
    <3>1. h[c] = Total(At({c}), g) /\ h[c] \in Int
      BY <1>2
    <3> QED BY <2>2, <2>5, <2>6, <2>7, <3>1
  <2> QED BY <2>8
<1>6. SUBSET C \subseteq P
  <2> HIDE DEF P, C
  <2> QED BY <1>1, <1>4, <1>5, AllSubsets
<1>7. At(C) = S /\ C \in P
  BY <1>6
<1> QED BY <1>3, <1>7

\* Rounded down, a quotient reaches a bound exactly when the whole one does.
LEMMA DivReaches ==
    ASSUME NEW x \in Nat, NEW y \in Nat \ {0}, NEW q \in Nat
    PROVE  x \div y >= q <=> x >= q * y
OBVIOUS

LEMMA MaxPair ==
    ASSUME NEW a \in Int, NEW b \in Int
    PROVE  Max({a, b}) = IF b > a THEN b ELSE a
<1>1. \E x \in {a, b} : \A y \in {a, b} : x >= y
  OBVIOUS
<1> QED BY <1>1 DEF Max

LEMMA MaxOne == ASSUME NEW b \in Nat \ {0} PROVE Max({1, b}) = b
<1>1. Max({1, b}) = IF b > 1 THEN b ELSE 1
  BY MaxPair
<1> QED BY <1>1

\* The sums of the rows of a table, and of its columns.
RowSums(S, T, g, row) == \A x \in S : row[x] = Total(T, [y \in T |-> g[<<x, y>>]])
ColSums(S, T, g, col) == \A y \in T : col[y] = Total(S, [x \in S |-> g[<<x, y>>]])
Table(S, T, g) ==
    IsFiniteSet(S) /\ IsFiniteSet(T) /\ \A x \in S : \A y \in T : g[<<x, y>>] \in Int

\* The rows of a table have the same sum as its columns.
LEMMA TotalTurned ==
    ASSUME NEW S, NEW T, NEW g, Table(S, T, g),
           NEW row, RowSums(S, T, g, row), NEW col, ColSums(S, T, g, col)
    PROVE  Summable(S, row) /\ Summable(T, col) /\ Total(S, row) = Total(T, col)
<1>0. IsFiniteSet(S) /\ IsFiniteSet(T)
  BY DEF Table
<1> DEFINE across(x) == [y \in T |-> g[<<x, y>>]]
           down(y) == [x \in S |-> g[<<x, y>>]]
           upto(A) == [y \in T |-> Total(A, down(y))]
           P == {A \in SUBSET S : Total(A, row) = Total(T, upto(A))}
<1>1. \A x \in S : Summable(T, across(x)) /\ row[x] = Total(T, across(x))
  BY DEF Table, Summable, RowSums
<1>2. \A y \in T : Summable(S, down(y)) /\ col[y] = Total(S, down(y))
  BY DEF Table, Summable, ColSums
<1>3. Summable(S, row)
  <2> HIDE DEF across
  <2>1. \A x \in S : row[x] \in Int
    BY <1>1, TotalType
  <2> QED BY <1>0, <2>1 DEF Summable
<1>4. ASSUME NEW A \in SUBSET S, NEW y \in T
      PROVE  Summable(A, down(y)) /\ Total(A, down(y)) \in Int
  <2> HIDE DEF down
  <2>1. Summable(A, down(y))
    BY <1>2, SummableSubset
  <2> QED BY <2>1, TotalType
<1>5. ASSUME NEW A \in SUBSET S PROVE Summable(T, upto(A))
  <2> HIDE DEF down
  <2> QED BY <1>0, <1>4 DEF Summable
<1>6. {} \in P
  <2>1. \A y \in T : upto({})[y] = 0
    <3> HIDE DEF down
    <3> QED BY TotalEmpty
  <2>2. Cardinality(T) \in Nat
    BY <1>0, FS_CardinalityType
  <2>3. Total(T, upto({})) = 0
    <3> HIDE DEF upto
    <3>1. Total(T, upto({})) = 0 * Cardinality(T)
      BY <1>0, <2>1, TotalConstant
    <3> QED BY <2>2, <3>1
  <2>4. Total({}, row) = 0
    BY TotalEmpty
  <2> HIDE DEF upto
  <2> QED BY <2>3, <2>4
<1>7. ASSUME NEW A \in P \cap SUBSET S, NEW x \in S \ A PROVE A \cup {x} \in P
  <2>1. \A y \in T : upto(A \cup {x})[y] = across(x)[y] + upto(A)[y]
    <3> SUFFICES ASSUME NEW y \in T PROVE Total(A \cup {x}, down(y)) = across(x)[y] + Total(A, down(y))
      OBVIOUS
    <3>1. down(y)[x] = across(x)[y]
      OBVIOUS
    <3>2. Summable(A \cup {x}, down(y))
      <4> HIDE DEF down
      <4> QED BY <1>2, SummableSubset
    <3> HIDE DEF down, across
    <3>3. Total(A \cup {x}, down(y)) = down(y)[x] + Total(A, down(y))
      BY <3>2, TotalAdd
    <3> QED BY <3>1, <3>3
  <2>2. Summable(T, across(x)) /\ Summable(T, upto(A)) /\ row[x] = Total(T, across(x))
    BY <1>1, <1>5
  <2>3. Summable(A \cup {x}, row)
    BY <1>3, SummableSubset
  <2>4. Total(A, row) = Total(T, upto(A)) /\ A \cup {x} \in SUBSET S
    OBVIOUS
  <2> HIDE DEF upto, across
  <2>5. Total(T, upto(A \cup {x})) = Total(T, across(x)) + Total(T, upto(A))
    BY <2>1, <2>2, TotalPlus
  <2>6. Total(A \cup {x}, row) = row[x] + Total(A, row)
    BY <2>3, TotalAdd
  <2> QED BY <2>2, <2>4, <2>5, <2>6
<1>8. S \in P
  <2> HIDE DEF P
  <2> QED BY <1>0, <1>6, <1>7, AllSubsets
<1>9. Summable(T, upto(S)) /\ \A y \in T : col[y] = upto(S)[y]
  BY <1>2, <1>5
<1>10. Total(S, row) = Total(T, upto(S))
  BY <1>8
<1> HIDE DEF upto
<1>11. Total(T, col) = Total(T, upto(S)) /\ Summable(T, col)
  BY <1>9, TotalSame DEF Summable
<1> QED BY <1>3, <1>10, <1>11

\* What is worth the same in A and nothing outside adds up to the number of A.
LEMMA TotalCount ==
    ASSUME NEW S, IsFiniteSet(S), NEW A \in SUBSET S, NEW k \in Int, NEW g,
           \A x \in S : g[x] = IF x \in A THEN k ELSE 0
    PROVE  Summable(S, g) /\ Total(S, g) = k * Cardinality(A)
<1> DEFINE B == S \ A
<1>1. A \cup B = S /\ A \cap B = {} /\ IsFiniteSet(A) /\ IsFiniteSet(B)
  BY FS_Subset
<1>2. Summable(S, g)
  BY DEF Summable
<1>3. (\A x \in A : g[x] = k) /\ (\A x \in B : g[x] = 0)
  OBVIOUS
<1>4. Cardinality(A) \in Nat /\ Cardinality(B) \in Nat
  BY <1>1, FS_CardinalityType
<1> HIDE DEF B
<1>5. Total(A, g) = k * Cardinality(A)
  BY <1>1, <1>3, TotalConstant
<1>6. Total(B, g) = 0 * Cardinality(B)
  BY <1>1, <1>3, TotalConstant
<1>7. Total(A \cup B, g) = Total(A, g) + Total(B, g)
  BY <1>1, <1>2, TotalUnion
<1>8. k * Cardinality(A) \in Int /\ 0 * Cardinality(B) = 0
  BY <1>4
<1>9. Total(A \cup B, g) = k * Cardinality(A)
  BY <1>5, <1>6, <1>7, <1>8
<1> QED BY <1>1, <1>2, <1>9

-----------------------------------------------------------------------------
(* The places that are kept, in their order *)

\* How many places of K come up to k.
Upto(K, k) == Cardinality({j \in K : j <= k})

LEMMA UptoOrder ==
    ASSUME NEW K \in SUBSET Int, IsFiniteSet(K), NEW j \in K, NEW k \in K
    PROVE  /\ Upto(K, k) \in 1 .. Cardinality(K)
           /\ j < k => Upto(K, j) < Upto(K, k)
<1> DEFINE A(i) == {n \in K : n <= i}
<1>1. \A i \in K : IsFiniteSet(A(i)) /\ Cardinality(A(i)) \in Nat /\ Cardinality(A(i)) <= Cardinality(K)
  BY CountSubset
<1>2. k \in A(k)
  OBVIOUS
<1>3. Cardinality(A(k)) # 0 /\ Cardinality(K) \in Nat
  BY <1>1, <1>2, FS_EmptySet, FS_CardinalityType
<1>4. ASSUME j < k PROVE Cardinality(A(j)) < Cardinality(A(k))
  <2>1. k \notin A(j) /\ A(j) \cup {k} \in SUBSET A(k)
    <3>1. k \in Int /\ j \in Int /\ \A n \in K : n \in Int
      OBVIOUS
    <3>2. \A n \in K : n <= j => n <= k
      BY <1>4, <3>1
    <3>3. ~(k <= j)
      BY <1>4, <3>1
    <3>4. k \notin A(j) /\ A(j) \subseteq A(k)
      BY <3>2, <3>3
    <3> HIDE DEF A
    <3> QED BY <1>2, <3>4
  <2>2. IsFiniteSet(A(j)) /\ IsFiniteSet(A(k)) /\ Cardinality(A(j)) \in Nat /\ Cardinality(A(k)) \in Nat
    BY <1>1
  <2> HIDE DEF A
  <2>3. Cardinality(A(j) \cup {k}) = Cardinality(A(j)) + 1
    BY <2>1, <2>2, FS_AddElement
  <2>4. Cardinality(A(j) \cup {k}) <= Cardinality(A(k))
    BY <2>1, <2>2, CountSubset
  <2> QED BY <2>2, <2>3, <2>4
<1> QED BY <1>1, <1>3, <1>4 DEF Upto

\* Every number up to that of the places is that of one place, and of one only.
LEMMA NthIs ==
    ASSUME NEW K \in SUBSET Int, IsFiniteSet(K)
    PROVE  /\ \A n \in 1 .. Cardinality(K) : Nth(K, n) \in K /\ Upto(K, Nth(K, n)) = n
           /\ \A k \in K : Nth(K, Upto(K, k)) = k
<1> DEFINE f == [k \in K |-> Upto(K, k)]  N == 1 .. Cardinality(K)
<1>1. Cardinality(K) \in Nat
  BY FS_CardinalityType
<1>2. IsFiniteSet(N) /\ Cardinality(N) = Cardinality(K)
  BY <1>1, CountUpTo
<1>3. \A j, k \in K : f[k] \in N /\ (f[j] = f[k] => j = k)
  <2> SUFFICES ASSUME NEW j \in K, NEW k \in K PROVE f[k] \in N /\ (f[j] = f[k] => j = k)
    OBVIOUS
  <2>1. /\ Upto(K, k) \in N /\ Upto(K, j) \in N
        /\ (j < k => Upto(K, j) < Upto(K, k)) /\ (k < j => Upto(K, k) < Upto(K, j))
    BY UptoOrder
  <2>2. j = k \/ j < k \/ k < j
    OBVIOUS
  <2> QED BY <1>1, <2>1, <2>2
<1>4. f \in Injection(K, N)
  <2>1. f \in [K -> N]
    BY <1>3
  <2> HIDE DEF f
  <2> QED BY <1>3, <2>1 DEF Injection, IsInjective
<1>5. f \in Surjection(K, N)
  <2> HIDE DEF f, N
  <2> QED BY <1>2, <1>4, FS_Injection
<1>6. \A n \in N : \E k \in K : Upto(K, k) = n
  BY <1>5 DEF Surjection
<1>7. \A n \in N : Nth(K, n) \in K /\ Upto(K, Nth(K, n)) = n
  <2>1. \A n : Nth(K, n) = CHOOSE k \in K : Upto(K, k) = n
    BY DEF Nth, Upto
  <2> QED BY <1>6, <2>1
<1>8. \A k \in K : Nth(K, Upto(K, k)) = k
  <2> SUFFICES ASSUME NEW k \in K PROVE Nth(K, Upto(K, k)) = k
    OBVIOUS
  <2>1. Upto(K, k) \in N
    BY <1>3
  <2>2. Nth(K, Upto(K, k)) \in K /\ f[Nth(K, Upto(K, k))] = f[k]
    BY <1>7, <2>1
  <2> QED BY <1>3, <2>2
<1> QED BY <1>7, <1>8

\* A map that is one to one counts.
LEMMA SameCount ==
    ASSUME NEW A, NEW B, IsFiniteSet(B), NEW f,
           \A x \in A : f[x] \in B, \A x, y \in A : f[x] = f[y] => x = y,
           \A y \in B : \E x \in A : f[x] = y
    PROVE  IsFiniteSet(A) /\ Cardinality(A) = Cardinality(B)
<1> DEFINE g == [x \in A |-> f[x]]
<1>1. g \in [A -> B]
  OBVIOUS
<1>2. (\A x, y \in A : g[x] = g[y] => x = y) /\ \A y \in B : \E x \in A : g[x] = y
  OBVIOUS
<1> HIDE DEF g
<1>3. g \in Injection(A, B) /\ g \in Surjection(A, B)
  BY <1>1, <1>2 DEF Injection, Surjection, IsInjective
<1> QED BY <1>3, FS_Injection

\* As many numbers stand for a kept place in A as A has places.
LEMMA KeptCount ==
    ASSUME NEW K \in SUBSET Int, IsFiniteSet(K), NEW A \in SUBSET K, NEW N, N = 1 .. Cardinality(K)
    PROVE  Cardinality({n \in N : Nth(K, n) \in A}) = Cardinality(A)
<1> DEFINE B == {n \in N : Nth(K, n) \in A}  f == [n \in N |-> Nth(K, n)]
<1>1. IsFiniteSet(A)
  BY FS_Subset
<1>2. \A n \in B : f[n] \in A
  OBVIOUS
<1>3. \A m, n \in B : f[m] = f[n] => m = n
  <2> SUFFICES ASSUME NEW m \in B, NEW n \in B, f[m] = f[n] PROVE m = n
    OBVIOUS
  <2>1. Upto(K, Nth(K, m)) = m /\ Upto(K, Nth(K, n)) = n
    BY NthIs
  <2> QED BY <2>1
<1>4. \A k \in A : \E n \in B : f[n] = k
  <2> SUFFICES ASSUME NEW k \in A PROVE \E n \in B : f[n] = k
    OBVIOUS
  <2>1. Nth(K, Upto(K, k)) = k /\ Upto(K, k) \in N
    BY NthIs, UptoOrder
  <2>2. Upto(K, k) \in B /\ f[Upto(K, k)] = k
    BY <2>1
  <2> QED BY <2>2
<1> HIDE DEF B, f
<1>5. Cardinality(B) = Cardinality(A)
  BY <1>1, <1>2, <1>3, <1>4, SameCount
<1> QED BY <1>5 DEF B

\* The elements of a set in two sequences one after the other.
Within(s, W) == {k \in DOMAIN s : s[k] \in W}

LEMMA ConcatCount ==
    ASSUME NEW V, NEW s \in Seq(V), NEW t \in Seq(V), NEW W
    PROVE  /\ Cardinality(Within(s \o t, W)) = Cardinality(Within(s, W)) + Cardinality(Within(t, W))
           /\ Cardinality(Within(s, W)) \in Nat /\ Cardinality(Within(t, W)) \in Nat
<1>1. /\ DOMAIN s = 1 .. Len(s) /\ Len(s) \in Nat /\ DOMAIN t = 1 .. Len(t) /\ Len(t) \in Nat
      /\ DOMAIN (s \o t) = 1 .. Len(s) + Len(t)
      /\ \A i \in 1 .. Len(s) + Len(t) :
           (s \o t)[i] = IF i <= Len(s) THEN s[i] ELSE t[i - Len(s)]
  BY ConcatProperties, LenProperties
<1> DEFINE A == Within(s, W)  B == Within(t, W)  C == {k \in Within(s \o t, W) : k > Len(s)}
           f == [k \in C |-> k - Len(s)]
<1>2. IsFiniteSet(A) /\ IsFiniteSet(B) /\ Cardinality(A) \in Nat /\ Cardinality(B) \in Nat
  <2>1. A \in SUBSET (1 .. Len(s)) /\ B \in SUBSET (1 .. Len(t))
    BY <1>1 DEF Within
  <2>2. IsFiniteSet(1 .. Len(s)) /\ IsFiniteSet(1 .. Len(t))
    BY <1>1, CountUpTo
  <2> HIDE DEF A, B
  <2> QED BY <2>1, <2>2, CountSubset
<1>3. Within(s \o t, W) = A \cup C /\ A \cap C = {}
  <2>1. \A k \in 1 .. Len(s) + Len(t) :
          k \in Within(s \o t, W) <=> (IF k <= Len(s) THEN s[k] ELSE t[k - Len(s)]) \in W
    BY <1>1 DEF Within
  <2>2. \A k \in Within(s \o t, W) : k \in 1 .. Len(s) + Len(t)
    BY <1>1 DEF Within
  <2>3. \A k : k \in A <=> k \in 1 .. Len(s) /\ s[k] \in W
    BY <1>1 DEF Within
  <2>4. \A k \in A : k \in Within(s \o t, W) /\ ~(k > Len(s))
    BY <1>1, <2>1, <2>3
  <2>5. \A k \in Within(s \o t, W) : k \in A \/ k \in C
    BY <1>1, <2>1, <2>2, <2>3
  <2> QED BY <2>4, <2>5
<1>4. \A k \in C : /\ k \in Int /\ f[k] = k - Len(s) /\ f[k] \in B
  <2> SUFFICES ASSUME NEW k \in C PROVE k \in Int /\ f[k] = k - Len(s) /\ f[k] \in B
    OBVIOUS
  <2>1. k \in 1 .. Len(s) + Len(t) /\ k > Len(s) /\ (s \o t)[k] \in W
    BY <1>1 DEF Within
  <2>2. t[k - Len(s)] \in W /\ k - Len(s) \in 1 .. Len(t)
    BY <1>1, <2>1
  <2> QED BY <1>1, <2>1, <2>2 DEF Within
<1>5. \A j, k \in C : f[j] = f[k] => j = k
  <2> HIDE DEF C, f
  <2> QED BY <1>1, <1>4
<1>6. \A k \in B : \E j \in C : f[j] = k
  <2> SUFFICES ASSUME NEW k \in B PROVE \E j \in C : f[j] = k
    OBVIOUS
  <2>1. k \in 1 .. Len(t) /\ t[k] \in W
    BY <1>1 DEF Within
  <2>2. k + Len(s) \in 1 .. Len(s) + Len(t) /\ k + Len(s) > Len(s) /\ (k + Len(s)) - Len(s) = k
    BY <1>1, <2>1
  <2>3. (s \o t)[k + Len(s)] = t[k]
    BY <1>1, <2>2
  <2>4. k + Len(s) \in C /\ f[k + Len(s)] = k
    BY <1>1, <2>1, <2>2, <2>3 DEF Within
  <2> QED BY <2>4
<1> HIDE DEF A, B, C, f
<1>7. IsFiniteSet(C) /\ Cardinality(C) = Cardinality(B)
  BY <1>2, <1>4, <1>5, <1>6, SameCount
<1>8. Cardinality(A \cup C) = Cardinality(A) + Cardinality(C)
  BY <1>2, <1>3, <1>7, CountUnion
<1> QED BY <1>2, <1>3, <1>7, <1>8 DEF A, B

-----------------------------------------------------------------------------
(* The greatest, the least and the best of a finite set *)

\* k is no worse than j: it has a greater weight, or the same and comes first.
NoWorse(w, k, j) == w[j] < w[k] \/ (w[j] = w[k] /\ k <= j)

\* A finite set of places that is not empty has a best one.
LEMMA BestOf ==
    ASSUME NEW S \in SUBSET Nat, IsFiniteSet(S), NEW w, \A k \in S : w[k] \in Nat, S # {}
    PROVE  \E k \in S : \A j \in S : NoWorse(w, k, j)
<1> DEFINE Best(T, k) == k \in T /\ \A j \in T : NoWorse(w, k, j)
           P == {T \in SUBSET S : T = {} \/ \E k \in S : Best(T, k)}
<1>1. ASSUME NEW T \in P, NEW x \in S \ T PROVE T \cup {x} \in P
  <2>1. T \in SUBSET S /\ T \cup {x} \in SUBSET S /\ x \in Nat /\ w[x] \in Nat
    OBVIOUS
  <2>2. CASE T = {}
    <3>1. Best(T \cup {x}, x)
      BY <2>1, <2>2 DEF NoWorse
    <3> HIDE DEF Best
    <3> QED BY <2>1, <3>1
  <2>3. CASE T # {}
    <3>1. PICK k \in S : Best(T, k)
      BY <2>3
    <3>2. CASE NoWorse(w, k, x)
      <4>1. Best(T \cup {x}, k)
        BY <3>1, <3>2
      <4> HIDE DEF Best
      <4> QED BY <2>1, <4>1
    <3>3. CASE ~NoWorse(w, k, x)
      <4>1. k \in Nat /\ w[k] \in Nat /\ \A j \in T : j \in Nat /\ w[j] \in Nat
        BY <2>1
      <4>2. NoWorse(w, x, k) /\ NoWorse(w, x, x)
        BY <2>1, <3>3, <4>1 DEF NoWorse
      <4>3. \A j \in T : NoWorse(w, x, j)
        BY <2>1, <3>1, <4>1, <4>2 DEF NoWorse
      <4>4. Best(T \cup {x}, x)
        BY <4>2, <4>3
      <4> HIDE DEF Best
      <4> QED BY <2>1, <4>4
    <3> QED BY <3>2, <3>3
  <2> QED BY <2>2, <2>3
<1>2. {} \in P
  OBVIOUS
<1>3. S \in P
  <2>1. \A T \in P \cap SUBSET S : \A x \in S \ T : T \cup {x} \in P
    BY <1>1
  <2> HIDE DEF P
  <2> QED BY <1>2, <2>1, AllSubsets
<1> QED BY <1>3

LEMMA MaxIs ==
    ASSUME NEW S \in SUBSET Nat, IsFiniteSet(S), S # {}
    PROVE  Max(S) \in S /\ \A j \in S : j <= Max(S)
<1> DEFINE w == [k \in S |-> k]
<1>1. PICK k \in S : \A j \in S : NoWorse(w, k, j)
  BY BestOf
<1>2. \A j \in S : k >= j
  BY <1>1 DEF NoWorse
<1>3. Max(S) \in S /\ \A j \in S : Max(S) >= j
  BY <1>2 DEF Max
<1> QED BY <1>3

\* A sequence of numbers has an nth smallest for each of its places.
LEMMA NthValueIs ==
    ASSUME NEW s, NEW n \in Nat, DOMAIN s = 1 .. n, \A k \in 1 .. n : s[k] \in Nat, NEW p \in 1 .. n
    PROVE  NthValue(s, p) \in Nat
<1> DEFINE D == 1 .. n  V == {s[k] : k \in D}
           below(v) == {k \in D : s[k] < v}  upto(v) == {k \in D : s[k] <= v}
           G == {v \in V : p <= Cardinality(upto(v))}
<1>1. IsFiniteSet(D) /\ Cardinality(D) = n
  BY CountUpTo
<1>2. V \in SUBSET Nat /\ IsFiniteSet(V)
  BY <1>1, Image
<1>3. p \in Nat /\ p >= 1 /\ p <= n /\ p \in D
  OBVIOUS
<1>4. \A v : below(v) \in SUBSET D /\ upto(v) \in SUBSET D
  OBVIOUS
<1>5. G # {}
  <2>1. V # {}
    BY <1>3
  <2> HIDE DEF V
  <2>2. Max(V) \in V /\ \A v \in V : v <= Max(V)
    BY <1>2, <2>1, MaxIs
  <2>3. upto(Max(V)) = D
    BY <2>2 DEF V
  <2>4. Cardinality(upto(Max(V))) = n
    BY <1>1, <2>3
  <2> HIDE DEF upto
  <2>5. Max(V) \in G
    BY <1>3, <2>2, <2>4
  <2> QED BY <2>5
<1>6. PICK v \in G : \A u \in G : v <= u
  <2>1. G \in SUBSET Nat
    BY <1>2
  <2> HIDE DEF G
  <2> QED BY <1>5, <2>1, LeastNumber
<1>7. v \in V /\ v \in Nat /\ p <= Cardinality(upto(v))
  BY <1>2, <1>6
<1>8. Cardinality(below(v)) < p
  <2>1. IsFiniteSet(below(v)) /\ Cardinality(below(v)) \in Nat
    BY <1>1, <1>4, CountSubset
  <2> SUFFICES ASSUME p <= Cardinality(below(v)) PROVE FALSE
    <3> HIDE DEF below
    <3> QED BY <1>3, <2>1
  <2> DEFINE L == {s[k] : k \in below(v)}
  <2>2. below(v) # {}
    <3> HIDE DEF below
    <3> QED BY <1>3, <2>1, FS_EmptySet
  <2>3. L \in SUBSET Nat /\ L # {} /\ IsFiniteSet(L) /\ L \subseteq V /\ \A u \in L : u < v
    <3>1. IsFiniteSet(L)
      <4> HIDE DEF below
      <4> QED BY <2>1, Image
    <3> QED BY <2>2, <3>1
  <2> HIDE DEF L
  <2>4. Max(L) \in L /\ \A u \in L : u <= Max(L)
    BY <2>3, MaxIs
  <2> DEFINE top == Max(L)
  <2>5. top \in V /\ top \in Nat /\ top < v
    BY <2>3, <2>4
  <2>6. below(v) \subseteq upto(top)
    BY <2>4 DEF L
  <2>7. /\ IsFiniteSet(upto(top)) /\ Cardinality(upto(top)) \in Nat
    BY <1>1, <1>4, CountSubset
  <2> HIDE DEF below, upto, top
  <2>8. Cardinality(below(v)) <= Cardinality(upto(top))
    BY <2>6, <2>7, CountSubset
  <2>9. p <= Cardinality(upto(top))
    BY <1>3, <2>1, <2>7, <2>8
  <2>10. v <= top
    BY <1>6, <2>5, <2>9
  <2> QED BY <1>7, <2>5, <2>10
<1>9. NthValue(s, p) = CHOOSE u \in V : Cardinality(below(u)) < p /\ p <= Cardinality(upto(u))
  BY DEF NthValue
<1> HIDE DEF V, below, upto
<1>10. NthValue(s, p) \in V
  BY <1>7, <1>8, <1>9
<1> QED BY <1>2, <1>10

-----------------------------------------------------------------------------
(* Quotients and shares *)

LEMMA DivMod ==
    ASSUME NEW w \in Nat \ {0}, NEW a \in Nat
    PROVE  a \div w \in Nat /\ a % w \in 0 .. w - 1 /\ a = w * (a \div w) + (a % w)
<1>1. a % w \in 0 .. w - 1
  OBVIOUS
<1>2. a \div w \in Int
  OBVIOUS
<1>3. a = w * (a \div w) + (a % w)
  OBVIOUS
<1>4. a \div w >= 0
  OBVIOUS
<1> QED BY <1>1, <1>2, <1>3, <1>4

\* A quotient and a rest belong to one number.
LEMMA DivUnique ==
    ASSUME NEW w \in Nat \ {0}, NEW x \in Nat, NEW y \in 0 .. w - 1,
           NEW u \in Nat, NEW v \in 0 .. w - 1, w * x + y = w * u + v
    PROVE  x = u /\ y = v
<1>1. w * x \in Nat /\ w * u \in Nat
  OBVIOUS
<1>2. ~(x < u)
  <2> SUFFICES ASSUME x < u PROVE FALSE
    OBVIOUS
  <2>1. w * (x + 1) <= w * u
    BY TimesOrder
  <2>2. w * (x + 1) = w * x + w
    OBVIOUS
  <2> QED BY <1>1, <2>1, <2>2
<1>3. ~(u < x)
  <2> SUFFICES ASSUME u < x PROVE FALSE
    OBVIOUS
  <2>1. w * (u + 1) <= w * x
    BY TimesOrder
  <2>2. w * (u + 1) = w * u + w
    OBVIOUS
  <2> QED BY <1>1, <2>1, <2>2
<1>4. x = u
  BY <1>2, <1>3
<1> QED BY <1>1, <1>4

\* The number of a config's test of a class, both counted from 0.
LEMMA TestNumber ==
    ASSUME NEW n \in Nat, NEW w \in Nat, NEW x \in Nat, x < n, NEW y \in 0 .. w - 1
    PROVE  /\ w * x + y \in Nat /\ w * x + y < n * w
           /\ (w * x + y) \div w = x /\ (w * x + y) % w = y
<1> DEFINE a == w * x + y
<1>1. w \in Nat \ {0} /\ w * x \in Nat /\ y \in Nat
  OBVIOUS
<1>2. a \in Nat
  BY <1>1
<1>3. w * (x + 1) <= w * n
  BY TimesOrder
<1>4. w * (x + 1) = w * x + w /\ w * n = n * w
  OBVIOUS
<1>5. a < n * w
  BY <1>1, <1>3, <1>4
<1>6. a \div w \in Nat /\ a % w \in 0 .. w - 1 /\ a = w * (a \div w) + (a % w)
  <2> HIDE DEF a
  <2> QED BY <1>1, <1>2, DivMod
<1>7. a \div w = x /\ a % w = y
  <2> DEFINE u == a \div w  v == a % w
  <2>1. u \in Nat /\ v \in 0 .. w - 1 /\ w * x + y = w * u + v
    BY <1>6
  <2> HIDE DEF u, v
  <2>2. x = u /\ y = v
    BY <1>1, <2>1, DivUnique
  <2> QED BY <2>2 DEF u, v
<1> QED BY <1>2, <1>5, <1>7

LEMMA NumberedTest ==
    ASSUME NEW n \in Nat, NEW w \in Nat, NEW a \in Nat, a < n * w
    PROVE  /\ a \div w \in Nat /\ a \div w < n /\ a % w \in 0 .. w - 1
           /\ a = w * (a \div w) + (a % w)
<1>1. w # 0
  BY SMT
<1>2. a \div w \in Nat /\ a % w \in 0 .. w - 1 /\ a = w * (a \div w) + (a % w)
  BY <1>1, DivMod
<1>3. a \div w < n
  <2> DEFINE x == a \div w
  <2> SUFFICES ASSUME ~(x < n) PROVE FALSE
    OBVIOUS
  <2>1. x \in Nat /\ n <= x /\ w * x <= a
    BY <1>2
  <2> HIDE DEF x
  <2>2. w * n <= w * x
    BY <2>1, TimesOrder
  <2> QED BY <2>1, <2>2
<1> QED BY <1>2, <1>3

\* A number that a divisor divides, in parts of it.
LEMMA PartsOf ==
    ASSUME NEW parts \in Nat \ {0}, NEW n \in Nat \ {0}, parts % n = 0
    PROVE  parts \div n \in Nat \ {0} /\ parts = n * (parts \div n)
<1>1. parts \div n \in Nat /\ parts = n * (parts \div n) + (parts % n)
  BY DivMod
<1> DEFINE x == parts \div n
<1>2. x \in Nat /\ parts = n * x
  <2>1. n * x \in Nat
    BY <1>1
  <2> QED BY <1>1, <2>1
<1> HIDE DEF x
<1>3. x # 0
  BY <1>2
<1> QED BY <1>2, <1>3 DEF x

LEMMA TimesTells ==
    ASSUME NEW a \in Int, NEW b \in Int, NEW k \in Nat \ {0}
    PROVE  a > b <=> k * a > k * b
<1>1. a > b => k * b < k * a
  BY TimesStrict
<1>2. a <= b => k * a <= k * b
  BY TimesOrder
<1>3. k * a \in Int /\ k * b \in Int
  OBVIOUS
<1> QED BY <1>1, <1>2, <1>3

\* Two shares of a whole compare as the products across.
LEMMA Shares ==
    ASSUME NEW a \in Nat, NEW c \in Nat, NEW b \in Nat, NEW d \in Nat,
           NEW x \in Nat \ {0}, NEW y \in Nat \ {0},
           a + c # 0, b + d # 0, (a + c) * x = (b + d) * y
    PROVE  a * x > b * y <=> a * d > b * c
<1> DEFINE n == a + c  m == b + d  P == n * x
<1>1. n \in Nat \ {0} /\ m \in Nat \ {0} /\ n * x = m * y
  OBVIOUS
<1>2. a * m > b * n <=> a * d > b * c
  <2>1. a * m = a * b + a * d /\ b * n = a * b + b * c
    OBVIOUS
  <2>2. a * b \in Int /\ a * d \in Int /\ b * c \in Int
    OBVIOUS
  <2> HIDE DEF n, m
  <2> QED BY <2>1, <2>2
<1> HIDE DEF n, m
<1>3. P \in Nat \ {0} /\ P = m * y
  BY <1>1
<1>4. n * m \in Nat \ {0}
  BY <1>1
<1>5. a * x \in Int /\ b * y \in Int /\ a * m \in Int /\ b * n \in Int
  BY <1>1
<1>6. a * x > b * y <=> (n * m) * (a * x) > (n * m) * (b * y)
  BY <1>4, <1>5, TimesTells
<1>7. (n * m) * (a * x) = P * (a * m)
  BY <1>1
<1>8. (n * m) * (b * y) = (m * y) * (b * n)
  BY <1>1
<1>9. a * m > b * n <=> P * (a * m) > P * (b * n)
  <2> HIDE DEF P
  <2> QED BY <1>3, <1>5, TimesTells
<1>10. (m * y) * (b * n) = P * (b * n)
  BY <1>3
<1> QED BY <1>2, <1>6, <1>7, <1>8, <1>9, <1>10 DEF n, m
=============================================================================
