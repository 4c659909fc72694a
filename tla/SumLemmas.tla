------------------------------ MODULE SumLemmas ------------------------------
(***************************************************************************)
(* The sum of a function over a finite set, SumFunctionOnSet, with which   *)
(* the models add up amounts, deposits and losses.  The induction behind   *)
(* these facts is the choice of a least counterexample, so that nothing in *)
(* them is of a higher order.                                              *)
(***************************************************************************)
EXTENDS Integers, Functions, FiniteSetTheorems, WellFoundedInduction, TLAPS

------------------------------------------------------------------------------
(* Induction *)

\* A set of numbers has a least one.
LEMMA LeastExists ==
    ASSUME NEW T, T \subseteq Nat, T # {}
    PROVE  \E i \in T : \A j \in T : i <= j
<1>1. \E i \in T : \A j \in T : ~ (<<j, i>> \in OpToRel(<, Nat))
  BY NatLessThanWellFounded, WFMin, Zenon
<1>2. PICK i \in T : \A j \in T : ~ (<<j, i>> \in OpToRel(<, Nat))
  BY <1>1
<1>3. ASSUME NEW j \in T PROVE i <= j
  <2>1. <<j, i>> \in Nat \X Nat
    OBVIOUS
  <2>2. ~ (j < i)
    BY <1>2, <2>1, Zenon DEF OpToRel
  <2> QED BY <2>2
<1> QED BY <1>3

\* A set with 0 and the successor of each of its numbers has all numbers.
LEMMA AllNumbers ==
    ASSUME NEW G, 0 \in G, \A n \in Nat : n \in G => n + 1 \in G
    PROVE  Nat \subseteq G
<1> SUFFICES ASSUME Nat \ G # {} PROVE FALSE
  OBVIOUS
<1>1. PICK m \in Nat \ G : \A k \in Nat \ G : m <= k
  BY LeastExists
<1>2. m - 1 \in Nat /\ m - 1 \notin Nat \ G
  BY <1>1
<1> QED BY <1>1, <1>2

First(s) == CHOOSE x \in s : TRUE
Rest(s) == s \ {First(s)}

\* The rest of a finite set is one smaller.
LEMMA RestSmaller ==
    ASSUME NEW s, IsFiniteSet(s), s # {}
    PROVE  /\ First(s) \in s /\ IsFiniteSet(Rest(s))
           /\ Cardinality(s) \in Nat /\ Cardinality(Rest(s)) \in Nat
           /\ Cardinality(Rest(s)) = Cardinality(s) - 1
<1>1. First(s) \in s
  BY DEF First
<1> QED BY <1>1, FS_RemoveElement, FS_CardinalityType DEF Rest

\* What holds of a set if it holds of it without any one of its elements, holds
\* of all subsets of a finite set.
LEMMA AllSubsets ==
    ASSUME NEW S, IsFiniteSet(S), NEW G,
           \A s \in SUBSET S : (\A x \in s : s \ {x} \in G) => s \in G
    PROVE  SUBSET S \subseteq G
<1> DEFINE N == {n \in Nat : \A s \in SUBSET S : Cardinality(s) <= n => s \in G}
<1>1. \A s \in SUBSET S : IsFiniteSet(s) /\ Cardinality(s) \in Nat
  BY FS_Subset, FS_CardinalityType
<1>2. 0 \in N
  <2> SUFFICES ASSUME NEW s \in SUBSET S, Cardinality(s) <= 0 PROVE s \in G
    OBVIOUS
  <2>1. Cardinality(s) = 0
    BY <1>1
  <2>2. s = {}
    BY <1>1, <2>1, FS_EmptySet
  <2> QED BY <2>2
<1>3. ASSUME NEW n \in Nat, n \in N PROVE n + 1 \in N
  <2> SUFFICES ASSUME NEW s \in SUBSET S, Cardinality(s) <= n + 1 PROVE s \in G
    OBVIOUS
  <2>1. ASSUME NEW x \in s PROVE s \ {x} \in G
    <3>1. Cardinality(s \ {x}) = Cardinality(s) - 1
      BY <1>1, FS_RemoveElement
    <3>2. Cardinality(s \ {x}) <= n /\ s \ {x} \in SUBSET S
      BY <1>1, <3>1
    <3> QED BY <1>3, <3>2
  <2> QED BY <2>1
<1>4. Nat \subseteq N
  <2> HIDE DEF N
  <2> QED BY <1>2, <1>3, AllNumbers
<1> QED BY <1>1, <1>4

------------------------------------------------------------------------------
(* The recursion behind the sum *)

\* g adds up f over each set of D.
Adds(f, g, D) == g = [s \in D |-> IF s = {} THEN 0 ELSE f[First(s)] + g[Rest(s)]]

\* g adds up f over each subset of S.
Adder(f, g, S) == Adds(f, g, SUBSET S)

LEMMA SumUnfolds ==
    ASSUME NEW f, NEW S
    PROVE  SumFunctionOnSet(f, S) = (CHOOSE g : Adder(f, g, S))[S]
BY DEF SumFunctionOnSet, FoldFunctionOnSet, MapThenFoldSet, Adder, Adds, First, Rest

LEMMA AdderExists ==
    ASSUME NEW f, NEW S, IsFiniteSet(S)
    PROVE  \E g : Adder(f, g, S)
<1> DEFINE D(n) == {s \in SUBSET S : Cardinality(s) <= n}
           N == {n \in Nat : \E g : Adds(f, g, D(n))}
<1>1. \A s \in SUBSET S : IsFiniteSet(s) /\ Cardinality(s) \in Nat
  BY FS_Subset, FS_CardinalityType
<1>2. \A s \in SUBSET S : s # {} =>
        Rest(s) \in SUBSET S /\ Cardinality(Rest(s)) = Cardinality(s) - 1
  BY <1>1, RestSmaller DEF Rest
<1>3. 0 \in N
  <2> DEFINE g == [s \in D(0) |-> 0]
  <2>1. \A s \in D(0) : s = {}
    BY <1>1, FS_EmptySet
  <2>2. g = [s \in D(0) |-> IF s = {} THEN 0 ELSE f[First(s)] + g[Rest(s)]]
    BY <2>1
  <2> QED BY <2>2 DEF Adds
<1>4. ASSUME NEW n \in Nat, n \in N PROVE n + 1 \in N
  <2>1. PICK g : g = [s \in D(n) |-> IF s = {} THEN 0 ELSE f[First(s)] + g[Rest(s)]]
    BY <1>4 DEF Adds
  <2> DEFINE h == [s \in D(n + 1) |-> IF s = {} THEN 0 ELSE f[First(s)] + g[Rest(s)]]
  <2>2. ASSUME NEW s \in D(n + 1), s # {} PROVE h[Rest(s)] = g[Rest(s)]
    <3>1. Rest(s) \in D(n) /\ Rest(s) \in D(n + 1)
      BY <1>1, <1>2, <2>2
    <3> HIDE DEF D
    <3>2. h[Rest(s)] = IF Rest(s) = {} THEN 0 ELSE f[First(Rest(s))] + g[Rest(Rest(s))]
      BY <3>1
    <3>3. g[Rest(s)] = IF Rest(s) = {} THEN 0 ELSE f[First(Rest(s))] + g[Rest(Rest(s))]
      BY <2>1, <3>1
    <3> QED BY <3>2, <3>3
  <2>3. h = [s \in D(n + 1) |-> IF s = {} THEN 0 ELSE f[First(s)] + h[Rest(s)]]
    <3> HIDE DEF D
    <3> QED BY <2>2
  <2>4. Adds(f, h, D(n + 1))
    BY <2>3 DEF Adds
  <2> QED BY <2>4
<1>5. Nat \subseteq N
  <2> HIDE DEF N
  <2> QED BY <1>3, <1>4, AllNumbers
<1>6. Cardinality(S) \in N
  BY <1>1, <1>5
<1>7. D(Cardinality(S)) = SUBSET S
  BY <1>1, FS_Subset
<1> QED BY <1>6, <1>7 DEF Adder

\* Two of them agree wherever both are defined.
LEMMA AddersAgree ==
    ASSUME NEW f, NEW S, NEW T, IsFiniteSet(T), S \subseteq T,
           NEW g, Adder(f, g, S), NEW h, Adder(f, h, T)
    PROVE  g[S] = h[S]
<1> DEFINE G == {s \in SUBSET S : g[s] = h[s]}
<1>1. IsFiniteSet(S)
  BY FS_Subset
<1>2. \A s \in SUBSET S : /\ g[s] = IF s = {} THEN 0 ELSE f[First(s)] + g[Rest(s)]
                         /\ h[s] = IF s = {} THEN 0 ELSE f[First(s)] + h[Rest(s)]
  BY DEF Adder, Adds
<1>3. ASSUME NEW s \in SUBSET S, \A x \in s : s \ {x} \in G PROVE s \in G
  <2>1. s # {} => Rest(s) \in G
    BY <1>3 DEF Rest, First
  <2> QED BY <1>2, <2>1
<1>4. SUBSET S \subseteq G
  <2> HIDE DEF G
  <2> QED BY <1>1, <1>3, AllSubsets
<1> QED BY <1>4

\* The sum of nothing is zero, and any other is one value more than the sum of
\* the rest.
LEMMA SumStep ==
    ASSUME NEW f, NEW S, IsFiniteSet(S)
    PROVE  SumFunctionOnSet(f, S) = IF S = {} THEN 0 ELSE f[First(S)] + SumFunctionOnSet(f, Rest(S))
<1> DEFINE g == CHOOSE g : Adder(f, g, S)
           h == CHOOSE h : Adder(f, h, Rest(S))
<1>1. IsFiniteSet(Rest(S)) /\ Rest(S) \subseteq S
  BY FS_Subset DEF Rest
<1>2. Adder(f, g, S) /\ Adder(f, h, Rest(S))
  BY <1>1, AdderExists
<1>3. SumFunctionOnSet(f, S) = g[S] /\ SumFunctionOnSet(f, Rest(S)) = h[Rest(S)]
  BY SumUnfolds
<1>4. ASSUME NEW a, Adder(f, a, Rest(S)), NEW b, Adder(f, b, S)
      PROVE  a[Rest(S)] = b[Rest(S)]
  BY <1>1, <1>4, AddersAgree
<1> HIDE DEF g, h
<1>5. g[S] = IF S = {} THEN 0 ELSE f[First(S)] + g[Rest(S)]
  BY <1>2 DEF Adder, Adds
<1> QED BY <1>2, <1>3, <1>4, <1>5

\* Whatever adds up f over S finds its sum.
LEMMA SumByAdder ==
    ASSUME NEW f, NEW S, IsFiniteSet(S), NEW g, Adder(f, g, S)
    PROVE  SumFunctionOnSet(f, S) = g[S]
<1>1. PICK h : Adder(f, h, S) /\ SumFunctionOnSet(f, S) = h[S]
  BY AdderExists, SumUnfolds
<1> QED BY <1>1, AddersAgree

------------------------------------------------------------------------------
(* Facts about sums *)

LEMMA SumEmpty == \A f : SumFunctionOnSet(f, {}) = 0
BY SumStep, FS_EmptySet

\* Equal functions have equal sums.
LEMMA SumEqual ==
    ASSUME NEW f, NEW h, NEW S, IsFiniteSet(S), \A x \in S : f[x] = h[x]
    PROVE  SumFunctionOnSet(f, S) = SumFunctionOnSet(h, S)
<1> DEFINE G == {s \in SUBSET S : SumFunctionOnSet(f, s) = SumFunctionOnSet(h, s)}
<1>1. ASSUME NEW s \in SUBSET S, \A x \in s : s \ {x} \in G PROVE s \in G
  <2>1. IsFiniteSet(s)
    BY FS_Subset
  <2>2. s # {} => First(s) \in s /\ Rest(s) \in G
    BY <1>1 DEF Rest, First
  <2>3. /\ SumFunctionOnSet(f, s) = IF s = {} THEN 0 ELSE f[First(s)] + SumFunctionOnSet(f, Rest(s))
        /\ SumFunctionOnSet(h, s) = IF s = {} THEN 0 ELSE h[First(s)] + SumFunctionOnSet(h, Rest(s))
    BY <2>1, SumStep
  <2> QED BY <2>2, <2>3
<1>2. SUBSET S \subseteq G
  <2> HIDE DEF G
  <2> QED BY <1>1, AllSubsets
<1> QED BY <1>2

\* A sum of integers is one.
LEMMA SumInt ==
    ASSUME NEW f, NEW S, IsFiniteSet(S), \A x \in S : f[x] \in Int
    PROVE  SumFunctionOnSet(f, S) \in Int
<1> DEFINE G == {s \in SUBSET S : SumFunctionOnSet(f, s) \in Int}
<1>1. ASSUME NEW s \in SUBSET S, \A x \in s : s \ {x} \in G PROVE s \in G
  <2>1. IsFiniteSet(s)
    BY FS_Subset
  <2>2. s # {} => First(s) \in s /\ Rest(s) \in G
    BY <1>1 DEF Rest, First
  <2>3. SumFunctionOnSet(f, s) = IF s = {} THEN 0 ELSE f[First(s)] + SumFunctionOnSet(f, Rest(s))
    BY <2>1, SumStep
  <2> QED BY <2>2, <2>3
<1>2. SUBSET S \subseteq G
  <2> HIDE DEF G
  <2> QED BY <1>1, AllSubsets
<1> QED BY <1>2

\* One value can be taken out of a sum, whichever it is.
LEMMA SumRemove ==
    ASSUME NEW f, NEW S, IsFiniteSet(S), \A x \in S : f[x] \in Int, NEW x \in S
    PROVE  SumFunctionOnSet(f, S) = f[x] + SumFunctionOnSet(f, S \ {x})
<1> DEFINE G == {s \in SUBSET S : \A y \in s : SumFunctionOnSet(f, s) = f[y] + SumFunctionOnSet(f, s \ {y})}
<1>0. ASSUME NEW s \in SUBSET S PROVE IsFiniteSet(s) /\ SumFunctionOnSet(f, s) \in Int
  BY FS_Subset, SumInt
<1>1. ASSUME NEW s \in SUBSET S, \A y \in s : s \ {y} \in G PROVE s \in G
  <2> SUFFICES ASSUME NEW y \in s PROVE SumFunctionOnSet(f, s) = f[y] + SumFunctionOnSet(f, s \ {y})
    OBVIOUS
  <2> DEFINE z == First(s)
  <2>1. z \in s /\ Rest(s) = s \ {z}
    BY DEF Rest, First
  <2>2. SumFunctionOnSet(f, s) = f[z] + SumFunctionOnSet(f, s \ {z})
    BY <1>0, <2>1, SumStep
  <2>3. CASE y = z
    BY <2>2, <2>3
  <2>4. CASE y # z
    <3>1. SumFunctionOnSet(f, s \ {z}) = f[y] + SumFunctionOnSet(f, (s \ {z}) \ {y})
      BY <1>1, <2>1, <2>4
    <3>2. SumFunctionOnSet(f, s \ {y}) = f[z] + SumFunctionOnSet(f, (s \ {y}) \ {z})
      BY <1>1, <2>1, <2>4
    <3>3. (s \ {z}) \ {y} = (s \ {y}) \ {z}
      OBVIOUS
    <3>4. SumFunctionOnSet(f, (s \ {z}) \ {y}) \in Int /\ f[y] \in Int /\ f[z] \in Int
      BY <1>0, <2>1
    <3>5. SumFunctionOnSet(f, (s \ {z}) \ {y}) = SumFunctionOnSet(f, (s \ {y}) \ {z})
      BY <3>3
    <3> DEFINE A == SumFunctionOnSet(f, s \ {z})
               B == SumFunctionOnSet(f, s \ {y})
               C == SumFunctionOnSet(f, (s \ {z}) \ {y})
               D == SumFunctionOnSet(f, s)
               p == f[z]
               q == f[y]
    <3>6. D = p + A /\ A = q + C /\ B = p + C
      BY <2>2, <3>1, <3>2, <3>5
    <3>7. C \in Int /\ p \in Int /\ q \in Int
      BY <3>4
    <3>8. D = q + B
      <4> HIDE DEF A, B, C, D, p, q
      <4> QED BY <3>6, <3>7
    <3> QED BY <3>8
  <2> QED BY <2>3, <2>4
<1>2. SUBSET S \subseteq G
  <2> HIDE DEF G
  <2> QED BY <1>1, AllSubsets
<1> QED BY <1>2

\* One more value.
LEMMA SumAdd ==
    ASSUME NEW f, NEW S, IsFiniteSet(S), NEW x, x \notin S,
           \A y \in S \union {x} : f[y] \in Int
    PROVE  /\ SumFunctionOnSet(f, S \union {x}) = SumFunctionOnSet(f, S) + f[x]
           /\ SumFunctionOnSet(f, S) \in Int
<1>1. IsFiniteSet(S \union {x}) /\ (S \union {x}) \ {x} = S
  BY FS_AddElement
<1>2. SumFunctionOnSet(f, S \union {x}) = f[x] + SumFunctionOnSet(f, (S \union {x}) \ {x})
  BY <1>1, SumRemove
<1>3. SumFunctionOnSet(f, S) \in Int /\ f[x] \in Int
  BY SumInt
<1>4. SumFunctionOnSet(f, S \union {x}) = f[x] + SumFunctionOnSet(f, S)
  BY <1>1, <1>2
<1> DEFINE A == SumFunctionOnSet(f, S)
           B == SumFunctionOnSet(f, S \union {x})
<1>5. B = A + f[x] /\ A \in Int
  <2> HIDE DEF A, B
  <2>1. B = f[x] + A /\ A \in Int
    BY <1>3, <1>4 DEF A, B
  <2> QED BY <1>3, <2>1
<1> QED BY <1>5

\* One value changes.
LEMMA SumChange ==
    ASSUME NEW f, NEW h, NEW S, IsFiniteSet(S), NEW x \in S,
           \A y \in S : f[y] \in Int /\ h[y] \in Int,
           \A y \in S \ {x} : f[y] = h[y]
    PROVE  SumFunctionOnSet(h, S) = SumFunctionOnSet(f, S) - f[x] + h[x]
<1>1. IsFiniteSet(S \ {x})
  BY FS_Subset
<1>2. SumFunctionOnSet(f, S \ {x}) = SumFunctionOnSet(h, S \ {x}) /\ SumFunctionOnSet(f, S \ {x}) \in Int
  BY <1>1, SumEqual, SumInt
<1>3. /\ SumFunctionOnSet(f, S) = f[x] + SumFunctionOnSet(f, S \ {x})
      /\ SumFunctionOnSet(h, S) = h[x] + SumFunctionOnSet(h, S \ {x})
  BY SumRemove
<1> QED BY <1>2, <1>3

\* Larger values have a larger sum.
LEMMA SumMonotonic ==
    ASSUME NEW f, NEW h, NEW S, IsFiniteSet(S),
           \A x \in S : f[x] \in Int /\ h[x] \in Int /\ f[x] <= h[x]
    PROVE  SumFunctionOnSet(f, S) <= SumFunctionOnSet(h, S)
<1> DEFINE G == {s \in SUBSET S : SumFunctionOnSet(f, s) <= SumFunctionOnSet(h, s)}
<1>1. ASSUME NEW s \in SUBSET S, \A x \in s : s \ {x} \in G PROVE s \in G
  <2>1. IsFiniteSet(s)
    BY FS_Subset
  <2>2. s # {} => First(s) \in s /\ Rest(s) \in G /\ Rest(s) \in SUBSET S
    BY <1>1 DEF Rest, First
  <2>3. /\ SumFunctionOnSet(f, s) = IF s = {} THEN 0 ELSE f[First(s)] + SumFunctionOnSet(f, Rest(s))
        /\ SumFunctionOnSet(h, s) = IF s = {} THEN 0 ELSE h[First(s)] + SumFunctionOnSet(h, Rest(s))
    BY <2>1, SumStep
  <2>4. s # {} => SumFunctionOnSet(f, Rest(s)) \in Int /\ SumFunctionOnSet(h, Rest(s)) \in Int
    <3> SUFFICES ASSUME s # {} PROVE SumFunctionOnSet(f, Rest(s)) \in Int /\ SumFunctionOnSet(h, Rest(s)) \in Int
      OBVIOUS
    <3>1. IsFiniteSet(Rest(s)) /\ Rest(s) \subseteq S
      BY <2>1, <2>2, FS_Subset DEF Rest
    <3>2. \A x \in Rest(s) : f[x] \in Int /\ h[x] \in Int
      BY <3>1
    <3> QED BY <3>1, <3>2, SumInt
  <2> QED BY <2>2, <2>3, <2>4
<1>2. SUBSET S \subseteq G
  <2> HIDE DEF G
  <2> QED BY <1>1, AllSubsets
<1> QED BY <1>2

\* A sum of natural numbers is one.
LEMMA SumNat ==
    ASSUME NEW f, NEW S, IsFiniteSet(S), \A x \in S : f[x] \in Nat
    PROVE  SumFunctionOnSet(f, S) \in Nat
<1> DEFINE G == {s \in SUBSET S : SumFunctionOnSet(f, s) \in Nat}
<1>1. ASSUME NEW s \in SUBSET S, \A x \in s : s \ {x} \in G PROVE s \in G
  <2>1. IsFiniteSet(s)
    BY FS_Subset
  <2>2. s # {} => First(s) \in s /\ Rest(s) \in G
    BY <1>1 DEF Rest, First
  <2>3. SumFunctionOnSet(f, s) = IF s = {} THEN 0 ELSE f[First(s)] + SumFunctionOnSet(f, Rest(s))
    BY <2>1, SumStep
  <2> QED BY <2>2, <2>3
<1>2. SUBSET S \subseteq G
  <2> HIDE DEF G
  <2> QED BY <1>1, AllSubsets
<1> QED BY <1>2

\* A part of a set has no larger sum, of natural numbers.
LEMMA SumSubset ==
    ASSUME NEW f, NEW T, IsFiniteSet(T), NEW S, S \subseteq T, \A x \in T : f[x] \in Nat
    PROVE  SumFunctionOnSet(f, S) <= SumFunctionOnSet(f, T)
<1> DEFINE G == {s \in SUBSET T :
                   SumFunctionOnSet(f, s \intersect S) <= SumFunctionOnSet(f, s)}
<1>0. ASSUME NEW s \in SUBSET T
      PROVE  /\ IsFiniteSet(s) /\ IsFiniteSet(s \intersect S)
             /\ SumFunctionOnSet(f, s) \in Int /\ SumFunctionOnSet(f, s \intersect S) \in Int
  <2>1. IsFiniteSet(s) /\ IsFiniteSet(s \intersect S)
    BY FS_Subset
  <2>2. \A x \in s : f[x] \in Int
    OBVIOUS
  <2> QED BY <2>1, <2>2, SumInt
<1>1. ASSUME NEW s \in SUBSET T, \A x \in s : s \ {x} \in G PROVE s \in G
  <2>1. CASE s = {}
    <3>1. s \intersect S = s
      BY <2>1
    <3> QED BY <1>0, <3>1
  <2>2. CASE s # {}
    <3>1. PICK z : z \in s
      BY <2>2
    <3> DEFINE t == s \ {z}
    <3>2. t \in SUBSET T /\ t \in G /\ \A x \in s : f[x] \in Int
      BY <1>1, <3>1
    <3>9. IsFiniteSet(s)
      BY <1>0
    <3>8. SumFunctionOnSet(f, s) = f[z] + SumFunctionOnSet(f, s \ {z})
      BY <3>1, <3>2, <3>9, SumRemove
    <3>3. SumFunctionOnSet(f, s) = f[z] + SumFunctionOnSet(f, t)
      BY <3>8
    <3>4. SumFunctionOnSet(f, t \intersect S) <= SumFunctionOnSet(f, t)
      BY <3>2
    <3>5. SumFunctionOnSet(f, t \intersect S) \in Int /\ SumFunctionOnSet(f, t) \in Int /\ f[z] \in Nat
      BY <1>0, <3>1, <3>2
    <3>6. CASE z \in S
      <4> DEFINE u == s \intersect S
      <4>1. IsFiniteSet(u) /\ z \in u /\ \A x \in u : f[x] \in Int
        BY <1>0, <3>1, <3>2, <3>6
      <4>2. u \ {z} = t \intersect S
        OBVIOUS
      <4> HIDE DEF u, t
      <4>3. SumFunctionOnSet(f, u) = f[z] + SumFunctionOnSet(f, u \ {z})
        BY <4>1, SumRemove
      <4>4. SumFunctionOnSet(f, u) = f[z] + SumFunctionOnSet(f, t \intersect S)
        BY <4>2, <4>3
      <4>5. SumFunctionOnSet(f, u) <= SumFunctionOnSet(f, s)
        BY <3>3, <3>4, <3>5, <4>4
      <4> QED BY <4>5 DEF u
    <3>7. CASE z \notin S
      <4>1. s \intersect S = t \intersect S
        BY <3>7
      <4> HIDE DEF t
      <4>2. SumFunctionOnSet(f, t \intersect S) <= SumFunctionOnSet(f, s)
        BY <3>3, <3>4, <3>5
      <4> QED BY <4>1, <4>2
    <3> QED BY <3>6, <3>7
  <2> QED BY <2>1, <2>2
<1>2. SUBSET T \subseteq G
  <2> HIDE DEF G
  <2> QED BY <1>1, AllSubsets
<1>3. T \intersect S = S
  OBVIOUS
<1> QED BY <1>2, <1>3

\* Fewer and smaller values have no larger sum.
LEMMA SumShrinks ==
    ASSUME NEW f, NEW h, NEW T, IsFiniteSet(T), NEW S, S \subseteq T,
           \A x \in T : f[x] \in Nat, \A x \in S : h[x] \in Nat /\ h[x] <= f[x]
    PROVE  /\ SumFunctionOnSet(h, S) <= SumFunctionOnSet(f, T)
           /\ SumFunctionOnSet(h, S) \in Nat /\ SumFunctionOnSet(f, T) \in Nat
<1>1. IsFiniteSet(S) /\ \A x \in S : f[x] \in Nat
  BY FS_Subset
<1>2. SumFunctionOnSet(f, S) <= SumFunctionOnSet(f, T)
  BY SumSubset
<1>3. \A x \in S : h[x] \in Int /\ f[x] \in Int /\ h[x] <= f[x]
  BY <1>1
<1>4. SumFunctionOnSet(h, S) <= SumFunctionOnSet(f, S)
  BY <1>1, <1>3, SumMonotonic
<1>5. SumFunctionOnSet(h, S) \in Nat /\ SumFunctionOnSet(f, S) \in Nat /\ SumFunctionOnSet(f, T) \in Nat
  BY <1>1, SumNat
<1> QED BY <1>2, <1>4, <1>5

\* The sum of multiples is the multiple of the sum.
LEMMA SumScale ==
    ASSUME NEW k \in Int, NEW f, NEW h, NEW S, IsFiniteSet(S),
           \A x \in S : h[x] \in Int /\ f[x] = k * h[x]
    PROVE  SumFunctionOnSet(f, S) = k * SumFunctionOnSet(h, S)
<1> DEFINE G == {s \in SUBSET S : SumFunctionOnSet(f, s) = k * SumFunctionOnSet(h, s)}
<1>1. ASSUME NEW s \in SUBSET S, \A x \in s : s \ {x} \in G PROVE s \in G
  <2>1. IsFiniteSet(s)
    BY FS_Subset
  <2>2. /\ SumFunctionOnSet(f, s) = IF s = {} THEN 0 ELSE f[First(s)] + SumFunctionOnSet(f, Rest(s))
        /\ SumFunctionOnSet(h, s) = IF s = {} THEN 0 ELSE h[First(s)] + SumFunctionOnSet(h, Rest(s))
    BY <2>1, SumStep
  <2>3. CASE s = {}
    <3>1. k * 0 = 0
      OBVIOUS
    <3> QED BY <2>2, <2>3, <3>1
  <2>4. CASE s # {}
    <3>1. First(s) \in s /\ Rest(s) \in G /\ Rest(s) \in SUBSET S
      BY <1>1, <2>4 DEF Rest, First
    <3>2. IsFiniteSet(Rest(s)) /\ Rest(s) \subseteq S
      BY <2>1, <3>1, FS_Subset DEF Rest
    <3>3. SumFunctionOnSet(h, Rest(s)) \in Int
      BY <3>2, SumInt
    <3>4. h[First(s)] \in Int /\ f[First(s)] = k * h[First(s)]
      BY <3>1
    <3>5. SumFunctionOnSet(f, Rest(s)) = k * SumFunctionOnSet(h, Rest(s))
      BY <3>1
    <3>6. \A a, b \in Int : k * (a + b) = k * a + k * b
      OBVIOUS
    <3> QED BY <2>2, <2>4, <3>3, <3>4, <3>5, <3>6
  <2> QED BY <2>3, <2>4
<1>2. SUBSET S \subseteq G
  <2> HIDE DEF G
  <2> QED BY <1>1, AllSubsets
<1> QED BY <1>2

LEMMA SumNegate ==
    ASSUME NEW f, NEW h, NEW S, IsFiniteSet(S), \A x \in S : h[x] \in Int /\ f[x] = - h[x]
    PROVE  SumFunctionOnSet(f, S) = - SumFunctionOnSet(h, S)
<1>1. PICK k \in Int : k = -1
  OBVIOUS
<1>2. \A x \in S : h[x] \in Int /\ f[x] = k * h[x]
  BY <1>1
<1>3. SumFunctionOnSet(f, S) = k * SumFunctionOnSet(h, S)
  BY <1>2, SumScale
<1>4. SumFunctionOnSet(h, S) \in Int
  BY SumInt
<1> QED BY <1>1, <1>3, <1>4

\* A sum does not depend on the names of the elements.
LEMMA SumRename ==
    ASSUME NEW f, NEW h, NEW S, IsFiniteSet(S), NEW b,
           \A x \in S : f[x] \in Int /\ f[x] = h[b[x]],
           \A x, y \in S : b[x] = b[y] => x = y
    PROVE  SumFunctionOnSet(f, S) = SumFunctionOnSet(h, {b[x] : x \in S})
<1> DEFINE Image(s) == {b[x] : x \in s}
           G == {s \in SUBSET S : IsFiniteSet(Image(s)) /\ SumFunctionOnSet(f, s) = SumFunctionOnSet(h, Image(s))}
<1>1. ASSUME NEW s \in SUBSET S, \A x \in s : s \ {x} \in G PROVE s \in G
  <2>1. IsFiniteSet(s)
    BY FS_Subset
  <2>2. CASE s = {}
    <3>1. Image(s) = {}
      BY <2>2
    <3> QED BY <2>2, <3>1, SumEmpty, FS_EmptySet
  <2>3. CASE s # {}
    <3>1. PICK x : x \in s
      BY <2>3
    <3> DEFINE t == s \ {x}
    <3>2. IsFiniteSet(Image(t)) /\ SumFunctionOnSet(f, t) = SumFunctionOnSet(h, Image(t))
      BY <1>1, <3>1
    <3>3. Image(s) = Image(t) \union {b[x]} /\ b[x] \notin Image(t)
      BY <3>1
    <3>4. IsFiniteSet(Image(s))
      <4> HIDE DEF Image, t
      <4>1. IsFiniteSet(Image(t) \union {b[x]})
        BY <3>2, FS_AddElement
      <4> QED BY <3>3, <4>1
    <3>5. SumFunctionOnSet(f, s) = f[x] + SumFunctionOnSet(f, t)
      <4>1. \A y \in s : f[y] \in Int
        OBVIOUS
      <4>2. SumFunctionOnSet(f, s) = f[x] + SumFunctionOnSet(f, s \ {x})
        BY <2>1, <3>1, <4>1, SumRemove
      <4> QED BY <4>2
    <3>6. \A y \in Image(t) \union {b[x]} : h[y] \in Int
      BY <3>1
    <3>7. /\ SumFunctionOnSet(h, Image(t) \union {b[x]}) = SumFunctionOnSet(h, Image(t)) + h[b[x]]
          /\ SumFunctionOnSet(h, Image(t)) \in Int
      <4> HIDE DEF Image, t
      <4> QED BY <3>2, <3>3, <3>6, SumAdd
    <3>8. f[x] = h[b[x]] /\ f[x] \in Int
      BY <3>1
    <3>9. SumFunctionOnSet(f, s) = SumFunctionOnSet(h, Image(s))
      <4> HIDE DEF Image, t
      <4> QED BY <3>2, <3>3, <3>5, <3>7, <3>8
    <3> QED BY <3>4, <3>9
  <2> QED BY <2>2, <2>3
<1>2. SUBSET S \subseteq G
  <2> HIDE DEF G
  <2> QED BY <1>1, AllSubsets
<1> QED BY <1>2
==============================================================================
