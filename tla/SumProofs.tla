----------------------------- MODULE SumProofs -----------------------------
(***************************************************************************)
(* Sums over a finite set (SumFunctionOnSet): that they exist, take their   *)
(* terms one by one in any order, and rise with them.                       *)
(*                                                                         *)
(* The library defines the sum by a recursive fold over a chosen element,   *)
(* and its induction theorems take an operator.  Here the induction is over *)
(* a set instead: the numbers, or the subsets, for which a fact holds; the  *)
(* least one outside of it (WFMin) gives the contradiction.                 *)
(***************************************************************************)
EXTENDS Integers, FiniteSetsExt, TLAPS, FiniteSetTheorems, WellFoundedInduction

\* Induction over the numbers, with those that have been reached as a set.
LEMMA NatReached ==
  ASSUME NEW R \in SUBSET Nat, 0 \in R, \A n \in R : n + 1 \in R
  PROVE  \A n \in Nat : n \in R
<1> DEFINE Rest == Nat \ R
<1> SUFFICES ASSUME Rest # {} PROVE FALSE
  OBVIOUS
<1>1. Rest \subseteq Nat
  OBVIOUS
<1> HIDE DEF Rest
<1>2. PICK n \in Rest : \A m \in Rest : ~(<<m, n>> \in OpToRel(<, Nat))
  BY <1>1, NatLessThanWellFounded, WFMin
<1>3. n \in Nat /\ n # 0 /\ n - 1 \in Nat
  BY <1>1 DEF Rest
<1>4. n - 1 \in R
  <2> SUFFICES ASSUME n - 1 \in Rest PROVE FALSE
    BY <1>3 DEF Rest
  <2>1. <<n - 1, n>> \notin OpToRel(<, Nat)
    BY <1>2
  <2> QED BY <1>3, <2>1 DEF OpToRel
<1>5. (n - 1) + 1 \in R
  BY <1>4
<1> QED BY <1>3, <1>5 DEF Rest

\* Induction over the subsets of a finite set, with the sets that have been
\* reached as a set of sets.
LEMMA SubsetsReached ==
  ASSUME NEW S, IsFiniteSet(S), NEW R \in SUBSET (SUBSET S), {} \in R,
         \A T \in R : \A x \in S \ T : T \cup {x} \in R
  PROVE  \A T \in SUBSET S : T \in R
<1>1. \A T \in SUBSET S : IsFiniteSet(T) /\ Cardinality(T) \in Nat
  BY FS_Subset, FS_CardinalityType
<1> DEFINE N == {n \in Nat : \A T \in SUBSET S : Cardinality(T) = n => T \in R}
<1>2. 0 \in N
  <2>1. \A T \in SUBSET S : Cardinality(T) = 0 => T = {}
    BY <1>1, FS_EmptySet
  <2> QED BY <2>1
<1>3. ASSUME NEW n \in N PROVE n + 1 \in N
  <2> SUFFICES ASSUME NEW T \in SUBSET S, Cardinality(T) = n + 1 PROVE T \in R
    OBVIOUS
  <2>1. T # {}
    <3>1. Cardinality(T) # 0
      OBVIOUS
    <3> QED BY <3>1, FS_EmptySet
  <2>2. PICK x \in T : TRUE
    BY <2>1
  <2>3. Cardinality(T \ {x}) = n
    <3>1. IsFiniteSet(T) /\ n \in Nat
      BY <1>1
    <3>2. Cardinality(T \ {x}) = Cardinality(T) - 1
      BY <2>2, <3>1, FS_RemoveElement
    <3> HIDE DEF N
    <3> QED BY <3>1, <3>2
  <2>4. T \ {x} \in R
    BY <2>3
  <2>5. (T \ {x}) \cup {x} \in R
    BY <2>2, <2>4
  <2> QED BY <2>2, <2>5
<1> HIDE DEF N
<1>4. \A n \in Nat : n \in N
  BY <1>2, <1>3, NatReached DEF N
<1> QED BY <1>1, <1>4 DEF N

-----------------------------------------------------------------------------
(* SumFunctionOnSet is a recursive function of the set. *)

First(s) == CHOOSE x \in s : TRUE
Adds(f, g, s) == IF s = {} THEN 0 ELSE f[First(s)] + g[s \ {First(s)}]
Counts(f, S, g) == g = [s \in SUBSET S |-> Adds(f, g, s)]

LEMMA FirstIsIn == \A s : s # {} => First(s) \in s
BY DEF First

\* The recursion defines a function ...
LEMMA SumExists ==
  ASSUME NEW f, NEW S, IsFiniteSet(S)
  PROVE  \E g : Counts(f, S, g)
<1>1. \A T \in SUBSET S : IsFiniteSet(T) /\ Cardinality(T) \in Nat
  BY FS_Subset, FS_CardinalityType
<1> DEFINE UpTo(n, g) == /\ g = [s \in SUBSET S |-> g[s]]
                         /\ \A s \in SUBSET S : Cardinality(s) < n => g[s] = Adds(f, g, s)
           N == {n \in Nat : \E g : UpTo(n, g)}
<1>2. 0 \in N
  <2>1. UpTo(0, [s \in SUBSET S |-> 0])
    BY <1>1
  <2> QED BY <2>1
<1>3. ASSUME NEW n \in N PROVE n + 1 \in N
  <2>1. PICK g : UpTo(n, g)
    OBVIOUS
  <2> DEFINE h == [s \in SUBSET S |-> Adds(f, g, s)]
  <2>2. ASSUME NEW s \in SUBSET S, Cardinality(s) < n + 1 PROVE h[s] = Adds(f, h, s)
    <3>1. CASE s = {}
      BY <3>1 DEF Adds
    <3>2. CASE s # {}
      <4> DEFINE t == s \ {First(s)}
      <4>1. Cardinality(t) = Cardinality(s) - 1 /\ t \in SUBSET S
        BY <1>1, <3>2, FirstIsIn, FS_RemoveElement
      <4>2. g[t] = Adds(f, g, t)
        <5>1. Cardinality(t) < n
          BY <1>1, <2>2, <4>1
        <5> QED BY <2>1, <4>1, <5>1
      <4> QED BY <3>2, <4>1, <4>2 DEF Adds
    <3> QED BY <3>1, <3>2
  <2>3. UpTo(n + 1, h)
    BY <2>2
  <2> HIDE DEF UpTo, h
  <2> QED BY <2>3
<1> HIDE DEF N
<1>4. \A n \in Nat : n \in N
  BY <1>2, <1>3, NatReached DEF N
<1>5. Cardinality(S) + 1 \in N
  BY <1>1, <1>4
<1>6. PICK g : UpTo(Cardinality(S) + 1, g)
  BY <1>5 DEF N
<1>7. \A s \in SUBSET S : Cardinality(s) < Cardinality(S) + 1
  BY <1>1, FS_Subset
<1>8. g = [s \in SUBSET S |-> Adds(f, g, s)]
  BY <1>6, <1>7
<1> QED BY <1>8 DEF Counts

\* ... which gives a set the same sum as part of any other, and looks only at
\* what it counts.
LEMMA SumsAgree ==
  ASSUME NEW f, NEW S, NEW p, Counts(f, S, p), NEW g, NEW T, NEW q, Counts(g, T, q),
         NEW U, IsFiniteSet(U), U \subseteq S, U \subseteq T, \A x \in U : f[x] = g[x]
  PROVE  p[U] = q[U]
<1>1. \A V \in SUBSET U : IsFiniteSet(V) /\ Cardinality(V) \in Nat
  BY FS_Subset, FS_CardinalityType
<1> DEFINE N == {n \in Nat : \A V \in SUBSET U : Cardinality(V) = n => p[V] = q[V]}
<1>2. \A V \in SUBSET U : p[V] = Adds(f, p, V) /\ q[V] = Adds(g, q, V)
  BY DEF Counts
<1>3. 0 \in N
  <2>1. \A V \in SUBSET U : Cardinality(V) = 0 => V = {}
    BY <1>1, FS_EmptySet
  <2> QED BY <1>2, <2>1 DEF Adds
<1>4. ASSUME NEW n \in N PROVE n + 1 \in N
  <2> SUFFICES ASSUME NEW V \in SUBSET U, Cardinality(V) = n + 1 PROVE p[V] = q[V]
    OBVIOUS
  <2>1. V # {}
    BY FS_EmptySet
  <2>2. First(V) \in V
    BY <2>1, FirstIsIn
  <2>3. Cardinality(V \ {First(V)}) = n
    BY <1>1, <2>2, FS_RemoveElement
  <2>4. p[V \ {First(V)}] = q[V \ {First(V)}]
    BY <2>3
  <2> QED BY <1>2, <2>1, <2>2, <2>4 DEF Adds
<1> HIDE DEF N
<1>5. \A n \in Nat : n \in N
  BY <1>3, <1>4, NatReached DEF N
<1> QED BY <1>1, <1>5 DEF N

LEMMA SumCounts ==
  ASSUME NEW f, NEW S, IsFiniteSet(S)
  PROVE  \E g : Counts(f, S, g) /\ SumFunctionOnSet(f, S) = g[S]
<1> DEFINE g == CHOOSE h : Counts(f, S, h)
<1>1. Counts(f, S, g)
  BY SumExists
<1>2. SumFunctionOnSet(f, S) = g[S]
  BY DEF SumFunctionOnSet, FoldFunctionOnSet, MapThenFoldSet, Counts, Adds, First
<1> QED BY <1>1, <1>2

-----------------------------------------------------------------------------
(* What is used of sums *)

LEMMA SumEmpty == \A f : SumFunctionOnSet(f, {}) = 0
<1> TAKE f
<1>1. PICK g : Counts(f, {}, g) /\ SumFunctionOnSet(f, {}) = g[{}]
  BY SumCounts, FS_EmptySet
<1> QED BY <1>1 DEF Counts, Adds

LEMMA SumFirst ==
  ASSUME NEW f, NEW S, IsFiniteSet(S), S # {}
  PROVE  SumFunctionOnSet(f, S) = f[First(S)] + SumFunctionOnSet(f, S \ {First(S)})
<1> DEFINE T == S \ {First(S)}
<1>1. IsFiniteSet(T) /\ T \subseteq S
  BY FS_Subset
<1>2. PICK g : Counts(f, S, g) /\ SumFunctionOnSet(f, S) = g[S]
  BY SumCounts
<1>3. PICK h : Counts(f, T, h) /\ SumFunctionOnSet(f, T) = h[T]
  BY <1>1, SumCounts
<1>4. g[T] = h[T]
  BY <1>1, <1>2, <1>3, SumsAgree
<1>5. g[S] = f[First(S)] + g[T]
  BY <1>2 DEF Counts, Adds
<1> QED BY <1>2, <1>3, <1>4, <1>5

\* A sum looks only at what it counts.
LEMMA SumSame ==
  ASSUME NEW f, NEW g, NEW S, IsFiniteSet(S), \A x \in S : f[x] = g[x]
  PROVE  SumFunctionOnSet(f, S) = SumFunctionOnSet(g, S)
<1>1. PICK p : Counts(f, S, p) /\ SumFunctionOnSet(f, S) = p[S]
  BY SumCounts
<1>2. PICK q : Counts(g, S, q) /\ SumFunctionOnSet(g, S) = q[S]
  BY SumCounts
<1>3. p[S] = q[S]
  <2>1. S \subseteq S
    OBVIOUS
  <2> QED BY <1>1, <1>2, <2>1, SumsAgree
<1> QED BY <1>1, <1>2, <1>3

LEMMA SumType ==
  ASSUME NEW f, NEW S, IsFiniteSet(S), \A x \in S : f[x] \in Int
  PROVE  SumFunctionOnSet(f, S) \in Int
<1> DEFINE N == {n \in Nat : \A T \in SUBSET S : Cardinality(T) = n => SumFunctionOnSet(f, T) \in Int}
<1>1. \A T \in SUBSET S : IsFiniteSet(T) /\ Cardinality(T) \in Nat
  BY FS_Subset, FS_CardinalityType
<1>2. 0 \in N
  <2>1. \A T \in SUBSET S : Cardinality(T) = 0 => T = {}
    BY <1>1, FS_EmptySet
  <2> QED BY <2>1, SumEmpty
<1>3. ASSUME NEW n \in N PROVE n + 1 \in N
  <2> SUFFICES ASSUME NEW T \in SUBSET S, Cardinality(T) = n + 1 PROVE SumFunctionOnSet(f, T) \in Int
    OBVIOUS
  <2>1. T # {}
    BY FS_EmptySet
  <2>2. First(T) \in T
    BY <2>1, FirstIsIn
  <2>3. Cardinality(T \ {First(T)}) = n
    <3>1. Cardinality(T \ {First(T)}) = Cardinality(T) - 1
      BY <1>1, <2>2, FS_RemoveElement
    <3> QED BY <3>1
  <2>4. SumFunctionOnSet(f, T \ {First(T)}) \in Int
    BY <2>3
  <2> QED BY <1>1, <2>1, <2>2, <2>4, SumFirst
<1> HIDE DEF N
<1>4. \A n \in Nat : n \in N
  BY <1>2, <1>3, NatReached DEF N
<1> QED BY <1>1, <1>4 DEF N

\* The order of the terms does not matter.
LEMMA SumTakes ==
  ASSUME NEW f, NEW S, IsFiniteSet(S), \A x \in S : f[x] \in Int, NEW x \in S
  PROVE  SumFunctionOnSet(f, S) = f[x] + SumFunctionOnSet(f, S \ {x})
<1> DEFINE Sum(T) == SumFunctionOnSet(f, T)
           N == {n \in Nat : \A T \in SUBSET S : Cardinality(T) = n =>
                                \A y \in T : Sum(T) = f[y] + Sum(T \ {y})}
<1>1. \A T \in SUBSET S : IsFiniteSet(T) /\ Cardinality(T) \in Nat
  BY FS_Subset, FS_CardinalityType
<1>2. \A T \in SUBSET S : Sum(T) \in Int
  BY <1>1, SumType
<1>3. \A T \in SUBSET S : T # {} => Sum(T) = f[First(T)] + Sum(T \ {First(T)})
  BY <1>1, SumFirst
<1> HIDE DEF Sum
<1>4. 0 \in N
  <2>1. \A T \in SUBSET S : Cardinality(T) = 0 => T = {}
    BY <1>1, FS_EmptySet
  <2> QED BY <2>1
<1>5. ASSUME NEW n \in N PROVE n + 1 \in N
  <2> SUFFICES ASSUME NEW T \in SUBSET S, Cardinality(T) = n + 1, NEW y \in T
               PROVE  Sum(T) = f[y] + Sum(T \ {y})
    OBVIOUS
  <2> DEFINE z == First(T)
  <2>1. z \in T /\ Sum(T) = f[z] + Sum(T \ {z})
    BY <1>3, FirstIsIn
  <2>2. \A v \in T : Cardinality(T \ {v}) = n
    BY <1>1, FS_RemoveElement
  <2> HIDE DEF z
  <2>3. CASE z = y
    BY <2>1, <2>3
  <2>4. CASE z # y
    <3>1. Sum(T \ {z}) = f[y] + Sum((T \ {z}) \ {y})
      BY <2>1, <2>2, <2>4
    <3>2. Sum(T \ {y}) = f[z] + Sum((T \ {y}) \ {z})
      BY <2>1, <2>2, <2>4
    <3>3. (T \ {z}) \ {y} = (T \ {y}) \ {z}
      OBVIOUS
    <3>4. /\ f[y] \in Int /\ f[z] \in Int /\ Sum((T \ {y}) \ {z}) \in Int
      BY <1>2, <2>1
    <3> DEFINE rest == Sum((T \ {y}) \ {z})
    <3>5. Sum(T) = f[z] + (f[y] + rest) /\ Sum(T \ {y}) = f[z] + rest
      BY <2>1, <3>1, <3>2, <3>3
    <3>6. rest \in Int
      BY <3>4
    <3> HIDE DEF rest
    <3> QED BY <3>4, <3>5, <3>6
  <2> QED BY <2>3, <2>4
<1> HIDE DEF N
<1>6. \A n \in Nat : n \in N
  BY <1>4, <1>5, NatReached DEF N
<1>7. Sum(S) = f[x] + Sum(S \ {x})
  BY <1>1, <1>6 DEF N
<1> QED BY <1>7 DEF Sum

\* A sum of larger terms is larger.
LEMMA SumRises ==
  ASSUME NEW f, NEW g, NEW S, IsFiniteSet(S),
         \A x \in S : f[x] \in Int /\ g[x] \in Int /\ f[x] <= g[x]
  PROVE  SumFunctionOnSet(f, S) <= SumFunctionOnSet(g, S)
<1> DEFINE SumF(T) == SumFunctionOnSet(f, T)
           SumG(T) == SumFunctionOnSet(g, T)
           R == {T \in SUBSET S : SumF(T) <= SumG(T)}
<1>1. \A T \in SUBSET S : IsFiniteSet(T)
  BY FS_Subset
<1>2. \A T \in SUBSET S : SumF(T) \in Int /\ SumG(T) \in Int
  BY <1>1, SumType
<1>3. {} \in R
  BY SumEmpty
<1>4. ASSUME NEW T \in SUBSET S, NEW x \in S \ T
      PROVE  SumF(T \cup {x}) = f[x] + SumF(T) /\ SumG(T \cup {x}) = g[x] + SumG(T)
  <2>1. (T \cup {x}) \ {x} = T /\ T \cup {x} \in SUBSET S
    OBVIOUS
  <2> QED BY <1>1, <2>1, SumTakes
<1> HIDE DEF SumF, SumG
<1>5. ASSUME NEW T \in R, NEW x \in S \ T PROVE T \cup {x} \in R
  <2>1. /\ f[x] \in Int /\ g[x] \in Int /\ f[x] <= g[x]
        /\ SumF(T) \in Int /\ SumG(T) \in Int /\ SumF(T) <= SumG(T)
    BY <1>2
  <2> QED BY <1>4, <2>1
<1>6. R \in SUBSET (SUBSET S)
  OBVIOUS
<1> HIDE DEF R
<1>7. S \in R
  BY <1>3, <1>5, <1>6, SubsetsReached
<1> QED BY <1>7 DEF R, SumF, SumG

\* A sum of sums.
LEMMA SumAdds ==
  ASSUME NEW f, NEW g, NEW h, NEW S, IsFiniteSet(S),
         \A x \in S : f[x] \in Int /\ g[x] \in Int /\ h[x] = f[x] + g[x]
  PROVE  SumFunctionOnSet(h, S) = SumFunctionOnSet(f, S) + SumFunctionOnSet(g, S)
<1> DEFINE SumF(T) == SumFunctionOnSet(f, T)
           SumG(T) == SumFunctionOnSet(g, T)
           SumH(T) == SumFunctionOnSet(h, T)
           R == {T \in SUBSET S : SumH(T) = SumF(T) + SumG(T)}
<1>0. \A x \in S : h[x] \in Int
  OBVIOUS
<1>1. \A T \in SUBSET S : IsFiniteSet(T)
  BY FS_Subset
<1>2. \A T \in SUBSET S : SumF(T) \in Int /\ SumG(T) \in Int /\ SumH(T) \in Int
  BY <1>0, <1>1, SumType
<1>3. {} \in R
  BY SumEmpty
<1>4. ASSUME NEW T \in SUBSET S, NEW x \in S \ T
      PROVE  /\ SumF(T \cup {x}) = f[x] + SumF(T) /\ SumG(T \cup {x}) = g[x] + SumG(T)
             /\ SumH(T \cup {x}) = h[x] + SumH(T)
  <2>1. (T \cup {x}) \ {x} = T /\ T \cup {x} \in SUBSET S
    OBVIOUS
  <2>2. \A y \in T \cup {x} : f[y] \in Int /\ g[y] \in Int /\ h[y] \in Int
    BY <1>0, <2>1
  <2> QED BY <1>1, <2>1, <2>2, SumTakes
<1> HIDE DEF SumF, SumG, SumH
<1>5. ASSUME NEW T \in R, NEW x \in S \ T PROVE T \cup {x} \in R
  <2>1. /\ f[x] \in Int /\ g[x] \in Int /\ h[x] = f[x] + g[x]
        /\ SumF(T) \in Int /\ SumG(T) \in Int /\ SumH(T) = SumF(T) + SumG(T)
    BY <1>2
  <2> QED BY <1>4, <2>1
<1>6. R \in SUBSET (SUBSET S)
  OBVIOUS
<1> HIDE DEF R
<1>7. S \in R
  BY <1>3, <1>5, <1>6, SubsetsReached
<1> QED BY <1>7 DEF R, SumF, SumG, SumH

LEMMA SumNat ==
  ASSUME NEW f, NEW S, IsFiniteSet(S), \A x \in S : f[x] \in Nat
  PROVE  SumFunctionOnSet(f, S) \in Nat
<1> DEFINE Sum(T) == SumFunctionOnSet(f, T)
           R == {T \in SUBSET S : Sum(T) \in Nat}
<1>1. \A T \in SUBSET S : IsFiniteSet(T)
  BY FS_Subset
<1>2. {} \in R
  BY SumEmpty
<1>3. ASSUME NEW T \in SUBSET S, NEW x \in S \ T PROVE Sum(T \cup {x}) = f[x] + Sum(T)
  <2>1. (T \cup {x}) \ {x} = T /\ T \cup {x} \in SUBSET S
    OBVIOUS
  <2>2. \A y \in T \cup {x} : f[y] \in Int
    BY <2>1
  <2> QED BY <1>1, <2>1, <2>2, SumTakes
<1> HIDE DEF Sum
<1>4. ASSUME NEW T \in R, NEW x \in S \ T PROVE T \cup {x} \in R
  BY <1>3
<1>5. R \in SUBSET (SUBSET S)
  OBVIOUS
<1> HIDE DEF R
<1>6. S \in R
  BY <1>2, <1>4, <1>5, SubsetsReached
<1> QED BY <1>6 DEF R, Sum

\* A term is at most the sum.
LEMMA SumHolds ==
  ASSUME NEW f, NEW S, IsFiniteSet(S), \A x \in S : f[x] \in Nat, NEW x \in S
  PROVE  f[x] <= SumFunctionOnSet(f, S)
<1>1. IsFiniteSet(S \ {x})
  BY FS_Subset
<1>2. SumFunctionOnSet(f, S \ {x}) \in Nat
  BY <1>1, SumNat
<1>3. SumFunctionOnSet(f, S) = f[x] + SumFunctionOnSet(f, S \ {x})
  BY SumTakes
<1> QED BY <1>2, <1>3

\* Of two sums that differ in one term.
LEMMA SumDiffers ==
  ASSUME NEW f, NEW g, NEW S, IsFiniteSet(S), \A y \in S : f[y] \in Int /\ g[y] \in Int,
         NEW x \in S, \A y \in S \ {x} : f[y] = g[y]
  PROVE  SumFunctionOnSet(g, S) = SumFunctionOnSet(f, S) - f[x] + g[x]
<1> DEFINE T == S \ {x}
<1>1. IsFiniteSet(T)
  BY FS_Subset
<1>2. SumFunctionOnSet(f, T) = SumFunctionOnSet(g, T) /\ SumFunctionOnSet(f, T) \in Int
  BY <1>1, SumSame, SumType
<1>3. SumFunctionOnSet(f, S) = f[x] + SumFunctionOnSet(f, T)
  BY SumTakes
<1>4. SumFunctionOnSet(g, S) = g[x] + SumFunctionOnSet(g, T)
  BY SumTakes
<1> QED BY <1>2, <1>3, <1>4

\* A sum with a larger term is larger.
LEMMA SumExceeds ==
  ASSUME NEW f, NEW g, NEW S, IsFiniteSet(S),
         \A y \in S : f[y] \in Int /\ g[y] \in Int /\ f[y] <= g[y], NEW x \in S, f[x] < g[x]
  PROVE  SumFunctionOnSet(f, S) < SumFunctionOnSet(g, S)
<1> DEFINE T == S \ {x}
<1>1. IsFiniteSet(T)
  BY FS_Subset
<1>2. SumFunctionOnSet(f, T) <= SumFunctionOnSet(g, T)
  BY <1>1, SumRises
<1>3. SumFunctionOnSet(f, T) \in Int /\ SumFunctionOnSet(g, T) \in Int
  BY <1>1, SumType
<1>4. SumFunctionOnSet(f, S) = f[x] + SumFunctionOnSet(f, T)
  BY SumTakes
<1>5. SumFunctionOnSet(g, S) = g[x] + SumFunctionOnSet(g, T)
  BY SumTakes
<1>6. f[x] \in Int /\ g[x] \in Int
  OBVIOUS
<1> HIDE DEF T
<1> QED BY <1>2, <1>3, <1>4, <1>5, <1>6

\* What counts nothing may be left out.
LEMMA SumOfPart ==
  ASSUME NEW f, NEW S, IsFiniteSet(S), NEW T \in SUBSET S, \A x \in S : f[x] \in Int,
         \A x \in S \ T : f[x] = 0
  PROVE  SumFunctionOnSet(f, S) = SumFunctionOnSet(f, T)
<1> DEFINE Sum(U) == SumFunctionOnSet(f, U)
           D == S \ T
           R == {U \in SUBSET D : Sum(T \cup U) = Sum(T)}
<1>1. IsFiniteSet(D) /\ \A U \in SUBSET S : IsFiniteSet(U)
  BY FS_Subset
<1>2. {} \in R
  OBVIOUS
<1>3. ASSUME NEW U \in SUBSET D, NEW x \in D \ U PROVE Sum(T \cup (U \cup {x})) = f[x] + Sum(T \cup U)
  <2> DEFINE V == T \cup (U \cup {x})
  <2>1. V \ {x} = T \cup U /\ V \in SUBSET S /\ x \in V
    OBVIOUS
  <2>2. IsFiniteSet(V) /\ \A y \in V : f[y] \in Int
    BY <1>1, <2>1
  <2> HIDE DEF V
  <2>3. Sum(V) = f[x] + Sum(V \ {x})
    BY <2>1, <2>2, SumTakes
  <2> QED BY <2>1, <2>3 DEF V
<1>4. Sum(T) \in Int
  BY <1>1, SumType
<1> HIDE DEF Sum
<1>5. ASSUME NEW U \in R, NEW x \in D \ U PROVE U \cup {x} \in R
  <2>1. Sum(T \cup U) = Sum(T) /\ f[x] = 0
    OBVIOUS
  <2>2. Sum(T \cup (U \cup {x})) = f[x] + Sum(T \cup U)
    BY <1>3
  <2>3. Sum(T \cup (U \cup {x})) = Sum(T)
    BY <1>4, <2>1, <2>2
  <2> QED BY <2>3
<1>6. R \in SUBSET (SUBSET D)
  OBVIOUS
<1>7. T \cup D = S
  OBVIOUS
<1> HIDE DEF R, D
<1>8. D \in R
  BY <1>1, <1>2, <1>5, <1>6, SubsetsReached
<1> QED BY <1>7, <1>8 DEF R, Sum
=============================================================================
