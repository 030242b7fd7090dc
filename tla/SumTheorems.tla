----------------------------- MODULE SumTheorems -----------------------------
(***************************************************************************)
(* Facts about finite sets that the proofs of several modules rest on:     *)
(* least and greatest members, and sums of a function over a set.          *)
(* SumFunctionOnSet adds the values in an order chosen by CHOOSE; the      *)
(* lemmas say what does not depend on it.                                  *)
(*                                                                         *)
(* Each induction is over a set of counterexamples: a least one leads to a *)
(* smaller one.                                                            *)
(***************************************************************************)
EXTENDS Integers, FiniteSets, FiniteSetsExt, FiniteSetTheorems, WellFoundedInduction, TLAPS

(***************************************************************************)
(* Greatest and least members.                                             *)
(***************************************************************************)

LEMMA LeastNatural ==
    ASSUME NEW S \in SUBSET Nat, S # {}
    PROVE  \E x \in S : \A y \in S : x <= y
<1> DEFINE R == {ss \in Nat \X Nat : ss[1] < ss[2]}
<1>1. IsWellFoundedOn(R, Nat)
  BY NatLessThanWellFounded DEF OpToRel
<1>2. PICK x \in S : \A y \in S : <<y, x>> \notin R
  <2> HIDE DEF R
  <2>1. QED
    BY <1>1, WFMin
<1>3. ASSUME NEW y \in S PROVE x <= y
  <2>1. <<y, x>> \in Nat \X Nat /\ <<y, x>>[1] = y /\ <<y, x>>[2] = x
    OBVIOUS
  <2>2. ~ (<<y, x>>[1] < <<y, x>>[2])
    BY <1>2, <2>1
  <2>3. x \in Nat /\ y \in Nat
    OBVIOUS
  <2>4. QED
    BY <2>1, <2>2, <2>3
<1>4. QED
  BY <1>3

LEMMA MinIsLeast ==
    ASSUME NEW S \in SUBSET Nat, S # {}
    PROVE  Min(S) \in S /\ \A y \in S : Min(S) <= y
BY LeastNatural DEF Min

\* A set of integers with an upper bound has a greatest member.
LEMMA MaxIsGreatest ==
    ASSUME NEW S \in SUBSET Int, S # {}, NEW b \in Int, \A x \in S : x <= b
    PROVE  Max(S) \in S /\ \A y \in S : Max(S) >= y
<1> DEFINE T == {b - x : x \in S}
<1>1. T \in SUBSET Nat /\ T # {}
  <2>1. ASSUME NEW x \in S PROVE b - x \in Nat
    <3>1. x \in Int /\ x <= b
      OBVIOUS
    <3>2. QED
      BY <3>1
  <2>2. QED
    BY <2>1
<1>2. PICK m \in T : \A y \in T : m <= y
  <2> HIDE DEF T
  <2>1. QED
    BY <1>1, LeastNatural
<1>3. PICK x \in S : m = b - x
  BY <1>2
<1>4. ASSUME NEW y \in S PROVE x >= y
  <2>1. m <= b - y
    BY <1>2
  <2>2. x \in Int /\ y \in Int
    OBVIOUS
  <2>3. QED
    BY <1>3, <2>1, <2>2
<1>5. QED
  BY <1>3, <1>4 DEF Max

\* A finite set of naturals has an upper bound: the member with the fewest above it.
LEMMA FiniteIsBounded ==
    ASSUME NEW S \in SUBSET Nat, IsFiniteSet(S), S # {}
    PROVE  \E b \in S : \A x \in S : x <= b
<1> DEFINE Above(x) == {y \in S : y > x}
           Counts == {Cardinality(Above(x)) : x \in S}
<1>1. ASSUME NEW x \in S
      PROVE  IsFiniteSet(Above(x)) /\ Cardinality(Above(x)) \in Nat
  <2>1. Above(x) \in SUBSET S
    OBVIOUS
  <2>2. QED
    BY <2>1, FS_Subset, FS_CardinalityType
<1>2. Counts \in SUBSET Nat /\ Counts # {}
  BY <1>1
<1>3. PICK b \in S : \A x \in S : Cardinality(Above(b)) <= Cardinality(Above(x))
  <2>1. PICK c \in Counts : \A d \in Counts : c <= d
    <3> HIDE DEF Counts
    <3>1. QED
      BY <1>2, LeastNatural
  <2>2. QED
    BY <2>1
<1>4. ASSUME NEW x \in S PROVE x <= b
  <2> SUFFICES ASSUME x > b
               PROVE  FALSE
    OBVIOUS
  <2>0. x \in Nat /\ b \in Nat /\ ~ (x > x)
    OBVIOUS
  <2>1a. ASSUME NEW y \in Above(x) PROVE y \in Above(b)
    <3>1. y \in S /\ y \in Nat /\ y > x
      OBVIOUS
    <3>2. y > b
      BY <2>0, <3>1
    <3>3. QED
      BY <3>1, <3>2
  <2>1. Above(x) \in SUBSET Above(b) /\ x \in Above(b) /\ x \notin Above(x)
    BY <2>0, <2>1a
  <2>2. Cardinality(Above(x)) \in Nat /\ Cardinality(Above(b)) \in Nat
    BY <1>1
  <2>3. Cardinality(Above(x)) < Cardinality(Above(b))
    <3>1. Above(x) # Above(b) /\ IsFiniteSet(Above(b))
      BY <1>1, <2>1
    <3> DEFINE A == Above(x)
               B == Above(b)
    <3>2. A \in SUBSET B /\ A # B /\ IsFiniteSet(B)
      BY <2>1, <3>1
    <3>3. Cardinality(A) \in Nat /\ Cardinality(B) \in Nat
      BY <2>2
    <3> HIDE DEF A, B
    <3>4. Cardinality(A) <= Cardinality(B) /\ Cardinality(A) # Cardinality(B)
      BY <3>2, FS_Subset
    <3>5. Cardinality(A) < Cardinality(B)
      BY <3>3, <3>4
    <3>6. QED
      BY <3>5 DEF A, B
  <2>4. Cardinality(Above(b)) <= Cardinality(Above(x))
    BY <1>3
  <2> HIDE DEF Above
  <2>5. QED
    BY <2>2, <2>3, <2>4
<1>5. QED
  BY <1>4

(***************************************************************************)
(* Sums.                                                                   *)
(***************************************************************************)

\* Of some subsets of a finite set one has no smaller one among them.
LEMMA LeastSubset ==
    ASSUME NEW S, IsFiniteSet(S), NEW Bad \in SUBSET SUBSET S, Bad # {}
    PROVE  \E T \in Bad : \A U \in Bad : U \subseteq T => U = T
<1>1. IsWellFoundedOn(StrictSubsetOrdering(S), SUBSET S)
  BY FS_StrictSubsetOrderingWellFounded, FS_FiniteSubsetsOfFinite
<1>2. PICK T \in Bad : \A U \in Bad : <<U, T>> \notin StrictSubsetOrdering(S)
  BY <1>1, WFMin
<1>3. ASSUME NEW U \in Bad, U \subseteq T PROVE U = T
  <2>1. <<U, T>> \in (SUBSET S) \X (SUBSET S)
    OBVIOUS
  <2>2. QED
    BY <1>2, <1>3, <2>1 DEF StrictSubsetOrdering
<1>4. QED
  BY <1>3

Chosen(s) == CHOOSE x \in s : TRUE
Adds(f, iter, s) == IF s = {} THEN 0 ELSE f[Chosen(s)] + iter[s \ {Chosen(s)}]

AddsUp(f, S, iter) == iter = [s \in SUBSET S |-> Adds(f, iter, s)]

LEMMA SumIs ==
    ASSUME NEW f, NEW S
    PROVE  SumFunctionOnSet(f, S) =
              (CHOOSE iter : iter = [s \in SUBSET S |-> Adds(f, iter, s)])[S]
BY DEF SumFunctionOnSet, FoldFunctionOnSet, MapThenFoldSet, Adds, Chosen

LEMMA ChosenIn == \A s : s # {} => Chosen(s) \in s
BY DEF Chosen

\* The subsets up to a size are summed; then those one larger.
LEMMA IterExists ==
    ASSUME NEW f, NEW S, IsFiniteSet(S)
    PROVE  \E iter : iter = [s \in SUBSET S |-> Adds(f, iter, s)]
<1> DEFINE Upto(n) == {s \in SUBSET S : Cardinality(s) <= n}
           Part(n) == \E g : g = [s \in Upto(n) |-> Adds(f, g, s)]
           Bad == {n \in Nat : ~ Part(n)}
<1>0. ASSUME NEW s \in SUBSET S
      PROVE  /\ IsFiniteSet(s) /\ Cardinality(s) \in Nat /\ (Cardinality(s) = 0 <=> s = {})
             /\ s # {} => /\ s \ {Chosen(s)} \in SUBSET S
                          /\ Cardinality(s \ {Chosen(s)}) = Cardinality(s) - 1
  <2>1. IsFiniteSet(s)
    BY FS_Subset
  <2>2. Cardinality(s) \in Nat /\ (Cardinality(s) = 0 <=> s = {})
    BY <2>1, FS_CardinalityType, FS_EmptySet
  <2>3. s # {} => Cardinality(s \ {Chosen(s)}) = Cardinality(s) - 1
    BY <2>1, ChosenIn, FS_RemoveElement
  <2>4. QED
    BY <2>1, <2>2, <2>3
<1>1. ASSUME NEW n \in Nat, \A m \in Nat : m < n => Part(m)
      PROVE  Part(n)
  <2>1. CASE n = 0
    <3> DEFINE g == [s \in Upto(0) |-> 0]
    <3>1. ASSUME NEW s \in Upto(0) PROVE s = {}
      <4>1. Cardinality(s) \in Nat /\ (Cardinality(s) = 0 <=> s = {})
        BY <1>0
      <4>2. Cardinality(s) <= 0
        OBVIOUS
      <4>3. QED
        BY <4>1, <4>2
    <3>2. \A s \in Upto(0) : Adds(f, g, s) = 0
      BY <3>1 DEF Adds
    <3>3. g = [s \in Upto(0) |-> Adds(f, g, s)]
      BY <3>2
    <3>4. QED
      BY <2>1, <3>3
  <2>2. CASE n # 0
    <3>1. n - 1 \in Nat /\ n - 1 < n
      BY <2>2
    <3>2. PICK g : g = [s \in Upto(n - 1) |-> Adds(f, g, s)]
      BY <1>1, <3>1
    <3> DEFINE h == [s \in Upto(n) |-> Adds(f, g, s)]
    <3>3. ASSUME NEW s \in Upto(n) PROVE Adds(f, h, s) = Adds(f, g, s)
      <4>1. CASE s = {}
        BY <4>1 DEF Adds
      <4>2. CASE s # {}
        <5>1. s \ {Chosen(s)} \in Upto(n - 1) /\ s \ {Chosen(s)} \in Upto(n)
          BY <1>0, <3>1, <4>2
        <5>2. h[s \ {Chosen(s)}] = g[s \ {Chosen(s)}]
          BY <3>2, <5>1
        <5>3. QED
          BY <4>2, <5>2 DEF Adds
      <4>3. QED
        BY <4>1, <4>2
    <3>4. h = [s \in Upto(n) |-> Adds(f, h, s)]
      BY <3>3
    <3>5. QED
      BY <3>4
  <2>3. QED
    BY <2>1, <2>2
<1> HIDE DEF Part
<1>2. Bad = {}
  <2> SUFFICES ASSUME Bad # {}
               PROVE  FALSE
    OBVIOUS
  <2>1. PICK n \in Bad : \A m \in Bad : n <= m
    BY LeastNatural
  <2>2. \A m \in Nat : m < n => Part(m)
    BY <2>1
  <2>3. QED
    BY <1>1, <2>2
<1>3. Cardinality(S) \in Nat /\ Upto(Cardinality(S)) = SUBSET S
  <2>1. Cardinality(S) \in Nat
    BY FS_CardinalityType
  <2>2. \A s \in SUBSET S : Cardinality(s) <= Cardinality(S)
    BY FS_Subset
  <2>3. QED
    BY <2>1, <2>2
<1>4. Part(Cardinality(S))
  BY <1>2, <1>3
<1>5. QED
  BY <1>3, <1>4 DEF Part

LEMMA IterIs ==
    ASSUME NEW f, NEW S, IsFiniteSet(S)
    PROVE  \E iter : AddsUp(f, S, iter) /\ SumFunctionOnSet(f, S) = iter[S]
<1> DEFINE iter == CHOOSE g : g = [s \in SUBSET S |-> Adds(f, g, s)]
<1>1. iter = [s \in SUBSET S |-> Adds(f, iter, s)]
  <2>1. \E g : g = [s \in SUBSET S |-> Adds(f, g, s)]
    BY IterExists
  <2>2. QED
    BY <2>1
<1>2. SumFunctionOnSet(f, S) = iter[S]
  BY SumIs
<1>3. AddsUp(f, S, iter)
  BY <1>1 DEF AddsUp
<1>4. QED
  BY <1>2, <1>3

\* Two ways to add up agree on what both add.
LEMMA IterUnique ==
    ASSUME NEW f, NEW S, IsFiniteSet(S), NEW T \in SUBSET S,
           NEW g, AddsUp(f, S, g), NEW h, AddsUp(f, T, h)
    PROVE  \A s \in SUBSET T : h[s] = g[s]
<1> USE DEF AddsUp
<1> DEFINE Bad == {s \in SUBSET T : h[s] # g[s]}
<1> SUFFICES ASSUME Bad # {}
             PROVE  FALSE
  OBVIOUS
<1>1. PICK s \in Bad : \A u \in Bad : u \subseteq s => u = s
  <2>1. Bad \in SUBSET SUBSET S
    OBVIOUS
  <2> HIDE DEF Bad
  <2>2. QED
    BY <2>1, LeastSubset
<1>2. CASE s = {}
  <2>1. h[s] = Adds(f, h, s) /\ g[s] = Adds(f, g, s)
    OBVIOUS
  <2>2. QED
    BY <1>2, <2>1 DEF Adds
<1>3. CASE s # {}
  <2> DEFINE u == s \ {Chosen(s)}
  <2>1. u \subseteq s /\ u # s /\ u \in SUBSET T
    BY <1>3, ChosenIn
  <2>2. h[u] = g[u]
    BY <1>1, <2>1
  <2>3. h[s] = Adds(f, h, s) /\ g[s] = Adds(f, g, s)
    OBVIOUS
  <2>4. QED
    BY <1>3, <2>2, <2>3 DEF Adds
<1>4. QED
  BY <1>2, <1>3


LEMMA SumEmpty == \A f : SumFunctionOnSet(f, {}) = 0
<1> SUFFICES ASSUME NEW f
             PROVE  SumFunctionOnSet(f, {}) = 0
  OBVIOUS
<1>1. IsFiniteSet({})
  BY FS_EmptySet
<1>2. PICK g : AddsUp(f, {}, g) /\ SumFunctionOnSet(f, {}) = g[{}]
  BY <1>1, IterIs
<1>3. g[{}] = Adds(f, g, {})
  BY <1>2 DEF AddsUp
<1>4. QED
  BY <1>2, <1>3 DEF Adds

LEMMA SumChosen ==
    ASSUME NEW f, NEW S, IsFiniteSet(S), S # {}
    PROVE  SumFunctionOnSet(f, S)
              = f[Chosen(S)] + SumFunctionOnSet(f, S \ {Chosen(S)})
<1> DEFINE T == S \ {Chosen(S)}
<1>1. PICK g : AddsUp(f, S, g) /\ SumFunctionOnSet(f, S) = g[S]
  BY IterIs
<1>2. IsFiniteSet(T) /\ T \in SUBSET S
  BY FS_Subset
<1> HIDE DEF T
<1>3. PICK h : AddsUp(f, T, h) /\ SumFunctionOnSet(f, T) = h[T]
  BY <1>2, IterIs
<1>4. h[T] = g[T]
  <2>1. \A s \in SUBSET T : h[s] = g[s]
    BY ONLY IsFiniteSet(S), <1>1, <1>2, <1>3, IterUnique
  <2>2. QED
    BY <2>1
<1>5. g[S] = Adds(f, g, S)
  BY <1>1 DEF AddsUp
<1>6. QED
  BY <1>1, <1>3, <1>4, <1>5 DEF Adds, T

\* What is left when the chosen member is taken is smaller, and finite.
LEMMA RestIsLess ==
    ASSUME NEW S, IsFiniteSet(S), NEW T \in SUBSET S, T # {}
    PROVE  /\ IsFiniteSet(T) /\ Chosen(T) \in T
           /\ T \ {Chosen(T)} \in SUBSET S /\ IsFiniteSet(T \ {Chosen(T)})
           /\ T \ {Chosen(T)} \subseteq T /\ T \ {Chosen(T)} # T
BY ChosenIn, FS_Subset

LEMMA SumIsInt ==
    ASSUME NEW f, NEW S, IsFiniteSet(S), \A x \in S : f[x] \in Int
    PROVE  SumFunctionOnSet(f, S) \in Int
<1> DEFINE Bad == {T \in SUBSET S : SumFunctionOnSet(f, T) \notin Int}
<1>1. Bad = {}
  <2> SUFFICES ASSUME Bad # {}
               PROVE  FALSE
    OBVIOUS
  <2>1. PICK T \in Bad : \A U \in Bad : U \subseteq T => U = T
    <3>1. Bad \in SUBSET SUBSET S
      OBVIOUS
    <3> HIDE DEF Bad
    <3>2. QED
      BY <3>1, LeastSubset
  <2>2. T # {}
    BY SumEmpty
  <2>3. /\ IsFiniteSet(T) /\ Chosen(T) \in T /\ T \ {Chosen(T)} \in SUBSET S
        /\ T \ {Chosen(T)} # T
    BY <2>2, RestIsLess
  <2>4. SumFunctionOnSet(f, T \ {Chosen(T)}) \in Int
    BY <2>1, <2>3
  <2>5. f[Chosen(T)] \in Int
    BY <2>3
  <2>6. SumFunctionOnSet(f, T) \in Int
    BY <2>2, <2>3, <2>4, <2>5, SumChosen
  <2>7. QED
    BY <2>6
<1>2. QED
  BY <1>1

\* Any member may be counted first.
LEMMA SumSplit ==
    ASSUME NEW f, NEW S, IsFiniteSet(S), \A x \in S : f[x] \in Int, NEW x \in S
    PROVE  SumFunctionOnSet(f, S) = f[x] + SumFunctionOnSet(f, S \ {x})
<1> DEFINE Splits(T, y) == SumFunctionOnSet(f, T) = f[y] + SumFunctionOnSet(f, T \ {y})
           Bad == {T \in SUBSET S : \E y \in T : ~ Splits(T, y)}
<1>1. Bad = {}
  <2> SUFFICES ASSUME Bad # {}
               PROVE  FALSE
    OBVIOUS
  <2>1. PICK T \in Bad : \A U \in Bad : U \subseteq T => U = T
    <3>1. Bad \in SUBSET SUBSET S
      OBVIOUS
    <3> HIDE DEF Bad
    <3>2. QED
      BY <3>1, LeastSubset
  <2>2. PICK y \in T : ~ Splits(T, y)
    OBVIOUS
  <2> DEFINE c == Chosen(T)
             U == T \ {c}
             V == T \ {y}
  <2>3. IsFiniteSet(T) /\ c \in T /\ U \in SUBSET S /\ U \subseteq T /\ U # T
    BY RestIsLess
  <2>4. SumFunctionOnSet(f, T) = f[c] + SumFunctionOnSet(f, U)
    BY <2>3, SumChosen
  <2>5. c # y
    BY <2>2, <2>4
  <2>6. V \in SUBSET S /\ V \subseteq T /\ V # T
    OBVIOUS
  <2>7. Splits(U, y) /\ Splits(V, c)
    <3>1. U \notin Bad /\ V \notin Bad
      BY <2>1, <2>3, <2>6
    <3>2. y \in U /\ c \in V
      BY <2>3, <2>5
    <3> HIDE DEF Splits, U, V
    <3>3. QED
      BY <2>3, <2>6, <3>1, <3>2
  <2>8. U \ {y} = V \ {c}
    OBVIOUS
  <2>9. f[c] \in Int /\ f[y] \in Int /\ SumFunctionOnSet(f, V \ {c}) \in Int
    <3>1. IsFiniteSet(V \ {c}) /\ V \ {c} \in SUBSET S
      BY FS_Subset
    <3>2. QED
      BY <2>3, <3>1, SumIsInt
  <2> HIDE DEF U, V, c
  <2>10. /\ SumFunctionOnSet(f, U) = f[y] + SumFunctionOnSet(f, V \ {c})
         /\ SumFunctionOnSet(f, V) = f[c] + SumFunctionOnSet(f, V \ {c})
    BY <2>7, <2>8
  <2>10a. SumFunctionOnSet(f, T) = f[y] + SumFunctionOnSet(f, V)
    BY ONLY <2>4, <2>9, <2>10
  <2>11. Splits(T, y)
    BY <2>10a DEF V
  <2>12. QED
    BY <2>2, <2>11
<1>2. QED
  BY <1>1

LEMMA SumAgrees ==
    ASSUME NEW f, NEW g, NEW S, IsFiniteSet(S), \A x \in S : f[x] = g[x]
    PROVE  SumFunctionOnSet(f, S) = SumFunctionOnSet(g, S)
<1> DEFINE Bad == {T \in SUBSET S : SumFunctionOnSet(f, T) # SumFunctionOnSet(g, T)}
<1>1. Bad = {}
  <2> SUFFICES ASSUME Bad # {}
               PROVE  FALSE
    OBVIOUS
  <2>1. PICK T \in Bad : \A U \in Bad : U \subseteq T => U = T
    <3>1. Bad \in SUBSET SUBSET S
      OBVIOUS
    <3> HIDE DEF Bad
    <3>2. QED
      BY <3>1, LeastSubset
  <2>2. T # {}
    BY SumEmpty
  <2>3. /\ SumFunctionOnSet(f, T \ {Chosen(T)}) = SumFunctionOnSet(g, T \ {Chosen(T)})
        /\ f[Chosen(T)] = g[Chosen(T)] /\ IsFiniteSet(T)
    BY <2>1, <2>2, RestIsLess
  <2>4. QED
    BY <2>2, <2>3, SumChosen
<1>2. QED
  BY <1>1

LEMMA SumMonotone ==
    ASSUME NEW f, NEW g, NEW S, IsFiniteSet(S),
           \A x \in S : f[x] \in Int /\ g[x] \in Int /\ f[x] <= g[x]
    PROVE  SumFunctionOnSet(f, S) <= SumFunctionOnSet(g, S)
<1> DEFINE Bad == {T \in SUBSET S : ~ (SumFunctionOnSet(f, T) <= SumFunctionOnSet(g, T))}
<1>1. Bad = {}
  <2> SUFFICES ASSUME Bad # {}
               PROVE  FALSE
    OBVIOUS
  <2>1. PICK T \in Bad : \A U \in Bad : U \subseteq T => U = T
    <3>1. Bad \in SUBSET SUBSET S
      OBVIOUS
    <3> HIDE DEF Bad
    <3>2. QED
      BY <3>1, LeastSubset
  <2>2. T # {}
    BY SumEmpty
  <2> DEFINE U == T \ {Chosen(T)}
  <2>3. /\ SumFunctionOnSet(f, U) <= SumFunctionOnSet(g, U) /\ IsFiniteSet(T)
        /\ IsFiniteSet(U) /\ U \in SUBSET S /\ Chosen(T) \in S
    BY <2>1, <2>2, RestIsLess
  <2> HIDE DEF U
  <2>4. SumFunctionOnSet(f, U) \in Int /\ SumFunctionOnSet(g, U) \in Int
    BY <2>3, SumIsInt
  <2>5. /\ SumFunctionOnSet(f, T) = f[Chosen(T)] + SumFunctionOnSet(f, U)
        /\ SumFunctionOnSet(g, T) = g[Chosen(T)] + SumFunctionOnSet(g, U)
    BY <2>2, <2>3, SumChosen DEF U
  <2>6. /\ f[Chosen(T)] \in Int /\ g[Chosen(T)] \in Int /\ f[Chosen(T)] <= g[Chosen(T)]
    BY <2>3
  <2>7. SumFunctionOnSet(f, T) <= SumFunctionOnSet(g, T)
    BY <2>3, <2>4, <2>5, <2>6
  <2>8. QED
    BY <2>7
<1>2. QED
  BY <1>1

\* One value changes.
LEMMA SumChanges ==
    ASSUME NEW f, NEW g, NEW S, IsFiniteSet(S), NEW x \in S,
           \A y \in S : f[y] \in Int /\ g[y] \in Int,
           \A y \in S : y # x => f[y] = g[y]
    PROVE  SumFunctionOnSet(g, S) = SumFunctionOnSet(f, S) - f[x] + g[x]
<1> DEFINE T == S \ {x}
<1>1. IsFiniteSet(T) /\ \A y \in T : f[y] \in Int /\ g[y] \in Int /\ f[y] = g[y]
  BY FS_Subset
<1>2. /\ SumFunctionOnSet(f, S) = f[x] + SumFunctionOnSet(f, T)
      /\ SumFunctionOnSet(g, S) = g[x] + SumFunctionOnSet(g, T)
  BY SumSplit
<1> HIDE DEF T
<1>3. SumFunctionOnSet(f, T) = SumFunctionOnSet(g, T) /\ SumFunctionOnSet(f, T) \in Int
  BY <1>1, SumAgrees, SumIsInt
<1>4. QED
  BY <1>2, <1>3

\* One value falls by n at least, and no other rises.
LEMMA SumFalls ==
    ASSUME NEW f, NEW g, NEW S, IsFiniteSet(S), NEW x \in S, NEW n \in Int,
           \A y \in S : f[y] \in Int /\ g[y] \in Int /\ (y # x => g[y] <= f[y]),
           g[x] <= f[x] - n
    PROVE  SumFunctionOnSet(g, S) <= SumFunctionOnSet(f, S) - n
<1> DEFINE T == S \ {x}
<1>1. IsFiniteSet(T) /\ \A y \in T : g[y] \in Int /\ f[y] \in Int /\ g[y] <= f[y]
  BY FS_Subset
<1>2. /\ SumFunctionOnSet(f, S) = f[x] + SumFunctionOnSet(f, T)
      /\ SumFunctionOnSet(g, S) = g[x] + SumFunctionOnSet(g, T)
  BY SumSplit
<1> HIDE DEF T
<1>3. /\ SumFunctionOnSet(g, T) <= SumFunctionOnSet(f, T)
      /\ SumFunctionOnSet(f, T) \in Int /\ SumFunctionOnSet(g, T) \in Int
  BY <1>1, SumMonotone, SumIsInt
<1>4. QED
  BY <1>2, <1>3

\* The sum of differences is the difference of the sums.
LEMMA SumDiffers ==
    ASSUME NEW f, NEW g, NEW h, NEW S, IsFiniteSet(S),
           \A x \in S : g[x] \in Int /\ h[x] \in Int /\ f[x] = g[x] - h[x]
    PROVE  SumFunctionOnSet(f, S) = SumFunctionOnSet(g, S) - SumFunctionOnSet(h, S)
<1> DEFINE Bad == {T \in SUBSET S : SumFunctionOnSet(f, T)
                                       # SumFunctionOnSet(g, T) - SumFunctionOnSet(h, T)}
<1>1. Bad = {}
  <2> SUFFICES ASSUME Bad # {}
               PROVE  FALSE
    OBVIOUS
  <2>1. PICK T \in Bad : \A U \in Bad : U \subseteq T => U = T
    <3>1. Bad \in SUBSET SUBSET S
      OBVIOUS
    <3> HIDE DEF Bad
    <3>2. QED
      BY <3>1, LeastSubset
  <2>2. T # {}
    BY SumEmpty
  <2> DEFINE U == T \ {Chosen(T)}
  <2>3. /\ SumFunctionOnSet(f, U) = SumFunctionOnSet(g, U) - SumFunctionOnSet(h, U)
        /\ IsFiniteSet(T) /\ IsFiniteSet(U) /\ U \in SUBSET S /\ Chosen(T) \in S
    BY <2>1, <2>2, RestIsLess
  <2> HIDE DEF U
  <2>4. SumFunctionOnSet(g, U) \in Int /\ SumFunctionOnSet(h, U) \in Int
    BY <2>3, SumIsInt
  <2>5. /\ SumFunctionOnSet(f, T) = f[Chosen(T)] + SumFunctionOnSet(f, U)
        /\ SumFunctionOnSet(g, T) = g[Chosen(T)] + SumFunctionOnSet(g, U)
        /\ SumFunctionOnSet(h, T) = h[Chosen(T)] + SumFunctionOnSet(h, U)
    BY <2>2, <2>3, SumChosen DEF U
  <2>6. /\ g[Chosen(T)] \in Int /\ h[Chosen(T)] \in Int
        /\ f[Chosen(T)] = g[Chosen(T)] - h[Chosen(T)]
    BY <2>3
  <2>7. SumFunctionOnSet(f, T) = SumFunctionOnSet(g, T) - SumFunctionOnSet(h, T)
    BY <2>3, <2>4, <2>5, <2>6
  <2>8. QED
    BY <2>7
<1>2. QED
  BY <1>1

LEMMA SumIsNat ==
    ASSUME NEW f, NEW S, IsFiniteSet(S), \A x \in S : f[x] \in Nat
    PROVE  SumFunctionOnSet(f, S) \in Nat
<1> DEFINE z == [x \in S |-> 0]
<1>1. SumFunctionOnSet(f, S) \in Int
  BY SumIsInt
<1>2. SumFunctionOnSet(z, S) <= SumFunctionOnSet(f, S)
  BY SumMonotone
<1>3. SumFunctionOnSet(z, S) = 0
  <2> DEFINE Bad == {T \in SUBSET S : SumFunctionOnSet(z, T) # 0}
  <2>1. Bad = {}
    <3> SUFFICES ASSUME Bad # {}
                 PROVE  FALSE
      OBVIOUS
    <3>1. PICK T \in Bad : \A U \in Bad : U \subseteq T => U = T
      <4>1. Bad \in SUBSET SUBSET S
        OBVIOUS
      <4> HIDE DEF Bad
      <4>2. QED
        BY <4>1, LeastSubset
    <3>2. T # {}
      BY SumEmpty
    <3>3. /\ SumFunctionOnSet(z, T \ {Chosen(T)}) = 0 /\ z[Chosen(T)] = 0 /\ IsFiniteSet(T)
      BY <3>1, <3>2, RestIsLess
    <3> HIDE DEF z
    <3>4. SumFunctionOnSet(z, T) = 0
      BY <3>2, <3>3, SumChosen
    <3>5. QED
      BY <3>4
  <2>2. QED
    BY <2>1
<1>4. QED
  BY <1>1, <1>2, <1>3

\* The values outside a part of the set are what a sum of naturals has over the part.
LEMMA SumOfPart ==
    ASSUME NEW f, NEW S, IsFiniteSet(S), \A x \in S : f[x] \in Int, NEW P \in SUBSET S,
           \A x \in S \ P : f[x] = 0
    PROVE  SumFunctionOnSet(f, P) = SumFunctionOnSet(f, S)
<1> DEFINE Bad == {T \in SUBSET S : SumFunctionOnSet(f, T \cap P) # SumFunctionOnSet(f, T)}
<1>1. Bad = {}
  <2> SUFFICES ASSUME Bad # {}
               PROVE  FALSE
    OBVIOUS
  <2>1. PICK T \in Bad : \A U \in Bad : U \subseteq T => U = T
    <3>1. Bad \in SUBSET SUBSET S
      OBVIOUS
    <3> HIDE DEF Bad
    <3>2. QED
      BY <3>1, LeastSubset
  <2>2. T # {} /\ T \in SUBSET S
    <3>1. {} \cap P = {}
      OBVIOUS
    <3>2. QED
      BY <3>1
  <2> DEFINE c == Chosen(T)
             U == T \ {c}
  <2>3. /\ SumFunctionOnSet(f, U \cap P) = SumFunctionOnSet(f, U) /\ IsFiniteSet(T)
        /\ IsFiniteSet(U) /\ U \in SUBSET S /\ c \in T /\ c \in S
    BY <2>1, <2>2, RestIsLess
  <2>4. SumFunctionOnSet(f, T) = f[c] + SumFunctionOnSet(f, U)
    BY <2>2, <2>3, SumChosen
  <2>5. f[c] \in Int /\ SumFunctionOnSet(f, U) \in Int
    <3> HIDE DEF U, c
    <3>1. QED
      BY <2>3, SumIsInt
  <2>6. CASE c \in P
    <3>1. IsFiniteSet(T \cap P) /\ c \in T \cap P /\ (T \cap P) \ {c} = U \cap P
      BY <2>3, <2>6, FS_Intersection
    <3>2. \A x \in T \cap P : f[x] \in Int
      BY <2>2
    <3> HIDE DEF c, U
    <3>3. SumFunctionOnSet(f, T \cap P) = f[c] + SumFunctionOnSet(f, U \cap P)
      BY <3>1, <3>2, SumSplit
    <3>4. QED
      BY <2>1, <2>3, <2>4, <3>3
  <2>7. CASE c \notin P
    <3>1. T \cap P = U \cap P /\ f[c] = 0
      BY <2>3, <2>7
    <3> HIDE DEF c, U
    <3>2. QED
      BY <2>1, <2>3, <2>4, <2>5, <3>1
  <2>8. QED
    BY <2>6, <2>7
<1>2. S \cap P = P
  OBVIOUS
<1>3. QED
  BY <1>1, <1>2

\* A bound on every value bounds the sum.
LEMMA SumBounded ==
    ASSUME NEW f, NEW S, IsFiniteSet(S), NEW c \in Nat,
           \A x \in S : f[x] \in Int /\ f[x] <= c
    PROVE  SumFunctionOnSet(f, S) <= c * Cardinality(S)
<1> DEFINE Bad == {T \in SUBSET S : ~ (SumFunctionOnSet(f, T) <= c * Cardinality(T))}
<1>1. Bad = {}
  <2> SUFFICES ASSUME Bad # {}
               PROVE  FALSE
    OBVIOUS
  <2>1. PICK T \in Bad : \A U \in Bad : U \subseteq T => U = T
    <3>1. Bad \in SUBSET SUBSET S
      OBVIOUS
    <3> HIDE DEF Bad
    <3>2. QED
      BY <3>1, LeastSubset
  <2>2. T # {}
    BY SumEmpty, FS_EmptySet
  <2> DEFINE d == Chosen(T)
             U == T \ {d}
  <2>3. IsFiniteSet(T) /\ d \in T /\ U \in SUBSET S /\ IsFiniteSet(U) /\ U \subseteq T /\ U # T
    BY <2>2, RestIsLess
  <2>4. SumFunctionOnSet(f, U) <= c * Cardinality(U)
    BY <2>1, <2>3
  <2>5. f[d] \in Int /\ f[d] <= c
    BY <2>3
  <2> HIDE DEF Bad, d
  <2>6. Cardinality(U) = Cardinality(T) - 1 /\ Cardinality(U) \in Nat /\ Cardinality(T) \in Nat
    BY <2>3, FS_RemoveElement, FS_CardinalityType
  <2>7. SumFunctionOnSet(f, T) = f[d] + SumFunctionOnSet(f, U)
    BY <2>2, <2>3, SumChosen DEF d
  <2>8. SumFunctionOnSet(f, U) \in Int
    BY <2>3, SumIsInt
  <2> HIDE DEF U
  <2>9. c * Cardinality(T) = c * Cardinality(U) + c
    <3> DEFINE k == Cardinality(U)
    <3>1. k \in Nat /\ Cardinality(T) = k + 1
      BY <2>6
    <3> HIDE DEF k
    <3>2. c * (k + 1) = c * k + c
      BY <3>1
    <3>3. QED
      BY <3>1, <3>2 DEF k
  <2>10. c * Cardinality(U) \in Int
    BY <2>6
  <2>11. SumFunctionOnSet(f, T) <= c * Cardinality(T)
    BY <2>4, <2>5, <2>7, <2>8, <2>9, <2>10
  <2>12. QED
    BY <2>11 DEF Bad
<1>2. QED
  BY <1>1
=============================================================================
