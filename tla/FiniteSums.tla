----------------------------- MODULE FiniteSums -----------------------------
(***************************************************************************)
(* What the sums of the models are: SumFunctionOnSet does not depend on    *)
(* the order of the elements, is additive and is monotone.  The fold it is *)
(* defined by is recursive; facts about it are proved by taking a smallest *)
(* set for which they fail.                                                *)
(***************************************************************************)
EXTENDS Integers, FiniteSets, Functions, FiniteSetTheorems, WellFoundedInduction, TLAPS

\* Every set of naturals that has an element has a least one; the facts about
\* sums are proved by taking a smallest set for which they fail.
LEMMA LeastNat ==
    ASSUME NEW T, T \subseteq Nat, T # {}
    PROVE  \E x \in T : \A y \in T : x <= y
<1>1. PICK x \in T : \A y \in T : ~ (<<y, x>> \in OpToRel(<, Nat))
  BY WFMin, NatLessThanWellFounded
<1>2. \A y \in T : ~ (y < x)
  BY <1>1 DEF OpToRel
<1> QED
  BY <1>2

\* The element the library's fold takes from a set next.
Pick(s) == CHOOSE x \in s : TRUE

\* g is the fold behind SumFunctionOnSet(f, S), on every subset of S.
IsSum(f, S, g) ==
    g = [s \in SUBSET S |-> IF s = {} THEN 0 ELSE f[Pick(s)] + g[s \ {Pick(s)}]]

\* Taking an element away makes a finite set smaller by one.
LEMMA SmallerSet ==
    ASSUME NEW S, IsFiniteSet(S), NEW x \in S
    PROVE  /\ IsFiniteSet(S \ {x})
           /\ Cardinality(S) \in Nat /\ Cardinality(S \ {x}) \in Nat
           /\ Cardinality(S) = Cardinality(S \ {x}) + 1
  BY FS_RemoveElement, FS_CardinalityType

\* Of a collection of finite sets, some set is smallest: taking an element away
\* leads out of the collection.
LEMMA SmallestSet ==
    ASSUME NEW Bad, Bad # {}, \A c \in Bad : IsFiniteSet(c)
    PROVE  \E c \in Bad : IsFiniteSet(c) /\ \A w \in c : c \ {w} \notin Bad
<1> DEFINE T == {Cardinality(c) : c \in Bad}
<1>1. T \subseteq Nat /\ T # {}
  BY FS_CardinalityType
<1>2. PICK n \in T : \A k \in T : n <= k
  <2> HIDE DEF T
  <2> QED BY <1>1, LeastNat
<1>3. PICK c \in Bad : n = Cardinality(c)
  OBVIOUS
<1>4. ASSUME NEW w \in c, c \ {w} \in Bad PROVE FALSE
  <2>1. /\ Cardinality(c) \in Nat /\ Cardinality(c \ {w}) \in Nat
        /\ Cardinality(c) = Cardinality(c \ {w}) + 1
    BY SmallerSet
  <2>2. n <= Cardinality(c \ {w})
    BY <1>2, <1>4
  <2> QED BY <1>3, <2>1, <2>2
<1> QED
  BY <1>4

\* The fold takes a member of the set.
LEMMA PickMember ==
    ASSUME NEW s, s # {}
    PROVE  Pick(s) \in s
  BY DEF Pick

\* Folds of functions that agree on a set agree on the set.
LEMMA SumUnique ==
    ASSUME NEW f, NEW f2, NEW S, NEW R, NEW g, NEW h, IsSum(f, S, g), IsSum(f2, R, h),
           NEW s, IsFiniteSet(s), s \subseteq S, s \subseteq R,
           \A x \in s : f[x] = f2[x]
    PROVE  g[s] = h[s]
<1> DEFINE Bad == {c \in SUBSET s : g[c] # h[c]}
<1> SUFFICES ASSUME Bad # {} PROVE FALSE
  OBVIOUS
<1>1. PICK c \in Bad : IsFiniteSet(c) /\ \A w \in c : c \ {w} \notin Bad
  <2>1. \A c \in Bad : IsFiniteSet(c)
    BY FS_Subset
  <2> HIDE DEF Bad
  <2> QED BY <2>1, SmallestSet
<1>2. g[c] = IF c = {} THEN 0 ELSE f[Pick(c)] + g[c \ {Pick(c)}]
  BY DEF IsSum
<1>3. h[c] = IF c = {} THEN 0 ELSE f2[Pick(c)] + h[c \ {Pick(c)}]
  BY DEF IsSum
<1>4. c # {}
  BY <1>2, <1>3
<1>5. Pick(c) \in c
  BY <1>4, PickMember
<1> QED
  BY <1>1, <1>2, <1>3, <1>4, <1>5

\* The fold exists: the recursive definition has a solution on a finite set.
LEMMA SumExists ==
    ASSUME NEW f, NEW S, IsFiniteSet(S), \A x \in S : f[x] \in Int
    PROVE  \E g \in [SUBSET S -> Int] : IsSum(f, S, g)
<1> DEFINE Part(n) == {s \in SUBSET S : Cardinality(s) <= n}
           Fits(n, g) == \A s \in Part(n) :
               g[s] = IF s = {} THEN 0 ELSE f[Pick(s)] + g[s \ {Pick(s)}]
           T == {n \in Nat : ~ \E g \in [Part(n) -> Int] : Fits(n, g)}
<1>0. \A s \in SUBSET S : IsFiniteSet(s) /\ Cardinality(s) \in Nat
  BY FS_Subset, FS_CardinalityType
<1>1. T = {}
  <2> SUFFICES ASSUME T # {} PROVE FALSE
    OBVIOUS
  <2>1. PICK n \in T : \A y \in T : n <= y
    <3>1. T \subseteq Nat
      OBVIOUS
    <3> HIDE DEF T
    <3> QED BY <3>1, LeastNat
  <2>2. CASE n = 0
    <3> DEFINE g == [s \in Part(0) |-> 0]
    <3>1. \A s \in Part(0) : s = {}
      BY <1>0, FS_EmptySet
    <3>2. Fits(0, g) /\ g \in [Part(0) -> Int]
      BY <3>1
    <3> QED BY <2>2, <3>2
  <2>3. CASE n # 0
    <3>1. n - 1 \in Nat /\ n - 1 \notin T
      <4>1. n \in Nat
        BY <2>1
      <4> HIDE DEF T
      <4> QED BY <4>1, <2>1, <2>3
    <3>2. PICK g \in [Part(n - 1) -> Int] : Fits(n - 1, g)
      BY <3>1
    <3> DEFINE h == [s \in Part(n) |-> IF s = {} THEN 0 ELSE f[Pick(s)] + g[s \ {Pick(s)}]]
    <3>3. ASSUME NEW s \in Part(n), s # {}
          PROVE  /\ s \ {Pick(s)} \in Part(n - 1) /\ s \ {Pick(s)} \in Part(n)
                 /\ f[Pick(s)] \in Int
      <4>1. Pick(s) \in s
        BY <3>3, PickMember
      <4>2. Cardinality(s) = Cardinality(s \ {Pick(s)}) + 1 /\ Cardinality(s \ {Pick(s)}) \in Nat
        BY <4>1, <1>0, SmallerSet
      <4> QED BY <4>1, <4>2
    <3>4. h \in [Part(n) -> Int]
      BY <3>3, <3>2
    <3>5. \A s \in Part(n - 1) : h[s] = g[s]
      <4> TAKE s \in Part(n - 1)
      <4>1. s \in Part(n)
        BY <1>0
      <4> QED BY <4>1, <3>2
    <3>6. Fits(n, h)
      BY <3>3, <3>5
    <3> QED BY <3>4, <3>6
  <2> QED BY <2>2, <2>3
<1> DEFINE n == Cardinality(S)
<1>2. n \in Nat /\ Part(n) = SUBSET S
  BY FS_Subset, FS_CardinalityType
<1>3. PICK g \in [SUBSET S -> Int] : Fits(n, g)
  BY <1>1, <1>2
<1>4. g = [s \in SUBSET S |-> IF s = {} THEN 0 ELSE f[Pick(s)] + g[s \ {Pick(s)}]]
  BY <1>2, <1>3
<1> QED
  BY <1>4 DEF IsSum

\* SumFunctionOnSet is the value of such a fold.
LEMMA SumFacts ==
    ASSUME NEW f, NEW S, IsFiniteSet(S), \A x \in S : f[x] \in Int
    PROVE  \E g \in [SUBSET S -> Int] : IsSum(f, S, g) /\ SumFunctionOnSet(f, S) = g[S]
<1> DEFINE Iter == CHOOSE g : g = [s \in SUBSET S |->
                       IF s = {} THEN 0
                       ELSE f[CHOOSE x \in s : TRUE] + g[s \ {CHOOSE x \in s : TRUE}]]
<1>1. SumFunctionOnSet(f, S) = Iter[S]
  BY DEF SumFunctionOnSet, FoldFunctionOnSet, MapThenFoldSet
<1>2. PICK g \in [SUBSET S -> Int] : IsSum(f, S, g)
  BY SumExists
<1>3. IsSum(f, S, Iter)
  BY <1>2 DEF IsSum, Pick
<1>4. SumFunctionOnSet(f, S) = g[S]
  <2> HIDE DEF Iter
  <2> QED BY <1>1, <1>2, <1>3, SumUnique
<1> QED
  BY <1>2, <1>4

\* A sum of integers is an integer.
LEMMA SumInt ==
    ASSUME NEW f, NEW S, IsFiniteSet(S), \A x \in S : f[x] \in Int
    PROVE  SumFunctionOnSet(f, S) \in Int
<1>1. PICK g \in [SUBSET S -> Int] : IsSum(f, S, g) /\ SumFunctionOnSet(f, S) = g[S]
  BY SumFacts
<1> QED
  BY <1>1

\* The sum over no elements.
LEMMA SumEmpty ==
    ASSUME NEW f
    PROVE  SumFunctionOnSet(f, {}) = 0
<1>1. PICK g \in [SUBSET {} -> Int] : IsSum(f, {}, g) /\ SumFunctionOnSet(f, {}) = g[{}]
  BY SumFacts, FS_EmptySet
<1> QED
  BY <1>1 DEF IsSum

\* A sum depends on the values on the set only.
LEMMA SumSame ==
    ASSUME NEW f, NEW f2, NEW S, IsFiniteSet(S),
           \A x \in S : f[x] \in Int /\ f2[x] = f[x]
    PROVE  SumFunctionOnSet(f2, S) = SumFunctionOnSet(f, S)
<1>1. PICK g \in [SUBSET S -> Int] : IsSum(f, S, g) /\ SumFunctionOnSet(f, S) = g[S]
  BY SumFacts
<1>2. PICK h \in [SUBSET S -> Int] : IsSum(f2, S, h) /\ SumFunctionOnSet(f2, S) = h[S]
  BY SumFacts
<1> QED
  BY <1>1, <1>2, SumUnique

\* One step of the fold.
LEMMA SumFirst ==
    ASSUME NEW f, NEW S, IsFiniteSet(S), S # {}, \A x \in S : f[x] \in Int
    PROVE  SumFunctionOnSet(f, S) = f[Pick(S)] + SumFunctionOnSet(f, S \ {Pick(S)})
<1> DEFINE R == S \ {Pick(S)}
<1>1. PICK g \in [SUBSET S -> Int] : IsSum(f, S, g) /\ SumFunctionOnSet(f, S) = g[S]
  BY SumFacts
<1>2. IsFiniteSet(R)
  BY FS_Subset
<1>3. PICK h \in [SUBSET R -> Int] : IsSum(f, R, h) /\ SumFunctionOnSet(f, R) = h[R]
  <2> HIDE DEF R
  <2>1. \A x \in R : f[x] \in Int
    BY DEF R
  <2> QED BY <2>1, <1>2, SumFacts
<1>4. g[R] = h[R]
  <2>1. R \subseteq S
    OBVIOUS
  <2> HIDE DEF R
  <2> QED BY <2>1, <1>1, <1>2, <1>3, SumUnique
<1>5. g[S] = f[Pick(S)] + g[R]
  BY <1>1 DEF IsSum
<1> QED
  BY <1>1, <1>3, <1>4, <1>5

\* Any element can be summed first: the order does not matter.
LEMMA SumAny ==
    ASSUME NEW f, NEW S, IsFiniteSet(S), \A x \in S : f[x] \in Int, NEW y \in S
    PROVE  SumFunctionOnSet(f, S) = f[y] + SumFunctionOnSet(f, S \ {y})
<1> DEFINE Sum(c) == SumFunctionOnSet(f, c)
           Bad == {c \in SUBSET S : \E z \in c : Sum(c) # f[z] + Sum(c \ {z})}
<1> SUFFICES ASSUME Bad # {} PROVE FALSE
  OBVIOUS
<1>1. PICK c \in Bad : IsFiniteSet(c) /\ \A w \in c : c \ {w} \notin Bad
  <2>1. \A c \in Bad : IsFiniteSet(c)
    BY FS_Subset
  <2> HIDE DEF Bad
  <2> QED BY <2>1, SmallestSet
<1>2. IsFiniteSet(c) /\ c \subseteq S
  BY <1>1
<1>3. PICK z \in c : Sum(c) # f[z] + Sum(c \ {z})
  OBVIOUS
<1> DEFINE x == Pick(c)
<1>4. x \in c /\ Sum(c) = f[x] + Sum(c \ {x})
  BY <1>2, <1>3, PickMember, SumFirst
<1>5. x # z
  BY <1>3, <1>4
<1>6. ASSUME NEW w \in c
      PROVE  \A v \in c \ {w} : Sum(c \ {w}) = f[v] + Sum((c \ {w}) \ {v})
  BY <1>1, <1>2
<1>7. Sum(c \ {x}) = f[z] + Sum((c \ {x}) \ {z})
  BY <1>4, <1>5, <1>6
<1>8. Sum(c \ {z}) = f[x] + Sum((c \ {z}) \ {x})
  BY <1>4, <1>5, <1>6
<1>9. Sum((c \ {x}) \ {z}) \in Int /\ f[x] \in Int /\ f[z] \in Int
  <2>1. IsFiniteSet((c \ {x}) \ {z})
    BY <1>2, FS_Subset
  <2> QED BY <2>1, <1>2, <1>4, SumInt
<1>10. Sum((c \ {z}) \ {x}) = Sum((c \ {x}) \ {z})
  <2>1. (c \ {x}) \ {z} = (c \ {z}) \ {x}
    OBVIOUS
  <2> QED BY <2>1
<1>11. Sum(c) = f[x] + (f[z] + Sum((c \ {x}) \ {z}))
  BY <1>4, <1>7
<1>12. f[z] + Sum(c \ {z}) = f[z] + (f[x] + Sum((c \ {x}) \ {z}))
  BY <1>8, <1>10
<1> HIDE DEF Sum, x
<1> QED
  BY <1>3, <1>9, <1>11, <1>12

\* The sum over a set with one more element.
LEMMA SumAdd ==
    ASSUME NEW f, NEW S, IsFiniteSet(S), NEW y, y \notin S, f[y] \in Int,
           \A x \in S : f[x] \in Int
    PROVE  SumFunctionOnSet(f, S \cup {y}) = f[y] + SumFunctionOnSet(f, S)
<1>1. IsFiniteSet(S \cup {y}) /\ (S \cup {y}) \ {y} = S
  BY FS_AddElement
<1> QED
  BY <1>1, SumAny

\* The sum after one summand changed.
LEMMA SumUpdate ==
    ASSUME NEW f, NEW f2, NEW S, IsFiniteSet(S), NEW y \in S,
           \A x \in S : f[x] \in Int /\ f2[x] \in Int,
           \A x \in S \ {y} : f2[x] = f[x]
    PROVE  SumFunctionOnSet(f2, S) = SumFunctionOnSet(f, S) - f[y] + f2[y]
<1>1. IsFiniteSet(S \ {y})
  BY FS_Subset
<1>2. SumFunctionOnSet(f2, S \ {y}) = SumFunctionOnSet(f, S \ {y})
  BY <1>1, SumSame
<1>3. SumFunctionOnSet(f, S \ {y}) \in Int
  BY <1>1, SumInt
<1>4. SumFunctionOnSet(f2, S) = f2[y] + SumFunctionOnSet(f2, S \ {y})
  BY SumAny
<1>5. SumFunctionOnSet(f, S) = f[y] + SumFunctionOnSet(f, S \ {y})
  BY SumAny
<1> QED
  BY <1>2, <1>3, <1>4, <1>5

\* Sums of naturals grow with the set.
LEMMA SumMonotone ==
    ASSUME NEW f, NEW S, IsFiniteSet(S), \A x \in S : f[x] \in Nat, NEW R, R \subseteq S
    PROVE  SumFunctionOnSet(f, R) <= SumFunctionOnSet(f, S)
<1> DEFINE Sum(c) == SumFunctionOnSet(f, c)
           Bad == {c \in SUBSET S : R \subseteq c /\ ~ (Sum(R) <= Sum(c))}
<1> SUFFICES ASSUME Bad # {} PROVE FALSE
  OBVIOUS
<1>1. PICK c \in Bad : IsFiniteSet(c) /\ \A w \in c : c \ {w} \notin Bad
  <2>1. \A c \in Bad : IsFiniteSet(c)
    BY FS_Subset
  <2> HIDE DEF Bad
  <2> QED BY <2>1, SmallestSet
<1>2. IsFiniteSet(c) /\ IsFiniteSet(R) /\ c \subseteq S /\ R \subseteq c
  BY <1>1, FS_Subset
<1>3. Sum(R) \in Int /\ Sum(c) \in Int
  BY <1>2, SumInt
<1>4. PICK w \in c : w \notin R
  BY <1>1, <1>2, <1>3
<1>5. Sum(c) = f[w] + Sum(c \ {w})
  BY <1>2, SumAny
<1>6. Sum(R) <= Sum(c \ {w})
  BY <1>1, <1>2, <1>4
<1>7. Sum(c \ {w}) \in Int /\ f[w] \in Nat
  <2>1. IsFiniteSet(c \ {w})
    BY <1>2, FS_Subset
  <2> QED BY <2>1, <1>2, SumInt
<1>8. ~ (Sum(R) <= Sum(c))
  BY <1>1
<1> HIDE DEF Sum
<1> QED
  BY <1>3, <1>5, <1>6, <1>7, <1>8

\* A sum of zeros.
LEMMA SumZero ==
    ASSUME NEW f, NEW S, IsFiniteSet(S), \A x \in S : f[x] = 0
    PROVE  SumFunctionOnSet(f, S) = 0
<1> DEFINE Sum(c) == SumFunctionOnSet(f, c)
           Bad == {c \in SUBSET S : Sum(c) # 0}
<1> SUFFICES ASSUME Bad # {} PROVE FALSE
  OBVIOUS
<1>1. PICK c \in Bad : IsFiniteSet(c) /\ \A w \in c : c \ {w} \notin Bad
  <2>1. \A c \in Bad : IsFiniteSet(c)
    BY FS_Subset
  <2> HIDE DEF Bad
  <2> QED BY <2>1, SmallestSet
<1>2. c \subseteq S /\ c # {}
  BY SumEmpty
<1>3. PICK w \in c : TRUE
  BY <1>2
<1>4. Sum(c) = f[w] + Sum(c \ {w})
  BY <1>1, <1>2, SumAny
<1>5. Sum(c \ {w}) = 0
  BY <1>1, <1>2
<1>6. Sum(c) # 0 /\ f[w] = 0
  BY <1>2
<1> HIDE DEF Sum
<1> QED
  BY <1>4, <1>5, <1>6

\* Sums are additive in the summands.
LEMMA SumPlus ==
    ASSUME NEW f, NEW g, NEW h, NEW S, IsFiniteSet(S),
           \A x \in S : f[x] \in Int /\ g[x] \in Int /\ h[x] = f[x] + g[x]
    PROVE  SumFunctionOnSet(h, S) = SumFunctionOnSet(f, S) + SumFunctionOnSet(g, S)
<1> DEFINE F(c) == SumFunctionOnSet(f, c)
           G(c) == SumFunctionOnSet(g, c)
           H(c) == SumFunctionOnSet(h, c)
           Bad == {c \in SUBSET S : H(c) # F(c) + G(c)}
<1> SUFFICES ASSUME Bad # {} PROVE FALSE
  OBVIOUS
<1>1. PICK c \in Bad : IsFiniteSet(c) /\ \A w \in c : c \ {w} \notin Bad
  <2>1. \A c \in Bad : IsFiniteSet(c)
    BY FS_Subset
  <2> HIDE DEF Bad
  <2> QED BY <2>1, SmallestSet
<1>2. c \subseteq S /\ H(c) # F(c) + G(c)
  OBVIOUS
<1>3. ASSUME c = {} PROVE FALSE
  <2>1. F(c) = 0 /\ G(c) = 0 /\ H(c) = 0
    BY <1>3, SumEmpty
  <2> HIDE DEF F, G, H
  <2> QED BY <2>1, <1>2
<1>4. PICK w \in c : TRUE
  BY <1>3
<1>5. \A x \in c : f[x] \in Int /\ g[x] \in Int /\ h[x] \in Int
  BY <1>2
<1>6. F(c) = f[w] + F(c \ {w}) /\ G(c) = g[w] + G(c \ {w}) /\ H(c) = h[w] + H(c \ {w})
  BY <1>1, <1>5, SumAny
<1>7. H(c \ {w}) = F(c \ {w}) + G(c \ {w})
  BY <1>1, <1>2
<1>8. F(c \ {w}) \in Int /\ G(c \ {w}) \in Int
  <2>1. IsFiniteSet(c \ {w})
    BY <1>1, FS_Subset
  <2> QED BY <2>1, <1>5, SumInt
<1>9. h[w] = f[w] + g[w]
  BY <1>2
<1> HIDE DEF F, G, H
<1> QED
  BY <1>2, <1>5, <1>6, <1>7, <1>8, <1>9

\* A sum that is positive has a positive summand.
LEMMA SumPositive ==
    ASSUME NEW f, NEW S, IsFiniteSet(S), \A x \in S : f[x] \in Int,
           SumFunctionOnSet(f, S) > 0
    PROVE  \E x \in S : f[x] > 0
<1> DEFINE Sum(c) == SumFunctionOnSet(f, c)
           Bad == {c \in SUBSET S : Sum(c) > 0 /\ \A x \in c : ~ (f[x] > 0)}
<1> SUFFICES ASSUME Bad # {} PROVE FALSE
  OBVIOUS
<1>1. PICK c \in Bad : IsFiniteSet(c) /\ \A w \in c : c \ {w} \notin Bad
  <2>1. \A c \in Bad : IsFiniteSet(c)
    BY FS_Subset
  <2> HIDE DEF Bad
  <2> QED BY <2>1, SmallestSet
<1>2. c \subseteq S /\ Sum(c) > 0 /\ \A x \in c : f[x] \in Int /\ ~ (f[x] > 0)
  OBVIOUS
<1>3. c # {}
  <2>1. Sum({}) = 0
    BY SumEmpty
  <2> HIDE DEF Sum
  <2> QED BY <2>1, <1>2
<1>4. PICK w \in c : TRUE
  BY <1>3
<1>5. Sum(c) = f[w] + Sum(c \ {w})
  BY <1>1, <1>2, SumAny
<1>6. ~ (Sum(c \ {w}) > 0)
  BY <1>1, <1>2
<1>7. Sum(c \ {w}) \in Int
  <2>1. IsFiniteSet(c \ {w})
    BY <1>1, FS_Subset
  <2> QED BY <2>1, <1>2, SumInt
<1> HIDE DEF Sum
<1> QED
  BY <1>2, <1>5, <1>6, <1>7

\* A finite set that is not empty has an element with the largest value.
LEMMA ArgMax ==
    ASSUME NEW f, NEW S, IsFiniteSet(S), S # {}, \A x \in S : f[x] \in Int
    PROVE  \E x \in S : \A y \in S : f[y] <= f[x]
<1> DEFINE Bad == {c \in SUBSET S : c # {} /\ ~ \E x \in c : \A y \in c : f[y] <= f[x]}
<1> SUFFICES ASSUME Bad # {} PROVE FALSE
  OBVIOUS
<1>1. PICK c \in Bad : IsFiniteSet(c) /\ \A w \in c : c \ {w} \notin Bad
  <2>1. \A c \in Bad : IsFiniteSet(c)
    BY FS_Subset
  <2> HIDE DEF Bad
  <2> QED BY <2>1, SmallestSet
<1>2. c \subseteq S /\ c # {} /\ \A x \in c : f[x] \in Int
  OBVIOUS
<1>3. PICK w \in c : TRUE
  BY <1>2
<1>4. c \ {w} = {} \/ \E x \in c \ {w} : \A y \in c \ {w} : f[y] <= f[x]
  BY <1>1, <1>2
<1>5. \E x \in c : \A y \in c : f[y] <= f[x]
  <2>1. CASE c \ {w} = {}
    BY <2>1, <1>2, <1>3
  <2>2. CASE c \ {w} # {}
    <3>1. PICK x \in c \ {w} : \A y \in c \ {w} : f[y] <= f[x]
      BY <2>2, <1>4
    <3>2. CASE f[w] <= f[x]
      BY <3>1, <3>2, <1>2, <1>3
    <3>3. CASE f[x] <= f[w]
      <4>1. \A y \in c : f[y] <= f[w]
        BY <3>1, <3>3, <1>2, <1>3
      <4> QED BY <4>1, <1>3
    <3> QED BY <3>1, <3>2, <3>3, <1>2, <1>3
  <2> QED BY <2>1, <2>2
<1> QED
  BY <1>5

\* The sum over one element.
LEMMA SumSingleton ==
    ASSUME NEW f, NEW y, f[y] \in Int
    PROVE  SumFunctionOnSet(f, {y}) = f[y]
<1>1. IsFiniteSet({y}) /\ {y} \ {y} = {}
  BY FS_Singleton
<1>2. SumFunctionOnSet(f, {y}) = f[y] + SumFunctionOnSet(f, {y} \ {y})
  BY <1>1, SumAny
<1>3. SumFunctionOnSet(f, {y} \ {y}) = 0
  BY <1>1, SumEmpty
<1> QED
  BY <1>2, <1>3

\* A sum of n summands is at least n times a lower bound of them.
LEMMA SumLower ==
    ASSUME NEW f, NEW S, IsFiniteSet(S), NEW k \in Int, \A x \in S : f[x] \in Int /\ k <= f[x]
    PROVE  Cardinality(S) * k <= SumFunctionOnSet(f, S)
<1> DEFINE Sum(c) == SumFunctionOnSet(f, c)
           Bad == {c \in SUBSET S : ~ (Cardinality(c) * k <= Sum(c))}
<1> SUFFICES ASSUME Bad # {} PROVE FALSE
  OBVIOUS
<1>1. PICK c \in Bad : IsFiniteSet(c) /\ \A w \in c : c \ {w} \notin Bad
  <2>1. \A c \in Bad : IsFiniteSet(c)
    BY FS_Subset
  <2> HIDE DEF Bad
  <2> QED BY <2>1, SmallestSet
<1>2. c \subseteq S /\ \A x \in c : f[x] \in Int /\ k <= f[x]
  OBVIOUS
<1>3. ASSUME c = {} PROVE FALSE
  <2>1. Sum(c) = 0 /\ Cardinality(c) = 0
    BY <1>3, SumEmpty, FS_EmptySet
  <2>2. ~ (Cardinality(c) * k <= Sum(c))
    OBVIOUS
  <2> HIDE DEF Sum
  <2> QED BY <2>1, <2>2
<1>4. PICK w \in c : TRUE
  BY <1>3
<1>5. Sum(c) = f[w] + Sum(c \ {w}) /\ Sum(c \ {w}) \in Int
  <2>1. IsFiniteSet(c \ {w})
    BY <1>1, FS_Subset
  <2> QED BY <2>1, <1>1, <1>2, SumAny, SumInt
<1>6. Cardinality(c \ {w}) * k <= Sum(c \ {w})
  BY <1>1, <1>2
<1>7. Cardinality(c) = Cardinality(c \ {w}) + 1 /\ Cardinality(c \ {w}) \in Nat
  BY <1>1, SmallerSet
<1>8. ~ (Cardinality(c) * k <= Sum(c))
  OBVIOUS
<1>9. \A n \in Nat : (n + 1) * k = n * k + k
  OBVIOUS
<1>10. Cardinality(c) * k = Cardinality(c \ {w}) * k + k
  BY <1>7, <1>9
<1>11. Cardinality(c \ {w}) * k \in Int /\ f[w] \in Int /\ k <= f[w]
  BY <1>2, <1>7
<1> HIDE DEF Sum
<1> QED
  BY <1>5, <1>6, <1>8, <1>10, <1>11

=============================================================================
