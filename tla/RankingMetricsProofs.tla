------------------------ MODULE RankingMetricsProofs ------------------------
(***************************************************************************)
(* The lemmas on ranked lists and their metrics that the proofs about the  *)
(* searches and the analyses rest on: a sum's recursion has a solution,    *)
(* which is a measure of the subsets; sums compare as their terms do; a    *)
(* finite set has a first member in an order that is total on it, and is   *)
(* listed in that order with every member once; no list has more gain than *)
(* the best order of what was judged, so that every metric is a fraction.  *)
(***************************************************************************)
EXTENDS RankingMetrics, FiniteSetTheorems, WellFoundedInduction, TLAPS

(* Every set of numbers that is not empty has a least one.                  *)
LEMMA LeastNumber ==
    ASSUME NEW T, T \subseteq Nat, T # {}
    PROVE  \E n \in T : \A m \in T : n <= m
<1>1. PICK R : R = OpToRel(<, Nat) /\ IsWellFoundedOn(R, Nat)
  BY NatLessThanWellFounded
<1>2. R = {ss \in Nat \X Nat : ss[1] < ss[2]}
  BY <1>1 DEF OpToRel
<1>3. PICK n \in T : \A m \in T : ~ (<<m, n>> \in R)
  BY <1>1, WFMin
<1>4. \A m \in T : ~ (m < n)
  BY <1>2, <1>3
<1> QED
  BY <1>4

(* Sums.                                                                    *)

(* What the recursion of a sum over the subsets of S says of a function.    *)
Sums(h, f, S) ==
    h = [s \in SUBSET S |->
            IF s = {} THEN 0
            ELSE LET x == CHOOSE x \in s : TRUE IN f[x] + h[s \ {x}]]

LEMMA SumIsRecursive ==
    ASSUME NEW f, NEW S
    PROVE  SumFunctionOnSet(f, S) = (CHOOSE h : Sums(h, f, S))[S]
BY DEF SumFunctionOnSet, FoldFunctionOnSet, MapThenFoldSet, Sums

SumsUpTo(h, f, S, n) ==
    h = [s \in {t \in SUBSET S : Cardinality(t) <= n} |->
            IF s = {} THEN 0
            ELSE LET x == CHOOSE x \in s : TRUE IN f[x] + h[s \ {x}]]

LEMMA SmallerSets ==
    ASSUME NEW S, IsFiniteSet(S), NEW s \in SUBSET S, s # {}
    PROVE  LET x == CHOOSE x \in s : TRUE
           IN /\ x \in s /\ s \ {x} \in SUBSET S
              /\ Cardinality(s) \in Nat /\ Cardinality(s \ {x}) \in Nat
              /\ Cardinality(s \ {x}) = Cardinality(s) - 1
<1> DEFINE x == CHOOSE x \in s : TRUE
<1>1. x \in s
  OBVIOUS
<1>2. IsFiniteSet(s)
  BY FS_Subset
<1> HIDE DEF x
<1>3. IsFiniteSet(s \ {x}) /\ Cardinality(s \ {x}) = Cardinality(s) - 1
  BY <1>1, <1>2, FS_RemoveElement
<1>4. Cardinality(s) \in Nat /\ Cardinality(s \ {x}) \in Nat
  BY <1>2, <1>3, FS_CardinalityType
<1>5. s \ {x} \in SUBSET S
  OBVIOUS
<1> QED
  BY <1>1, <1>3, <1>4, <1>5 DEF x

LEMMA SumsGrow ==
    ASSUME NEW f, NEW S, IsFiniteSet(S), NEW n \in Nat, NEW h, SumsUpTo(h, f, S, n)
    PROVE  \E g : SumsUpTo(g, f, S, n + 1)
<1> DEFINE Small(k) == {t \in SUBSET S : Cardinality(t) <= k}
           g == [s \in Small(n + 1) |->
                    IF s = {} THEN 0
                    ELSE LET x == CHOOSE x \in s : TRUE IN f[x] + h[s \ {x}]]
           step(k, s) == IF s = {} THEN 0
                         ELSE LET x == CHOOSE x \in s : TRUE IN f[x] + k[s \ {x}]
<1>1. \A s \in Small(n) : h[s] = step(h, s)
  BY DEF SumsUpTo
<1>2. \A s \in Small(n) : s \in Small(n + 1)
  <2> SUFFICES ASSUME NEW s \in Small(n) PROVE Cardinality(s) <= n + 1
    OBVIOUS
  <2>1. Cardinality(s) \in Nat
    BY FS_Subset, FS_CardinalityType
  <2> QED
    BY <2>1
<1>3. \A s \in Small(n) : g[s] = h[s]
  BY <1>1, <1>2
<1>4. ASSUME NEW s \in Small(n + 1)
      PROVE  g[s] = step(g, s)
  <2>1. CASE s = {}
    BY <2>1
  <2>2. CASE s # {}
    <3> DEFINE x == CHOOSE x \in s : TRUE
    <3>1. s \ {x} \in Small(n)
      BY <2>2, SmallerSets
    <3>2. g[s \ {x}] = h[s \ {x}]
      BY <1>3, <3>1
    <3> QED
      BY <2>2, <3>2
  <2> QED
    BY <2>1, <2>2
<1> HIDE DEF g
<1>5. g = [s \in Small(n + 1) |-> g[s]]
  BY DEF g
<1>6. [s \in Small(n + 1) |-> g[s]] = [s \in Small(n + 1) |-> step(g, s)]
  BY <1>4
<1>7. SumsUpTo(g, f, S, n + 1)
  BY <1>5, <1>6 DEF SumsUpTo
<1> QED
  BY <1>7

LEMMA SumsExistUpTo ==
    ASSUME NEW f, NEW S, IsFiniteSet(S)
    PROVE  \A n \in Nat : \E h : SumsUpTo(h, f, S, n)
<1> DEFINE T == {n \in Nat : ~ \E h : SumsUpTo(h, f, S, n)}
<1>1. SUFFICES T = {}
  OBVIOUS
<1>2. SUFFICES ASSUME NEW n \in T, \A m \in T : n <= m
               PROVE  FALSE
  BY LeastNumber
<1>3. CASE n = 0
  <2> DEFINE h == [s \in {t \in SUBSET S : Cardinality(t) <= 0} |-> 0]
  <2>1. \A s \in SUBSET S : Cardinality(s) <= 0 => s = {}
    BY FS_Subset, FS_CardinalityType, FS_EmptySet
  <2>2. SumsUpTo(h, f, S, 0)
    BY <2>1 DEF SumsUpTo
  <2> QED
    BY <1>3, <2>2
<1>4. CASE n # 0
  <2>1. n - 1 \in Nat /\ n - 1 < n /\ (n - 1) + 1 = n
    BY <1>4
  <2>2. n - 1 \notin T
    BY <1>2, <2>1
  <2>3. PICK h : SumsUpTo(h, f, S, n - 1)
    BY <2>1, <2>2
  <2>4. \E g : SumsUpTo(g, f, S, (n - 1) + 1)
    BY <2>1, <2>3, SumsGrow
  <2> QED
    BY <2>1, <2>4
<1> QED
  BY <1>3, <1>4

LEMMA SumsExist ==
    ASSUME NEW f, NEW S, IsFiniteSet(S)
    PROVE  \E h : Sums(h, f, S)
<1> DEFINE n == Cardinality(S)
<1>1. n \in Nat
  BY FS_CardinalityType
<1>2. PICK h : SumsUpTo(h, f, S, n)
  BY <1>1, SumsExistUpTo
<1>3. {t \in SUBSET S : Cardinality(t) <= n} = SUBSET S
  BY FS_Subset
<1>4. Sums(h, f, S)
  BY <1>2, <1>3 DEF Sums, SumsUpTo
<1> QED
  BY <1>4

(* A sum of numbers of a kind that is closed under addition is of that kind. *)
LEMMA SumIsNumber ==
    ASSUME NEW f, IsFiniteSet(DOMAIN f), NEW N, N \in {Nat, Int},
           \A x \in DOMAIN f : f[x] \in N
    PROVE  SumFunction(f) \in N
<1> DEFINE S == DOMAIN f
           h == CHOOSE h : Sums(h, f, S)
           T == {n \in Nat : \E s \in SUBSET S : Cardinality(s) = n /\ h[s] \notin N}
<1>1. Sums(h, f, S)
  BY SumsExist
<1>2. SumFunction(f) = h[S]
  BY SumIsRecursive DEF SumFunction
<1> HIDE DEF h
<1>3. \A s \in SUBSET S : h[s] = IF s = {} THEN 0
                               ELSE LET x == CHOOSE x \in s : TRUE IN f[x] + h[s \ {x}]
  BY <1>1 DEF Sums
<1>4. ASSUME NEW n \in T, \A m \in T : n <= m
      PROVE  FALSE
  <2>1. PICK s \in SUBSET S : Cardinality(s) = n /\ h[s] \notin N
    OBVIOUS
  <2>2. s # {}
    BY <1>3, <2>1
  <2> DEFINE x == CHOOSE x \in s : TRUE
  <2>3. /\ x \in s /\ s \ {x} \in SUBSET S
        /\ Cardinality(s \ {x}) \in Nat /\ n \in Nat
        /\ Cardinality(s \ {x}) = n - 1
    BY <2>1, <2>2, SmallerSets
  <2>4. h[s] = f[x] + h[s \ {x}]
    BY <1>3, <2>2
  <2> HIDE DEF x
  <2>5. Cardinality(s \ {x}) \notin T
    <3> HIDE DEF T
    <3>1. ~ (n <= Cardinality(s \ {x}))
      BY <2>3
    <3> QED
      BY <1>4, <3>1
  <2>6. h[s \ {x}] \in N
    BY <2>3, <2>5
  <2>7. f[x] \in N
    BY <2>3
  <2>8. f[x] + h[s \ {x}] \in N
    BY <2>6, <2>7
  <2> QED
    BY <2>1, <2>4, <2>8
<1>5. T = {}
  BY <1>4, LeastNumber
<1>6. h[S] \in N
  <2>1. Cardinality(S) \in Nat /\ Cardinality(S) \notin T
    BY <1>5, FS_CardinalityType
  <2> QED
    BY <2>1
<1> QED
  BY <1>2, <1>6

(* A sum is a measure of the subsets of its domain: whichever member is     *)
(* taken out, it is the member's value and the sum of the others.           *)
Measures(h, f, S) ==
    /\ h \in [SUBSET S -> Int] /\ h[{}] = 0
    /\ \A s \in SUBSET S : \A x \in s : h[s] = f[x] + h[s \ {x}]

LEMMA SumsAreMeasures ==
    ASSUME NEW f, NEW S, IsFiniteSet(S), \A x \in S : f[x] \in Int, NEW h, Sums(h, f, S)
    PROVE  Measures(h, f, S)
<1> DEFINE Good(s) == /\ h[s] \in Int
                      /\ \A x \in s : h[s \ {x}] \in Int /\ h[s] = f[x] + h[s \ {x}]
           T == {n \in Nat : \E s \in SUBSET S : Cardinality(s) = n /\ ~ Good(s)}
<1>1. \A s \in SUBSET S : h[s] = IF s = {} THEN 0
                               ELSE LET x == CHOOSE x \in s : TRUE IN f[x] + h[s \ {x}]
  BY DEF Sums
<1>2. ASSUME NEW n \in T, \A m \in T : n <= m
      PROVE  FALSE
  <2>1. PICK s \in SUBSET S : Cardinality(s) = n /\ ~ Good(s)
    OBVIOUS
  <2>2. s # {}
    <3>1. h[{}] = 0
      BY <1>1
    <3>2. Good({})
      BY <3>1
    <3> HIDE DEF Good
    <3> QED
      BY <2>1, <3>2
  <2> DEFINE y == CHOOSE y \in s : TRUE
  <2>3. y \in s
    BY <2>2
  <2>4. h[s] = f[y] + h[s \ {y}]
    BY <1>1, <2>2
  <2> HIDE DEF y
  <2>5. n \in Nat /\ \A x \in s : /\ s \ {x} \in SUBSET S
                                  /\ Cardinality(s \ {x}) \in Nat
                                  /\ Cardinality(s \ {x}) = n - 1
    <3>1. IsFiniteSet(s)
      BY FS_Subset
    <3>2. ASSUME NEW x \in s
          PROVE  IsFiniteSet(s \ {x}) /\ Cardinality(s \ {x}) = Cardinality(s) - 1
      BY <3>1, FS_RemoveElement
    <3> QED
      BY <2>1, <3>2, FS_CardinalityType
  <2>6. ASSUME NEW x \in s PROVE Good(s \ {x})
    <3>1. Cardinality(s \ {x}) \notin T
      <4> HIDE DEF T
      <4>1. ~ (n <= Cardinality(s \ {x}))
        BY <2>5
      <4> QED
        BY <1>2, <4>1
    <3> HIDE DEF Good
    <3> QED
      BY <2>5, <3>1
  <2>7. \A x \in s : f[x] \in Int
    OBVIOUS
  <2>8. ASSUME NEW x \in s PROVE h[s] = f[x] + h[s \ {x}]
    <3>1. CASE x = y
      BY <2>4, <3>1
    <3>2. CASE x # y
      <4>1. x \in s \ {y} /\ y \in s \ {x} /\ (s \ {y}) \ {x} = (s \ {x}) \ {y}
        BY <2>3, <3>2
      <4>2. \E a \in Int : h[s \ {y}] = f[x] + a /\ h[s \ {x}] = f[y] + a
        <5>1. Good(s \ {x}) /\ Good(s \ {y})
          BY <2>3, <2>6
        <5>2. h[s \ {x}] = f[y] + h[(s \ {x}) \ {y}] /\ h[(s \ {x}) \ {y}] \in Int
          BY <4>1, <5>1
        <5>3. h[s \ {y}] = f[x] + h[(s \ {y}) \ {x}]
          BY <4>1, <5>1
        <5> QED
          BY <4>1, <5>2, <5>3
      <4>3. f[x] \in Int /\ f[y] \in Int
        BY <2>3, <2>7
      <4> QED
        BY <2>4, <4>2, <4>3
    <3> QED
      BY <3>1, <3>2
  <2>9. \A x \in s : h[s \ {x}] \in Int
    BY <2>6
  <2>10. h[s] \in Int
    <3>1. f[y] \in Int /\ h[s \ {y}] \in Int
      BY <2>3, <2>7, <2>9
    <3> QED
      BY <2>4, <3>1
  <2> QED
    BY <2>1, <2>8, <2>9, <2>10
<1>3. \A s \in SUBSET S : Good(s)
  <2> SUFFICES ASSUME NEW s \in SUBSET S PROVE Good(s)
    OBVIOUS
  <2>1. Cardinality(s) \in Nat
    BY FS_Subset, FS_CardinalityType
  <2>2. T = {}
    BY <1>2, LeastNumber
  <2> HIDE DEF Good
  <2> QED
    BY <2>1, <2>2
<1>4. h \in [SUBSET S -> Int]
  <2>1. h = [s \in SUBSET S |-> h[s]]
    BY DEF Sums
  <2> QED
    BY <1>3, <2>1
<1>5. h[{}] = 0
  BY <1>1
<1> QED
  BY <1>3, <1>4, <1>5 DEF Measures

LEMMA SumIsMeasured ==
    ASSUME NEW f, IsFiniteSet(DOMAIN f), \A x \in DOMAIN f : f[x] \in Int
    PROVE  \E h : Measures(h, f, DOMAIN f) /\ SumFunction(f) = h[DOMAIN f]
<1> DEFINE S == DOMAIN f
           h == CHOOSE h : Sums(h, f, S)
<1>1. Sums(h, f, S)
  BY SumsExist
<1>2. SumFunction(f) = h[S]
  BY SumIsRecursive DEF SumFunction
<1> HIDE DEF h
<1>3. Measures(h, f, S)
  BY <1>1, SumsAreMeasures
<1> QED
  BY <1>2, <1>3

(* Of two sums over the same set, the one whose terms are nowhere smaller   *)
(* is not smaller, and equal only when all the terms are.                   *)
LEMMA SumsCompare ==
    ASSUME NEW f, NEW g, IsFiniteSet(DOMAIN f), DOMAIN g = DOMAIN f,
           \A x \in DOMAIN f : f[x] \in Int /\ g[x] \in Int /\ f[x] <= g[x]
    PROVE  /\ SumFunction(f) \in Int /\ SumFunction(g) \in Int
           /\ SumFunction(f) <= SumFunction(g)
           /\ SumFunction(f) = SumFunction(g) => \A x \in DOMAIN f : f[x] = g[x]
<1> DEFINE S == DOMAIN f
<1>1. PICK h : Measures(h, f, S) /\ SumFunction(f) = h[S]
  BY SumIsMeasured
<1>2. PICK k : Measures(k, g, S) /\ SumFunction(g) = k[S]
  BY SumIsMeasured
<1> DEFINE Good(s) == h[s] <= k[s] /\ (h[s] = k[s] => \A x \in s : f[x] = g[x])
           T == {n \in Nat : \E s \in SUBSET S : Cardinality(s) = n /\ ~ Good(s)}
<1>3. /\ h \in [SUBSET S -> Int] /\ h[{}] = 0
      /\ \A s \in SUBSET S : \A x \in s : h[s] = f[x] + h[s \ {x}]
  BY <1>1 DEF Measures
<1>4. /\ k \in [SUBSET S -> Int] /\ k[{}] = 0
      /\ \A s \in SUBSET S : \A x \in s : k[s] = g[x] + k[s \ {x}]
  BY <1>2 DEF Measures
<1>5. ASSUME NEW n \in T, \A m \in T : n <= m
      PROVE  FALSE
  <2>1. PICK s \in SUBSET S : Cardinality(s) = n /\ ~ Good(s)
    OBVIOUS
  <2>2. s # {}
    <3>1. Good({})
      BY <1>3, <1>4
    <3> HIDE DEF Good
    <3> QED
      BY <2>1, <3>1
  <2> DEFINE x == CHOOSE x \in s : TRUE
  <2>3. /\ x \in s /\ s \ {x} \in SUBSET S
        /\ Cardinality(s \ {x}) \in Nat /\ n \in Nat
        /\ Cardinality(s \ {x}) = n - 1
    BY <2>1, <2>2, SmallerSets
  <2> HIDE DEF x
  <2>4. Good(s \ {x})
    <3> HIDE DEF T, Good
    <3>1. ~ (n <= Cardinality(s \ {x}))
      BY <2>3
    <3>2. Cardinality(s \ {x}) \notin T
      BY <1>5, <3>1
    <3> QED
      BY <2>3, <3>2 DEF T
  <2>5. /\ h[s] = f[x] + h[s \ {x}] /\ k[s] = g[x] + k[s \ {x}]
        /\ h[s \ {x}] \in Int /\ k[s \ {x}] \in Int
        /\ f[x] \in Int /\ g[x] \in Int /\ f[x] <= g[x]
    BY <1>3, <1>4, <2>3
  <2>6. h[s] <= k[s]
    BY <2>4, <2>5
  <2>7. h[s] = k[s] => f[x] = g[x] /\ h[s \ {x}] = k[s \ {x}]
    BY <2>4, <2>5
  <2>8. h[s] = k[s] => \A y \in s : f[y] = g[y]
    BY <2>4, <2>7
  <2> QED
    BY <2>1, <2>6, <2>8
<1>6. Good(S)
  <2>1. Cardinality(S) \in Nat
    BY FS_CardinalityType
  <2>2. T = {}
    BY <1>5, LeastNumber
  <2> HIDE DEF Good
  <2> QED
    BY <2>1, <2>2
<1>7. h[S] \in Int /\ k[S] \in Int
  BY <1>3, <1>4
<1> QED
  BY <1>1, <1>2, <1>6, <1>7

LEMMA SumOfConstant ==
    ASSUME NEW S, IsFiniteSet(S), NEW c \in Int
    PROVE  SumFunction([x \in S |-> c]) = Cardinality(S) * c
<1> DEFINE f == [x \in S |-> c]
<1>1. PICK h : Measures(h, f, S) /\ SumFunction(f) = h[S]
  <2>1. IsFiniteSet(DOMAIN f) /\ \A x \in DOMAIN f : f[x] \in Int
    OBVIOUS
  <2>2. DOMAIN f = S
    OBVIOUS
  <2> HIDE DEF f
  <2> QED
    BY <2>1, <2>2, SumIsMeasured
<1> DEFINE T == {n \in Nat : \E s \in SUBSET S : Cardinality(s) = n /\ h[s] # n * c}
<1>2. /\ h \in [SUBSET S -> Int] /\ h[{}] = 0
      /\ \A s \in SUBSET S : \A x \in s : h[s] = c + h[s \ {x}]
  BY <1>1 DEF Measures
<1>3. ASSUME NEW n \in T, \A m \in T : n <= m
      PROVE  FALSE
  <2>1. PICK s \in SUBSET S : Cardinality(s) = n /\ h[s] # n * c
    OBVIOUS
  <2>2. s # {}
    <3>1. Cardinality({}) = 0 /\ 0 * c = 0
      BY FS_EmptySet
    <3> QED
      BY <1>2, <2>1, <3>1
  <2> DEFINE x == CHOOSE x \in s : TRUE
  <2>3. /\ x \in s /\ s \ {x} \in SUBSET S
        /\ Cardinality(s \ {x}) \in Nat /\ n \in Nat
        /\ Cardinality(s \ {x}) = n - 1
    BY <2>1, <2>2, SmallerSets
  <2> HIDE DEF x
  <2>4. h[s \ {x}] = (n - 1) * c
    <3> HIDE DEF T
    <3>1. ~ (n <= Cardinality(s \ {x}))
      BY <2>3
    <3>2. Cardinality(s \ {x}) \notin T
      BY <1>3, <3>1
    <3> QED
      BY <2>3, <3>2 DEF T
  <2>5. h[s] = c + (n - 1) * c
    BY <1>2, <2>3, <2>4
  <2>6. c + (n - 1) * c = n * c
    BY <2>3
  <2> QED
    BY <2>1, <2>5, <2>6
<1>4. Cardinality(S) \in Nat /\ Cardinality(S) \notin T
  BY <1>3, LeastNumber, FS_CardinalityType
<1> QED
  BY <1>1, <1>4

LEMMA SumIsBounded ==
    ASSUME NEW f, IsFiniteSet(DOMAIN f), NEW a \in Int, NEW b \in Int,
           \A x \in DOMAIN f : f[x] \in a .. b
    PROVE  /\ SumFunction(f) \in Int /\ Cardinality(DOMAIN f) \in Nat
           /\ Cardinality(DOMAIN f) * a <= SumFunction(f)
           /\ SumFunction(f) <= Cardinality(DOMAIN f) * b
<1> DEFINE S    == DOMAIN f
           low  == [x \in S |-> a]
           high == [x \in S |-> b]
<1>1. /\ DOMAIN low = S /\ DOMAIN high = S
      /\ \A x \in S : f[x] \in Int /\ low[x] \in Int /\ high[x] \in Int
                      /\ low[x] <= f[x] /\ f[x] <= high[x]
  OBVIOUS
<1>2. SumFunction(low) = Cardinality(S) * a /\ SumFunction(high) = Cardinality(S) * b
  BY SumOfConstant
<1> HIDE DEF low, high
<1>3. SumFunction(low) <= SumFunction(f)
  BY <1>1, SumsCompare
<1>4. SumFunction(f) <= SumFunction(high) /\ SumFunction(f) \in Int
  BY <1>1, SumsCompare
<1> QED
  BY <1>2, <1>3, <1>4, FS_CardinalityType

(* The members of some sets, each marked by the set it is of.               *)
Pairs(f, s) == UNION {{<<x, k>> : k \in f[x]} : x \in s}

LEMMA PairsOfOne ==
    ASSUME NEW f, NEW x, IsFiniteSet(f[x])
    PROVE  LET P == {<<x, k>> : k \in f[x]}
           IN IsFiniteSet(P) /\ Cardinality(P) = Cardinality(f[x])
<1> DEFINE K == f[x]
           P == {<<x, k>> : k \in K}
           g == [k \in K |-> <<x, k>>]
<1>1. /\ g \in [K -> P] /\ \A p \in P : \E k \in K : g[k] = p
      /\ \A i, j \in K : g[i] = g[j] => i = j
  OBVIOUS
<1> HIDE DEF K, P, g
<1>2. g \in Surjection(K, P) /\ g \in Injection(K, P)
  BY <1>1 DEF Surjection, Injection, IsInjective
<1>3. IsFiniteSet(P) /\ Cardinality(P) = Cardinality(K)
  BY <1>2, FS_Surjection DEF K
<1> QED
  BY <1>3 DEF P, K

LEMMA PairsAreCounted ==
    ASSUME NEW f, IsFiniteSet(DOMAIN f), \A x \in DOMAIN f : IsFiniteSet(f[x])
    PROVE  Cardinality(Pairs(f, DOMAIN f))
              = SumFunction([x \in DOMAIN f |-> Cardinality(f[x])])
<1> DEFINE S == DOMAIN f
           sizes == [x \in S |-> Cardinality(f[x])]
<1>1. \A x \in S : sizes[x] \in Int /\ sizes[x] = Cardinality(f[x])
  BY FS_CardinalityType
<1>2. DOMAIN sizes = S
  OBVIOUS
<1> HIDE DEF sizes
<1>3. PICK h : Measures(h, sizes, S) /\ SumFunction(sizes) = h[S]
  BY <1>1, <1>2, SumIsMeasured
<1>4. /\ h \in [SUBSET S -> Int] /\ h[{}] = 0
      /\ \A s \in SUBSET S : \A x \in s : h[s] = sizes[x] + h[s \ {x}]
  BY <1>3 DEF Measures
<1> DEFINE Good(s) == IsFiniteSet(Pairs(f, s)) /\ Cardinality(Pairs(f, s)) = h[s]
           T == {n \in Nat : \E s \in SUBSET S : Cardinality(s) = n /\ ~ Good(s)}
<1>5. ASSUME NEW n \in T, \A m \in T : n <= m
      PROVE  FALSE
  <2>1. PICK s \in SUBSET S : Cardinality(s) = n /\ ~ Good(s)
    OBVIOUS
  <2>2. s # {}
    <3>1. Pairs(f, {}) = {}
      BY DEF Pairs
    <3>2. Good({})
      BY <1>4, <3>1, FS_EmptySet
    <3> HIDE DEF Good
    <3> QED
      BY <2>1, <3>2
  <2> DEFINE x == CHOOSE x \in s : TRUE
             rest == s \ {x}
  <2>3. /\ x \in s /\ rest \in SUBSET S
        /\ Cardinality(rest) \in Nat /\ n \in Nat
        /\ Cardinality(rest) = n - 1
    BY <2>1, <2>2, SmallerSets
  <2> HIDE DEF x
  <2>4. Good(rest)
    <3> HIDE DEF T, Good, rest
    <3>1. ~ (n <= Cardinality(rest))
      BY <2>3
    <3>2. Cardinality(rest) \notin T
      BY <1>5, <3>1
    <3> QED
      BY <2>3, <3>2 DEF T
  <2> DEFINE P == {<<x, k>> : k \in f[x]}
             Q == Pairs(f, rest)
  <2>5. IsFiniteSet(P) /\ Cardinality(P) = sizes[x]
    <3>1. IsFiniteSet(f[x]) /\ sizes[x] = Cardinality(f[x])
      BY <1>1, <2>1, <2>3
    <3> QED
      BY <3>1, PairsOfOne
  <2>6. Pairs(f, s) = Q \cup P
    BY <2>3 DEF Pairs
  <2>7. Q \cap P = {}
    BY DEF Pairs
  <2>8. IsFiniteSet(Q) /\ Cardinality(Q) = h[rest]
    BY <2>4
  <2> HIDE DEF P, Q, rest
  <2>9. Cardinality(Q \cup P) = Cardinality(Q) + Cardinality(P) - Cardinality(Q \cap P)
        /\ IsFiniteSet(Q \cup P)
    BY <2>5, <2>8, FS_Union
  <2>10. Cardinality(Q \cap P) = 0 /\ Cardinality(Q) \in Nat /\ Cardinality(P) \in Nat
    BY <2>5, <2>7, <2>8, FS_EmptySet, FS_CardinalityType
  <2>11. h[s] = sizes[x] + h[rest]
    BY <1>4, <2>1, <2>3 DEF rest
  <2>12. IsFiniteSet(Pairs(f, s)) /\ Cardinality(Pairs(f, s)) = h[s]
    BY <2>5, <2>6, <2>8, <2>9, <2>10, <2>11
  <2> QED
    BY <2>1, <2>12
<1>6. Good(S)
  <2>1. Cardinality(S) \in Nat /\ Cardinality(S) \notin T
    BY <1>5, LeastNumber, FS_CardinalityType
  <2> HIDE DEF Good, S
  <2> QED
    BY <2>1
<1> QED
  BY <1>3, <1>6 DEF sizes

(* Of the subsets of one size, one that holds the largest values has the    *)
(* largest sum.                                                             *)
LEMMA LargestSum ==
    ASSUME NEW S, IsFiniteSet(S), NEW f, \A x \in S : f[x] \in Int,
           NEW h, Measures(h, f, S), NEW Y \in SUBSET S,
           \A y \in Y : \A z \in S \ Y : f[z] <= f[y],
           NEW X \in SUBSET S, Cardinality(X) = Cardinality(Y)
    PROVE  h[X] <= h[Y]
<1> DEFINE Smaller(n) == \E Z \in SUBSET S : /\ Cardinality(Z) = Cardinality(Y)
                                             /\ Cardinality(Z \ Y) = n /\ ~ (h[Z] <= h[Y])
           T == {n \in Nat : Smaller(n)}
<1>1. /\ h \in [SUBSET S -> Int]
      /\ \A s \in SUBSET S : \A x \in s : h[s] = f[x] + h[s \ {x}]
  BY DEF Measures
<1>2. ASSUME NEW n \in T, \A m \in T : n <= m
      PROVE  FALSE
  <2>1. PICK Z \in SUBSET S : /\ Cardinality(Z) = Cardinality(Y)
                              /\ Cardinality(Z \ Y) = n /\ ~ (h[Z] <= h[Y])
    OBVIOUS
  <2>2. IsFiniteSet(Z) /\ IsFiniteSet(Y) /\ IsFiniteSet(Z \ Y)
    <3>1. Z \ Y \in SUBSET S
      OBVIOUS
    <3> QED
      BY <3>1, FS_Subset
  <2>3. h[Z] \in Int /\ h[Y] \in Int /\ Z # Y
    BY <1>1, <2>1
  <2>4. PICK z \in Z : z \notin Y
    <3>1. ~ (Z \subseteq Y)
      BY <2>1, <2>2, <2>3, FS_Subset
    <3> QED
      BY <3>1
  <2>5. PICK y \in Y : y \notin Z
    <3>1. ~ (Y \subseteq Z)
      BY <2>1, <2>2, <2>3, FS_Subset
    <3> QED
      BY <3>1
  <2> DEFINE W == Z \ {z}
             V == W \cup {y}
  <2>6. W \in SUBSET S /\ V \in SUBSET S /\ V \ {y} = W /\ y \in V /\ z \in Z
        /\ V \ Y = (Z \ Y) \ {z} /\ z \in Z \ Y /\ y \notin W
    BY <2>4, <2>5
  <2>7. /\ IsFiniteSet(W) /\ Cardinality(W) = Cardinality(Z) - 1
        /\ Cardinality((Z \ Y) \ {z}) = Cardinality(Z \ Y) - 1
    BY <2>2, <2>6, FS_RemoveElement
  <2>8. h[Z] = f[z] + h[W]
    BY <1>1, <2>6
  <2> HIDE DEF W
  <2>9. Cardinality(V) = Cardinality(W) + 1
    BY <2>6, <2>7, FS_AddElement
  <2> HIDE DEF V
  <2>10. h[V] = f[y] + h[W]
    BY <1>1, <2>6
  <2>11. Cardinality(Z) \in Nat /\ Cardinality(Z \ Y) \in Nat /\ Cardinality(V \ Y) \in Nat
    <3>1. IsFiniteSet(V \ Y)
      BY <2>2, <2>6, FS_RemoveElement
    <3> QED
      BY <2>2, <3>1, FS_CardinalityType
  <2>12. Cardinality(V) = Cardinality(Y)
    BY <2>1, <2>7, <2>9, <2>11
  <2>13. ~ (h[V] <= h[Y])
    <3>1. f[z] \in Int /\ f[y] \in Int /\ f[z] <= f[y]
      BY <2>4, <2>5
    <3>2. h[V] \in Int /\ h[W] \in Int
      BY <1>1, <2>6
    <3> QED
      BY <2>1, <2>3, <2>8, <2>10, <3>1, <3>2
  <2>14. Cardinality(V \ Y) \in T
    BY <2>6, <2>11, <2>12, <2>13
  <2>15. Cardinality(V \ Y) = n - 1 /\ n \in Int
    <3>1. Cardinality(V \ Y) = Cardinality((Z \ Y) \ {z})
      BY <2>6
    <3>2. n \in Int
      OBVIOUS
    <3> QED
      BY <2>1, <2>7, <2>10, <3>1, <3>2
  <2> HIDE DEF T
  <2>16. n <= Cardinality(V \ Y)
    BY <1>2, <2>14
  <2> QED
    BY <2>15, <2>16
<1>3. T = {}
  <2> HIDE DEF Smaller
  <2> QED
    BY <1>2, LeastNumber
<1>4. Cardinality(X \ Y) \in Nat
  <2>1. X \ Y \in SUBSET S
    OBVIOUS
  <2> QED
    BY <2>1, FS_Subset, FS_CardinalityType
<1> QED
  BY <1>3, <1>4

(* The running sum of the terms of a list.                                  *)
Accumulates(s, t, n) ==
    /\ s \in [0 .. n -> Int] /\ s[0] = 0
    /\ \A m \in 1 .. n : s[m] = s[m - 1] + t[m]

LEMMA SumsAccumulate ==
    ASSUME NEW n \in Nat, NEW t \in [1 .. n -> Int]
    PROVE  \E s : Accumulates(s, t, n) /\ SumFunction(t) = s[n]
<1>1. DOMAIN t = 1 .. n /\ IsFiniteSet(1 .. n) /\ \A r \in 1 .. n : t[r] \in Int
  BY FS_Interval
<1>2. PICK h : Measures(h, t, 1 .. n) /\ SumFunction(t) = h[1 .. n]
  BY <1>1, SumIsMeasured
<1>3. /\ h \in [SUBSET (1 .. n) -> Int] /\ h[{}] = 0
      /\ \A s \in SUBSET (1 .. n) : \A x \in s : h[s] = t[x] + h[s \ {x}]
  BY <1>2 DEF Measures
<1> DEFINE s == [m \in 0 .. n |-> h[1 .. m]]
<1>4. \A m \in 0 .. n : 1 .. m \in SUBSET (1 .. n) /\ h[1 .. m] \in Int
  BY <1>3
<1>5. s[0] = 0
  <2>1. 1 .. 0 = {}
    OBVIOUS
  <2> QED
    BY <1>3, <2>1
<1>6. ASSUME NEW m \in 1 .. n PROVE s[m] = s[m - 1] + t[m]
  <2>1. m \in 1 .. m /\ m \in 0 .. n /\ m - 1 \in 0 .. n /\ (1 .. m) \ {m} = 1 .. (m - 1)
    OBVIOUS
  <2>2. h[1 .. m] = t[m] + h[(1 .. m) \ {m}]
    BY <1>3, <1>4, <2>1
  <2>3. h[1 .. m] = h[1 .. (m - 1)] + t[m]
    <3>1. h[1 .. m] = t[m] + h[1 .. (m - 1)]
      BY <2>1, <2>2
    <3>2. t[m] \in Int /\ h[1 .. (m - 1)] \in Int
      BY <1>1, <1>4, <2>1
    <3> QED
      BY <3>1, <3>2
  <2> QED
    BY <2>1, <2>3
<1>7. s \in [0 .. n -> Int]
  BY <1>4
<1>8. SumFunction(t) = s[n]
  BY <1>2
<1> HIDE DEF s
<1> QED
  BY <1>5, <1>6, <1>7, <1>8 DEF Accumulates

(* Taken over different members of a set, it is a measure of those taken.   *)
Distinct(list, n) == \A i, j \in 1 .. n : i # j => list[i] # list[j]
Taken(list, m) == {list[r] : r \in 1 .. m}

LEMMA TakenAreCounted ==
    ASSUME NEW n \in Nat, NEW list, Distinct(list, n), NEW m \in 0 .. n
    PROVE  IsFiniteSet(Taken(list, m)) /\ Cardinality(Taken(list, m)) = m
<1> DEFINE g == [r \in 1 .. m |-> list[r]]
           T == Taken(list, m)
<1>1. \A r \in 1 .. m : r \in 1 .. n
  OBVIOUS
<1>2. \A r \in 1 .. m : list[r] \in T
  BY DEF Taken
<1>3. \A x \in T : \E r \in 1 .. m : list[r] = x
  BY DEF Taken
<1>4. IsFiniteSet(1 .. m) /\ Cardinality(1 .. m) = m
  BY FS_Interval
<1> HIDE DEF T
<1>5. g \in [1 .. m -> T] /\ \A x \in T : \E r \in 1 .. m : g[r] = x
  BY <1>2, <1>3
<1>6. \A i, j \in 1 .. m : g[i] = g[j] => i = j
  BY <1>1 DEF Distinct
<1> HIDE DEF g
<1>7. g \in Surjection(1 .. m, T) /\ g \in Injection(1 .. m, T)
  BY <1>5, <1>6 DEF Surjection, Injection, IsInjective
<1>8. IsFiniteSet(T) /\ Cardinality(T) = Cardinality(1 .. m)
  BY <1>4, <1>7, FS_Surjection
<1> QED
  BY <1>4, <1>8 DEF T

Measured(s, t, n, list, h, f, S) ==
    /\ \A x \in S : f[x] \in Int
    /\ Measures(h, f, S)
    /\ n \in Nat /\ Distinct(list, n) /\ \A r \in 1 .. n : list[r] \in S
    /\ s \in [0 .. n -> Int] /\ \A m \in 0 .. n : s[m] = h[Taken(list, m)]
    /\ \A r \in 1 .. n : t[r] = f[list[r]]

LEMMA TakenAccumulate ==
    ASSUME NEW s, NEW t, NEW n, NEW list, NEW h, NEW f, NEW S,
           Measured(s, t, n, list, h, f, S)
    PROVE  Accumulates(s, t, n)
<1>0. /\ \A x \in S : f[x] \in Int
      /\ Measures(h, f, S)
      /\ n \in Nat /\ Distinct(list, n) /\ \A r \in 1 .. n : list[r] \in S
      /\ s \in [0 .. n -> Int] /\ \A m \in 0 .. n : s[m] = h[Taken(list, m)]
      /\ \A r \in 1 .. n : t[r] = f[list[r]]
  BY DEF Measured
<1>1. /\ h \in [SUBSET S -> Int] /\ h[{}] = 0
      /\ \A z \in SUBSET S : \A x \in z : h[z] = f[x] + h[z \ {x}]
  BY <1>0 DEF Measures
<1>2. \A m \in 0 .. n : Taken(list, m) \in SUBSET S
  BY <1>0 DEF Taken
<1>3. \A m \in 0 .. n : h[Taken(list, m)] \in Int
  BY <1>1, <1>2
<1>5. s[0] = 0
  <2>1. Taken(list, 0) = {}
    BY DEF Taken
  <2>2. s[0] = h[Taken(list, 0)]
    BY <1>0
  <2> QED
    BY <1>1, <2>1, <2>2
<1>6. ASSUME NEW m \in 1 .. n PROVE s[m] = s[m - 1] + t[m]
  <2>1. m \in 0 .. n /\ m - 1 \in 0 .. n /\ list[m] \in S
    BY <1>0
  <2>2. Taken(list, m) \ {list[m]} = Taken(list, m - 1) /\ list[m] \in Taken(list, m)
    <3>1. \A r \in 1 .. m : r \in 1 .. n /\ (list[r] = list[m] <=> r = m)
      BY <1>0 DEF Distinct
    <3>2. \A r \in Int : r \in 1 .. (m - 1) <=> r \in 1 .. m /\ r # m
      BY <1>0, <2>1
    <3>3. m \in 1 .. m
      BY <1>0
    <3> QED
      BY <1>0, <3>1, <3>2, <3>3 DEF Taken
  <2>3. h[Taken(list, m)] = f[list[m]] + h[Taken(list, m - 1)]
    <3> DEFINE z == Taken(list, m)
               x == list[m]
    <3>1. z \in SUBSET S /\ x \in z
      BY <1>2, <2>1, <2>2
    <3> HIDE DEF z, x
    <3>2. h[z] = f[x] + h[z \ {x}]
      BY <1>1, <3>1
    <3> QED
      BY <2>2, <3>2, Zenon DEF z, x
  <2>4. /\ s[m] = h[Taken(list, m)] /\ s[m - 1] = h[Taken(list, m - 1)]
        /\ t[m] = f[list[m]] /\ f[list[m]] \in Int /\ h[Taken(list, m - 1)] \in Int
    BY <1>0, <1>3, <2>1
  <2> QED
    BY <2>3, <2>4
<1> QED
  BY <1>0, <1>5, <1>6 DEF Accumulates

LEMMA SumsGrowOn ==
    ASSUME NEW n \in Nat, NEW t, \A r \in 1 .. n : t[r] \in Nat,
           NEW s, Accumulates(s, t, n), NEW a \in 0 .. n
    PROVE  s[a] <= s[n]
<1> DEFINE T == {m \in Nat : a <= m /\ m <= n /\ ~ (s[a] <= s[m])}
<1>1. /\ \A m \in 0 .. n : s[m] \in Int
      /\ \A m \in 1 .. n : s[m] = s[m - 1] + t[m]
  BY DEF Accumulates
<1>2. ASSUME NEW m \in T, \A k \in T : m <= k
      PROVE  FALSE
  <2>1. m \in 1 .. n /\ a <= m - 1
    <3>1. m # a
      BY <1>1
    <3> QED
      BY <3>1
  <2>2. m - 1 \in 0 .. n /\ m \in 0 .. n /\ m - 1 \in Nat /\ ~ (m <= m - 1)
    BY <2>1
  <2>3. s[a] <= s[m - 1]
    BY <1>2, <2>1, <2>2
  <2>4. s[m] = s[m - 1] + t[m] /\ t[m] \in Nat
    BY <1>1, <2>1
  <2> QED
    BY <1>1, <2>2, <2>3, <2>4
<1>3. T = {}
  BY <1>2, LeastNumber
<1> QED
  BY <1>3

(* Of two lists of numbers whose running sums are never larger in the first *)
(* than in the second, the first weighs no more, whatever the weights, if   *)
(* they decrease.                                                           *)
LEMMA DecreasingWeights ==
    ASSUME NEW n \in Nat, NEW d, \A r \in 1 .. n : d[r] \in Nat,
           \A r \in 2 .. n : d[r] <= d[r - 1],
           NEW a \in [1 .. n -> Int], NEW b \in [1 .. n -> Int],
           NEW p, Accumulates(p, a, n), NEW q, Accumulates(q, b, n),
           \A m \in 0 .. n : p[m] <= q[m],
           NEW v, Accumulates(v, [r \in 1 .. n |-> a[r] * d[r]], n),
           NEW w, Accumulates(w, [r \in 1 .. n |-> b[r] * d[r]], n)
    PROVE  v[n] <= w[n]
<1> DEFINE Good(m) == v[m] <= w[m] /\ (m > 0 => d[m] * (q[m] - p[m]) <= w[m] - v[m])
           T == {m \in Nat : m <= n /\ ~ Good(m)}
<1>1. /\ p[0] = 0 /\ q[0] = 0 /\ v[0] = 0 /\ w[0] = 0
      /\ \A m \in 0 .. n : p[m] \in Int /\ q[m] \in Int /\ v[m] \in Int /\ w[m] \in Int
      /\ \A m \in 1 .. n : /\ p[m] = p[m - 1] + a[m] /\ q[m] = q[m - 1] + b[m]
                           /\ v[m] = v[m - 1] + a[m] * d[m]
                           /\ w[m] = w[m - 1] + b[m] * d[m]
  BY DEF Accumulates
<1>2. ASSUME NEW m \in T, \A k \in T : m <= k
      PROVE  FALSE
  <2>1. m \in 1 .. n /\ m \in 0 .. n /\ m - 1 \in 0 .. n /\ m - 1 \in Nat /\ ~ (m <= m - 1)
    <3>1. m # 0
      BY <1>1
    <3> QED
      BY <3>1
  <2>2. Good(m - 1)
    <3> HIDE DEF Good
    <3> QED
      BY <1>2, <2>1
  <2> DEFINE e == d[m]
             before == q[m - 1] - p[m - 1]
             after  == q[m] - p[m]
             gained == w[m - 1] - v[m - 1]
             step   == b[m] - a[m]
  <2>3. /\ e \in Nat /\ before \in Nat /\ after \in Nat /\ gained \in Int /\ step \in Int
        /\ after = before + step
    <3>1. /\ p[m - 1] \in Int /\ q[m - 1] \in Int /\ p[m] \in Int /\ q[m] \in Int
          /\ v[m - 1] \in Int /\ w[m - 1] \in Int /\ a[m] \in Int /\ b[m] \in Int
          /\ d[m] \in Nat
      BY <1>1, <2>1
    <3>2. p[m - 1] <= q[m - 1] /\ p[m] <= q[m]
      BY <2>1
    <3>3. p[m] = p[m - 1] + a[m] /\ q[m] = q[m - 1] + b[m]
      BY <1>1, <2>1
    <3> HIDE DEF T, Good
    <3>4. e \in Nat /\ gained \in Int /\ step \in Int
      <4>1. \A x, y \in Int : y - x \in Int
        OBVIOUS
      <4> QED
        BY <3>1, <4>1, Zenon
    <3>5. before \in Nat /\ after \in Nat
      <4>1. \A x, y \in Int : x <= y => y - x \in Nat
        OBVIOUS
      <4> QED
        BY <3>1, <3>2, <4>1, Zenon
    <3>6. after = before + step
      BY <2>1, <3>1, <3>3
    <3> QED
      BY <3>4, <3>5, <3>6
  <2>4. w[m] - v[m] = gained + step * e
    <3>1. /\ v[m] = v[m - 1] + a[m] * d[m] /\ w[m] = w[m - 1] + b[m] * d[m]
          /\ a[m] \in Int /\ b[m] \in Int /\ d[m] \in Int
          /\ v[m - 1] \in Int /\ w[m - 1] \in Int /\ v[m] \in Int /\ w[m] \in Int
      BY <1>1, <2>1
    <3> DEFINE x == a[m] * d[m]
               y == b[m] * d[m]
    <3>2. x \in Int /\ y \in Int /\ y - x = step * e
      <4>1. \A i, j, l \in Int : /\ j * l - i * l = (j - i) * l
                              /\ i * l \in Int /\ j * l \in Int
        OBVIOUS
      <4>2. b[m] * d[m] - a[m] * d[m] = (b[m] - a[m]) * d[m] /\ x \in Int /\ y \in Int
        BY <3>1, <4>1, Zenon
      <4> QED
        BY <4>2, Zenon
    <3>3. v[m] = v[m - 1] + x /\ w[m] = w[m - 1] + y
      BY <3>1
    <3> HIDE DEF x, y, step, e
    <3> QED
      BY <3>1, <3>2, <3>3
  <2>5. e * before <= gained
    <3>1. CASE m = 1
      <4>1. m - 1 = 0
        BY <3>1
      <4>2. /\ q[m - 1] = 0 /\ p[m - 1] = 0 /\ w[m - 1] = 0 /\ v[m - 1] = 0
        BY <1>1, <4>1, Zenon
      <4>3. before = 0 /\ gained = 0
        BY <4>2
      <4> QED
        BY <2>3, <4>3
    <3>2. CASE m # 1
      <4> DEFINE c == d[m - 1]
      <4>1. m \in 2 .. n /\ m - 1 \in 1 .. n
        BY <2>1, <3>2
      <4>2. c \in Nat /\ e <= c /\ c * before <= gained
        BY <2>2, <4>1
      <4> HIDE DEF c, e, before, gained, after, step
      <4>3. c * before = e * before + (c - e) * before /\ (c - e) * before >= 0
        BY <2>3, <4>2
      <4> DEFINE x == c * before
                 y == e * before
                 z == (c - e) * before
      <4>4. x \in Int /\ y \in Int /\ z \in Int
        BY <2>3, <4>2
      <4>5. x <= gained /\ x = y + z /\ z >= 0
        BY <4>2, <4>3
      <4> HIDE DEF x, y, z
      <4>6. y <= gained
        BY <2>3, <4>4, <4>5
      <4> QED
        BY <4>6 DEF y
    <3> QED
      BY <3>1, <3>2
  <2>6. e * after <= w[m] - v[m] /\ w[m] - v[m] \in Int /\ 0 <= e * after /\ e * after \in Int
    <3> HIDE DEF e, before, after, gained, step
    <3>1. e * after = e * before + step * e /\ e * after \in Nat /\ e * before \in Int
          /\ step * e \in Int
      BY <2>3
    <3> QED
      BY <2>3, <2>4, <2>5, <3>1
  <2>7. v[m] \in Int /\ w[m] \in Int
    BY <1>1, <2>1
  <2>8. v[m] <= w[m]
    <3> HIDE DEF e, after
    <3> QED
      BY <2>6, <2>7
  <2> QED
    BY <2>6, <2>8
<1>3. T = {}
  <2> HIDE DEF Good
  <2> QED
    BY <1>2, LeastNumber
<1>4. Good(n)
  <2>1. n \notin T /\ n \in Nat /\ n <= n
    BY <1>3
  <2> QED
    BY <2>1
<1> QED
  BY <1>4

LEMMA ImageIsFinite ==
    ASSUME NEW S, IsFiniteSet(S), NEW f
    PROVE  IsFiniteSet({f[x] : x \in S})
<1> DEFINE T == {f[x] : x \in S}
           g == [x \in S |-> f[x]]
<1>1. g \in [S -> T] /\ \A t \in T : \E x \in S : g[x] = t
  OBVIOUS
<1> HIDE DEF T, g
<1>2. g \in Surjection(S, T)
  BY <1>1 DEF Surjection
<1>3. IsFiniteSet(T)
  BY <1>2, FS_Surjection
<1> QED
  BY <1>3 DEF T

(* The order of finite sets.                                                *)

(* A finite set has a least element in any order that is total on it.       *)
Total(S, R) ==
    /\ \A a, b \in S : a # b => <<a, b>> \in R \/ <<b, a>> \in R
    /\ \A a, b, c \in S : <<a, b>> \in R /\ <<b, c>> \in R => <<a, c>> \in R
HasFirst(S, R) == \E a \in S : \A b \in S \ {a} : <<a, b>> \in R

LEMMA FirstExists ==
    ASSUME NEW S, IsFiniteSet(S), S # {}, NEW R, Total(S, R)
    PROVE  HasFirst(S, R)
<1> DEFINE T == {n \in Nat : \E s \in SUBSET S : /\ Cardinality(s) = n /\ s # {}
                                                /\ ~ HasFirst(s, R)}
<1>1. ASSUME NEW n \in T, \A m \in T : n <= m
      PROVE  FALSE
  <2>1. PICK s \in SUBSET S : Cardinality(s) = n /\ s # {} /\ ~ HasFirst(s, R)
    OBVIOUS
  <2> DEFINE x == CHOOSE x \in s : TRUE
  <2>2. /\ x \in s /\ s \ {x} \in SUBSET S
        /\ Cardinality(s \ {x}) \in Nat /\ n \in Nat
        /\ Cardinality(s \ {x}) = n - 1
    BY <2>1, SmallerSets
  <2> HIDE DEF x
  <2>3. Cardinality(s \ {x}) \notin T
    <3> HIDE DEF T
    <3>1. ~ (n <= Cardinality(s \ {x}))
      BY <2>2
    <3> QED
      BY <1>1, <3>1
  <2>4. CASE s \ {x} = {}
    <3>1. \A b \in s : b = x
      BY <2>4
    <3> QED
      BY <2>1, <2>2, <3>1 DEF HasFirst
  <2>5. CASE s \ {x} # {}
    <3>1. PICK a \in s \ {x} : \A b \in (s \ {x}) \ {a} : <<a, b>> \in R
      BY <2>2, <2>3, <2>5 DEF HasFirst
    <3>2. a \in S /\ x \in S /\ a # x
      BY <2>2
    <3>3. CASE <<a, x>> \in R
      BY <2>1, <3>1, <3>3 DEF HasFirst
    <3>4. CASE <<x, a>> \in R
      <4>1. \A b \in s \ {x} : <<x, b>> \in R
        BY <3>1, <3>2, <3>4 DEF Total
      <4> QED
        BY <2>1, <2>2, <4>1 DEF HasFirst
    <3> QED
      BY <3>2, <3>3, <3>4 DEF Total
  <2> QED
    BY <2>4, <2>5
<1>2. T = {}
  BY <1>1, LeastNumber
<1>3. Cardinality(S) \in Nat /\ Cardinality(S) \notin T
  BY <1>2, FS_CardinalityType
<1> QED
  BY <1>3

LEMMA LargestExists ==
    ASSUME NEW S, IsFiniteSet(S), S # {}, S \subseteq Int
    PROVE  Max(S) \in S /\ \A y \in S : Max(S) >= y
<1> DEFINE R == {p \in S \X S : p[1] >= p[2]}
<1>1. \A a, b \in S : <<a, b>> \in R <=> a >= b
  OBVIOUS
<1>2. Total(S, R)
  BY <1>1 DEF Total
<1> HIDE DEF R
<1>3. PICK a \in S : \A b \in S \ {a} : <<a, b>> \in R
  BY <1>2, FirstExists DEF HasFirst
<1>4. ASSUME NEW b \in S PROVE a >= b
  <2>1. CASE b = a
    BY <2>1
  <2>2. CASE b # a
    BY <1>1, <1>3, <2>2
  <2> QED
    BY <2>1, <2>2
<1> QED
  BY <1>4 DEF Max

LEMMA SmallestExists ==
    ASSUME NEW S, IsFiniteSet(S), S # {}, S \subseteq Int
    PROVE  Min(S) \in S /\ \A y \in S : Min(S) <= y
<1> DEFINE R == {p \in S \X S : p[1] <= p[2]}
<1>1. \A a, b \in S : <<a, b>> \in R <=> a <= b
  OBVIOUS
<1>2. Total(S, R)
  BY <1>1 DEF Total
<1> HIDE DEF R
<1>3. PICK a \in S : \A b \in S \ {a} : <<a, b>> \in R
  BY <1>2, FirstExists DEF HasFirst
<1>4. ASSUME NEW b \in S PROVE a <= b
  <2>1. CASE b = a
    BY <2>1
  <2>2. CASE b # a
    BY <1>1, <1>3, <2>2
  <2> QED
    BY <2>1, <2>2
<1> QED
  BY <1>4 DEF Min

(* An order that puts every two members of a set one before the other, and  *)
(* a member of a set at the place that says how many are not after it.      *)
Linear(S, R) ==
    /\ Total(S, R)
    /\ \A a \in S : <<a, a>> \in R
    /\ \A a, b \in S : <<a, b>> \in R /\ <<b, a>> \in R => a = b

LEMMA Placed ==
    ASSUME NEW S, IsFiniteSet(S), NEW R, Linear(S, R)
    PROVE  /\ Cardinality(S) \in Nat
           /\ \A x \in S : Place(S, R, x) \in 1 .. Cardinality(S)
           /\ \A x, y \in S : <<x, y>> \in R /\ x # y => Place(S, R, x) < Place(S, R, y)
<1> DEFINE upto(x) == {y \in S : <<y, x>> \in R}
<1>1. \A x \in S : Place(S, R, x) = Cardinality(upto(x))
  BY DEF Place
<1>2. Cardinality(S) \in Nat
  BY FS_CardinalityType
<1>3. ASSUME NEW x \in S
      PROVE  /\ IsFiniteSet(upto(x)) /\ Cardinality(upto(x)) \in Nat
             /\ Cardinality(upto(x)) <= Cardinality(S) /\ Cardinality(upto(x)) # 0
  <2>1. upto(x) \in SUBSET S
    OBVIOUS
  <2>2. IsFiniteSet(upto(x)) /\ Cardinality(upto(x)) <= Cardinality(S)
    BY <2>1, FS_Subset
  <2>3. x \in upto(x)
    BY DEF Linear
  <2> QED
    BY <2>2, <2>3, FS_CardinalityType, FS_EmptySet
<1>4. ASSUME NEW x \in S, NEW y \in S, <<x, y>> \in R, x # y
      PROVE  Cardinality(upto(x)) < Cardinality(upto(y))
  <2>1. upto(x) \subseteq upto(y)
    BY <1>4 DEF Linear, Total
  <2>2. y \in upto(y) /\ y \notin upto(x)
    BY <1>4 DEF Linear
  <2>3. upto(x) # upto(y)
    BY <2>2
  <2> HIDE DEF upto
  <2>4. /\ Cardinality(upto(x)) <= Cardinality(upto(y))
        /\ Cardinality(upto(x)) # Cardinality(upto(y))
    BY <1>3, <2>1, <2>3, FS_Subset
  <2> QED
    BY <1>3, <2>4
<1> HIDE DEF upto
<1>5. \A x \in S : Place(S, R, x) \in 1 .. Cardinality(S)
  BY <1>1, <1>2, <1>3
<1>6. \A x, y \in S : <<x, y>> \in R /\ x # y => Place(S, R, x) < Place(S, R, y)
  BY <1>1, <1>4
<1> QED
  BY <1>2, <1>5, <1>6

LEMMA PlacesAreTaken ==
    ASSUME NEW S, IsFiniteSet(S), NEW R, Linear(S, R)
    PROVE  \A r \in 1 .. Cardinality(S) : \E x \in S : Place(S, R, x) = r
<1> DEFINE n == Cardinality(S)
           place == [x \in S |-> Place(S, R, x)]
<1>1. n \in Nat /\ place \in [S -> 1 .. n]
  BY Placed
<1>2. ASSUME NEW x \in S, NEW y \in S, place[x] = place[y]
      PROVE  x = y
  <2>1. place[x] \in Int /\ place[y] \in Int
    BY <1>1
  <2>2. ~ (place[x] < place[y]) /\ ~ (place[y] < place[x])
    BY <1>2, <2>1
  <2>3. x # y => <<x, y>> \notin R /\ <<y, x>> \notin R
    BY <2>2, Placed
  <2> QED
    BY <2>3 DEF Linear, Total
<1>3. Cardinality(1 .. n) = n /\ IsFiniteSet(1 .. n)
  BY <1>1, FS_Interval
<1>4. \A r \in 1 .. n : \E x \in S : place[x] = r
  <2> HIDE DEF place, n
  <2>1. place \in Injection(S, 1 .. n)
    BY <1>1, <1>2 DEF Injection, IsInjective
  <2>2. Cardinality(S) = Cardinality(1 .. n)
    BY <1>3 DEF n
  <2>3. place \in Surjection(S, 1 .. n)
    BY <1>3, <2>1, <2>2, FS_Injection
  <2> QED
    BY <2>3 DEF Surjection
<1> QED
  BY <1>4

(* A listed set: every member once, each before those that come after it.   *)
LEMMA ListedInOrder ==
    ASSUME NEW S, IsFiniteSet(S), NEW R, Linear(S, R)
    PROVE  LET n    == Cardinality(S)
               list == Listed(S, R)
           IN /\ n \in Nat /\ list \in [1 .. n -> S]
              /\ \A x \in S : \E r \in 1 .. n : list[r] = x
              /\ \A r, t \in 1 .. n : r < t => <<list[r], list[t]>> \in R /\ list[r] # list[t]
<1> DEFINE n    == Cardinality(S)
           list == Listed(S, R)
<1>1. n \in Nat /\ \A x \in S : Place(S, R, x) \in 1 .. n
  BY Placed
<1>2. \A r \in 1 .. n : list[r] \in S /\ Place(S, R, list[r]) = r
  BY PlacesAreTaken DEF Listed
<1>3. list \in [1 .. n -> S]
  BY <1>2 DEF Listed
<1> HIDE DEF n, list
<1>4. ASSUME NEW r \in 1 .. n, NEW t \in 1 .. n, r < t
      PROVE  <<list[r], list[t]>> \in R /\ list[r] # list[t]
  <2>1. list[r] \in S /\ list[t] \in S /\ list[r] # list[t]
    BY <1>2, <1>4
  <2>2. ~ (Place(S, R, list[t]) < Place(S, R, list[r]))
    BY <1>1, <1>2, <1>4
  <2>3. <<list[t], list[r]>> \notin R
    BY <2>1, <2>2, Placed
  <2> QED
    BY <2>1, <2>3 DEF Linear, Total
<1>5. ASSUME NEW x \in S PROVE \E r \in 1 .. n : list[r] = x
  <2> DEFINE r == Place(S, R, x)
  <2>1. r \in 1 .. n
    BY <1>1
  <2>2. Place(S, R, list[r]) = r /\ list[r] \in S
    BY <1>2, <2>1
  <2> HIDE DEF r
  <2>3. r \in Int /\ ~ (r < r)
    BY <2>1
  <2>4. ~ (Place(S, R, x) < Place(S, R, list[r])) /\ ~ (Place(S, R, list[r]) < Place(S, R, x))
    BY <2>2, <2>3 DEF r
  <2>5. x # list[r] => <<x, list[r]>> \notin R /\ <<list[r], x>> \notin R
    BY <2>2, <2>4, Placed
  <2>6. list[r] = x
    BY <2>2, <2>5 DEF Linear, Total
  <2> QED
    BY <2>1, <2>6
<1> QED
  BY <1>1, <1>3, <1>4, <1>5 DEF n, list

LEMMA ByValueIsLinear ==
    ASSUME NEW values, NEW S \in SUBSET (DOMAIN values), S \subseteq Int,
           \A x \in S : values[x] \in Int
    PROVE  /\ Linear(S, ByValue(values))
           /\ \A x, y \in S : <<x, y>> \in ByValue(values) <=>
                 values[x] > values[y] \/ (values[x] = values[y] /\ x <= y)
<1> DEFINE R == ByValue(values)
<1>1. \A x, y \in S : <<x, y>> \in R <=>
          values[x] > values[y] \/ (values[x] = values[y] /\ x <= y)
  BY DEF ByValue
<1>2. \A x \in S : x \in Int /\ values[x] \in Int
  OBVIOUS
<1> HIDE DEF R
<1>3. Total(S, R)
  <2>1. \A a, b \in S : a # b => <<a, b>> \in R \/ <<b, a>> \in R
    BY <1>1, <1>2
  <2>2. \A a, b, c \in S : <<a, b>> \in R /\ <<b, c>> \in R => <<a, c>> \in R
    BY <1>1, <1>2
  <2> QED
    BY <2>1, <2>2 DEF Total
<1>4. \A a \in S : <<a, a>> \in R
  BY <1>1, <1>2
<1>5. \A a, b \in S : <<a, b>> \in R /\ <<b, a>> \in R => a = b
  BY <1>1, <1>2
<1> QED
  BY <1>1, <1>3, <1>4, <1>5 DEF Linear, R

LEMMA DescendingPermutes ==
    ASSUME NEW n \in Nat, NEW values \in [1 .. n -> Int]
    PROVE  /\ Descending(values) \in [1 .. n -> 1 .. n]
           /\ Distinct(Descending(values), n)
           /\ \A x \in 1 .. n : \E r \in 1 .. n : Descending(values)[r] = x
<1> DEFINE list == Descending(values)
<1>1. DOMAIN values = 1 .. n /\ IsFiniteSet(1 .. n) /\ Cardinality(1 .. n) = n
  BY FS_Interval
<1>2. Linear(1 .. n, ByValue(values))
  BY <1>1, ByValueIsLinear
<1>3. /\ list \in [1 .. n -> 1 .. n]
      /\ \A x \in 1 .. n : \E r \in 1 .. n : list[r] = x
      /\ \A r, t \in 1 .. n : r < t => list[r] # list[t]
  <2> DEFINE sorted == Listed(1 .. n, ByValue(values))
  <2>1. /\ sorted \in [1 .. Cardinality(1 .. n) -> 1 .. n]
        /\ \A x \in 1 .. n : \E r \in 1 .. Cardinality(1 .. n) : sorted[r] = x
        /\ \A r, t \in 1 .. Cardinality(1 .. n) :
              r < t => <<sorted[r], sorted[t]>> \in ByValue(values) /\ sorted[r] # sorted[t]
    BY <1>1, <1>2, ListedInOrder
  <2>2. list = sorted
    BY <1>1 DEF Descending
  <2> HIDE DEF list, sorted
  <2> QED
    BY <1>1, <2>1, <2>2
<1> HIDE DEF list
<1>4. Distinct(list, n)
  <2> SUFFICES ASSUME NEW i \in 1 .. n, NEW j \in 1 .. n, i # j PROVE list[i] # list[j]
    BY DEF Distinct
  <2>1. i < j \/ j < i
    OBVIOUS
  <2> QED
    BY <1>3, <2>1
<1> QED
  BY <1>3, <1>4 DEF list

(* A ranked list is in the order the rankers sort by: the larger score      *)
(* first, and of equal ones the first of the list.                          *)
THEOREM RankingsAreSorted ==
    ASSUME NEW n \in Nat, NEW values \in [1 .. n -> Int],
           NEW r \in 1 .. n, NEW t \in 1 .. n, r < t
    PROVE  LET i == Descending(values)[r]
               j == Descending(values)[t]
           IN values[i] > values[j] \/ (values[i] = values[j] /\ i < j)
<1> DEFINE list == Descending(values)
           R    == ByValue(values)
<1>1. DOMAIN values = 1 .. n /\ IsFiniteSet(1 .. n) /\ Cardinality(1 .. n) = n
  BY FS_Interval
<1>2. /\ Linear(1 .. n, R)
      /\ \A x, y \in 1 .. n : <<x, y>> \in R <=>
            values[x] > values[y] \/ (values[x] = values[y] /\ x <= y)
  BY <1>1, ByValueIsLinear
<1>3. /\ list \in [1 .. n -> 1 .. n]
      /\ \A a, b \in 1 .. Cardinality(1 .. n) :
            a < b => <<list[a], list[b]>> \in R /\ list[a] # list[b]
  <2> HIDE DEF R
  <2> QED
    BY <1>1, <1>2, ListedInOrder DEF Descending, R
<1> HIDE DEF list, R
<1>4. <<list[r], list[t]>> \in R /\ list[r] # list[t] /\ list[r] \in 1 .. n /\ list[t] \in 1 .. n
  BY <1>1, <1>3
<1>5. \/ values[list[r]] > values[list[t]]
      \/ values[list[r]] = values[list[t]] /\ list[r] < list[t]
  BY <1>2, <1>4
<1> QED
  BY <1>5 DEF list

(* What a metric counts is a natural number.                                *)
LEMMA CutTo ==
    ASSUME NEW n \in Nat, NEW X, NEW list \in [1 .. n -> X], NEW k \in Nat
    PROVE  DOMAIN Cut(list, k) = 1 .. (IF k <= n THEN k ELSE n)
<1>1. list \in Seq(X) /\ Len(list) = n
  OBVIOUS
<1> DEFINE m == Min({k, n})
<1>2. IsFiniteSet({k, n})
  <2>1. {k, n} = {k} \cup {n}
    OBVIOUS
  <2>2. IsFiniteSet({k}) /\ IsFiniteSet({n})
    BY FS_Singleton
  <2>3. IsFiniteSet({k} \cup {n})
    BY <2>2, FS_Union
  <2> QED
    BY <2>1, <2>3
<1>3. m \in {k, n} /\ m <= k /\ m <= n
  BY <1>2, SmallestExists
<1>4. Cut(list, k) = SubSeq(list, 1, m)
  BY <1>1 DEF Cut
<1> HIDE DEF m
<1>5. m \in Nat /\ m = IF k <= n THEN k ELSE n
  BY <1>3
<1> QED
  BY <1>1, <1>3, <1>4, <1>5

LEMMA CutRanks ==
    ASSUME NEW n \in Nat, NEW X, NEW list \in [1 .. n -> X], NEW k \in Nat
    PROVE  /\ IsFiniteSet(DOMAIN Cut(list, k))
           /\ DOMAIN Cut(list, k) \subseteq 1 .. n
           /\ DOMAIN Cut(list, k) \subseteq 1 .. k
<1> DEFINE m == IF k <= n THEN k ELSE n
<1>1. DOMAIN Cut(list, k) = 1 .. m
  BY CutTo
<1>2. m \in Nat /\ m <= n /\ m <= k /\ IsFiniteSet(1 .. m)
  BY FS_Interval
<1> QED
  BY <1>1, <1>2

LEMMA DcgIsNumber ==
    ASSUME NEW n \in Nat, NEW gains \in [1 .. n -> Nat], NEW k \in 1 .. Len(Discounts)
    PROVE  Dcg(gains, k) \in Nat
<1> DEFINE D == DOMAIN Cut(gains, k)
           f == [r \in D |-> gains[r] * Discounts[r]]
<1>1. Len(Discounts) \in Nat /\ \A r \in 1 .. Len(Discounts) : Discounts[r] \in Nat
  BY MetricsAssumption
<1>2. IsFiniteSet(D) /\ D \subseteq 1 .. n /\ D \subseteq 1 .. k
  <2>1. k \in Nat
    BY <1>1
  <2> QED
    BY <2>1, CutRanks
<1> HIDE DEF D
<1>3. \A r \in D : f[r] \in Nat
  BY <1>1, <1>2
<1>4. DOMAIN f = D
  OBVIOUS
<1> HIDE DEF f
<1>5. SumFunction(f) \in Nat
  BY <1>2, <1>3, <1>4, SumIsNumber
<1> QED
  BY <1>5 DEF Dcg, f, D

LEMMA QuotientIsNumber ==
    ASSUME NEW a \in Nat, NEW b \in Nat, b # 0
    PROVE  a \div b \in Nat
OBVIOUS

LEMMA NdcgIsNumber ==
    ASSUME NEW n \in Nat, NEW gains \in [1 .. n -> Nat],
           NEW m \in Nat, NEW judged \in [1 .. m -> Nat], NEW k \in 1 .. Len(Discounts)
    PROVE  Ndcg(gains, judged, k) \in Nat
<1> DEFINE sorted == [r \in 1 .. m |-> judged[Descending(judged)[r]]]
<1>1. Descending(judged) \in [1 .. m -> 1 .. m]
  BY DescendingPermutes
<1>2. sorted \in [1 .. m -> Nat]
  BY <1>1
<1>3. Ideal(judged, k) = Dcg(sorted, k)
  BY DEF Ideal
<1> HIDE DEF sorted
<1>4. Ideal(judged, k) \in Nat /\ Dcg(gains, k) \in Nat
  BY <1>2, <1>3, DcgIsNumber
<1>5. Unit * Dcg(gains, k) \in Nat
  BY <1>4, MetricsAssumption
<1> QED
  BY <1>4, <1>5, QuotientIsNumber DEF Ndcg

LEMMA ReciprocalRankIsNumber ==
    ASSUME NEW n \in Nat, NEW relevant \in [1 .. n -> BOOLEAN], NEW k \in Nat
    PROVE  ReciprocalRank(relevant, k) \in Nat
<1> DEFINE first == {r \in DOMAIN Cut(relevant, k) : relevant[r]}
<1>1. IsFiniteSet(DOMAIN Cut(relevant, k)) /\ DOMAIN Cut(relevant, k) \subseteq 1 .. n
  BY CutRanks
<1>2. IsFiniteSet(first) /\ first \subseteq Int /\ \A r \in first : r \in Nat /\ r # 0
  BY <1>1, FS_Subset
<1>3. ReciprocalRank(relevant, k) = IF first = {} THEN 0 ELSE Unit \div Min(first)
  BY DEF ReciprocalRank
<1> HIDE DEF first
<1>4. CASE first = {}
  BY <1>3, <1>4
<1>5. CASE first # {}
  <2>1. Min(first) \in Nat /\ Min(first) # 0
    BY <1>2, <1>5, SmallestExists
  <2> QED
    BY <1>3, <1>5, <2>1, QuotientIsNumber, MetricsAssumption
<1> QED
  BY <1>4, <1>5
(* A list against the best order.                                           *)

LEMMA DcgIsSum ==
    ASSUME NEW n \in Nat, NEW gains \in [1 .. n -> Nat], NEW k \in 1 .. Len(Discounts)
    PROVE  LET a == IF k <= n THEN k ELSE n
           IN Dcg(gains, k) = SumFunction([r \in 1 .. a |-> gains[r] * Discounts[r]])
<1>1. k \in Nat
  BY MetricsAssumption
<1>2. DOMAIN Cut(gains, k) = 1 .. (IF k <= n THEN k ELSE n)
  BY <1>1, CutTo
<1> QED
  BY <1>2 DEF Dcg

LEMMA TheBestComeFirst ==
    ASSUME NEW n \in Nat, NEW judged \in [1 .. n -> Nat],
           NEW h, Measures(h, judged, 1 .. n),
           NEW m \in 0 .. n, NEW X \in SUBSET (1 .. n), Cardinality(X) = m
    PROVE  h[X] <= h[Taken(Descending(judged), m)]
<1> DEFINE best == Descending(judged)
           Y    == Taken(best, m)
<1>1. /\ judged \in [1 .. n -> Int] /\ IsFiniteSet(1 .. n)
      /\ \A x \in 1 .. n : judged[x] \in Int
  BY FS_Interval
<1>2. /\ best \in [1 .. n -> 1 .. n] /\ Distinct(best, n)
      /\ \A x \in 1 .. n : \E r \in 1 .. n : best[r] = x
  BY <1>1, DescendingPermutes
<1>3. \A r, t \in 1 .. n : r < t => judged[best[t]] <= judged[best[r]]
  <2> SUFFICES ASSUME NEW r \in 1 .. n, NEW t \in 1 .. n, r < t
               PROVE  judged[best[t]] <= judged[best[r]]
    OBVIOUS
  <2>1. judged[best[r]] > judged[best[t]] \/ judged[best[r]] = judged[best[t]]
    BY <1>1, RankingsAreSorted
  <2>2. judged[best[r]] \in Int /\ judged[best[t]] \in Int
    BY <1>1, <1>2
  <2> HIDE DEF best
  <2> QED
    BY <2>1, <2>2
<1> HIDE DEF best
<1>4. Y \in SUBSET (1 .. n) /\ Cardinality(Y) = m
  <2>1. \A r \in 1 .. m : best[r] \in 1 .. n
    BY <1>2
  <2>2. Y \in SUBSET (1 .. n)
    BY <2>1 DEF Taken
  <2>3. Cardinality(Y) = m
    BY <1>2, TakenAreCounted
  <2> QED
    BY <2>2, <2>3
<1>5. ASSUME NEW y \in Y, NEW z \in (1 .. n) \ Y
      PROVE  judged[z] <= judged[y]
  <2>1. PICK r \in 1 .. m : best[r] = y
    BY DEF Taken
  <2>2. PICK t \in 1 .. n : best[t] = z
    BY <1>2
  <2>3. ~ (t \in 1 .. m)
    BY <2>2 DEF Taken
  <2>4. r \in 1 .. n /\ r < t
    BY <2>3
  <2> QED
    BY <1>3, <2>1, <2>2, <2>4
<1> HIDE DEF Y
<1>6. h[X] <= h[Y]
  BY <1>1, <1>4, <1>5, LargestSum
<1> QED
  BY <1>6 DEF Y, best

(* No list of different judged products has more discounted gain than their *)
(* best order: the metrics refuse no list that a pipeline within its        *)
(* contract returns, and no NDCG exceeds 1.                                 *)
THEOREM NothingBeatsTheIdeal ==
    ASSUME NEW n \in Nat, NEW judged \in [1 .. n -> Nat],
           NEW m \in Nat, NEW list \in [1 .. m -> 1 .. n], Distinct(list, m),
           NEW k \in 1 .. Len(Discounts)
    PROVE  Measurable([r \in 1 .. m |-> judged[list[r]]], judged, k)
<1> DEFINE best   == Descending(judged)
           gains  == [r \in 1 .. m |-> judged[list[r]]]
           sorted == [r \in 1 .. n |-> judged[best[r]]]
           a == IF k <= m THEN k ELSE m
           b == IF k <= n THEN k ELSE n
           weighed(g, l) == [r \in 1 .. l |-> g[r] * Discounts[r]]
<1>1. /\ judged \in [1 .. n -> Int] /\ IsFiniteSet(1 .. n) /\ DOMAIN judged = 1 .. n
      /\ \A x \in 1 .. n : judged[x] \in Int
  BY FS_Interval
<1>2. best \in [1 .. n -> 1 .. n] /\ Distinct(best, n)
  BY <1>1, DescendingPermutes
<1>3. m <= n
  <2>1. list \in Injection(1 .. m, 1 .. n)
    BY DEF Injection, IsInjective, Distinct
  <2>2. Cardinality(1 .. m) = m /\ Cardinality(1 .. n) = n
    BY FS_Interval
  <2>3. Cardinality(1 .. m) <= Cardinality(1 .. n)
    BY <1>1, <2>1, FS_Injection
  <2> QED
    BY <2>2, <2>3
<1>4. /\ k \in Nat /\ a \in Nat /\ b \in Nat /\ a <= b /\ a <= m /\ b <= n
      /\ \A r \in 1 .. b : r \in 1 .. Len(Discounts)
      /\ Len(Discounts) \in Nat
      /\ \A r \in 1 .. Len(Discounts) : Discounts[r] \in Nat
      /\ \A r \in 2 .. Len(Discounts) : Discounts[r] < Discounts[r - 1]
  BY <1>3, MetricsAssumption
<1>5. gains \in [1 .. m -> Nat] /\ sorted \in [1 .. n -> Nat]
  BY <1>2
<1>6. Ideal(judged, k) = Dcg(sorted, k)
  BY <1>1 DEF Ideal
<1>7. PICK h : Measures(h, judged, 1 .. n)
  BY <1>1, SumIsMeasured
<1> DEFINE p == [i \in 0 .. a |-> h[Taken(list, i)]]
           q == [i \in 0 .. a |-> h[Taken(best, i)]]
           gf == [r \in 1 .. a |-> gains[r]]
           sf == [r \in 1 .. a |-> sorted[r]]
<1> HIDE DEF a, b, best
<1>8. /\ Accumulates(p, gf, a) /\ Accumulates(q, sf, a)
      /\ \A i \in 0 .. a : p[i] <= q[i]
  <2> DEFINE S     == 1 .. n
             value == judged
  <2>1. \A r \in 1 .. a : r \in 1 .. m /\ r \in 1 .. n
    BY <1>3, <1>4
  <2>2. /\ \A r \in 1 .. a : list[r] \in S /\ best[r] \in S
        /\ Measures(h, value, S) /\ \A x \in S : value[x] \in Int
    BY <1>1, <1>2, <1>7, <2>1
  <2>3. Distinct(list, a) /\ Distinct(best, a)
    BY <1>2, <2>1 DEF Distinct
  <2>4. \A r \in 1 .. a : gf[r] = value[list[r]] /\ sf[r] = value[best[r]]
    BY <2>1
  <2>5. \A i \in 0 .. a : Taken(list, i) \in SUBSET S /\ Taken(best, i) \in SUBSET S
    <3> SUFFICES ASSUME NEW i \in 0 .. a
                 PROVE  Taken(list, i) \in SUBSET S /\ Taken(best, i) \in SUBSET S
      OBVIOUS
    <3>1. \A r \in 1 .. i : r \in 1 .. a
      BY <1>4
    <3> QED
      BY <2>2, <3>1 DEF Taken
  <2>6. \A i \in 0 .. a : h[Taken(list, i)] \in Int /\ h[Taken(best, i)] \in Int
    BY <2>2, <2>5 DEF Measures
  <2>7. p \in [0 .. a -> Int] /\ \A i \in 0 .. a : p[i] = h[Taken(list, i)]
    BY <2>6
  <2>8. q \in [0 .. a -> Int] /\ \A i \in 0 .. a : q[i] = h[Taken(best, i)]
    BY <2>6
  <2> HIDE DEF S, value, gf, sf, p, q
  <2>9. Accumulates(p, gf, a)
    <3>1. a \in Nat
      BY <1>4
    <3>2. Measured(p, gf, a, list, h, value, S)
      BY <2>2, <2>3, <2>4, <2>7, <3>1 DEF Measured
    <3> QED
      BY <3>2, TakenAccumulate
  <2>10. Accumulates(q, sf, a)
    <3>1. a \in Nat
      BY <1>4
    <3>2. Measured(q, sf, a, best, h, value, S)
      BY <2>2, <2>3, <2>4, <2>8, <3>1 DEF Measured
    <3> QED
      BY <3>2, TakenAccumulate
  <2>11. ASSUME NEW i \in 0 .. a PROVE p[i] <= q[i]
    <3>1. i \in 0 .. n /\ i \in 0 .. m
      BY <1>3, <1>4
    <3>2. Taken(list, i) \in SUBSET (1 .. n) /\ Cardinality(Taken(list, i)) = i
      <4>1. \A r \in 1 .. i : list[r] \in 1 .. n
        BY <3>1
      <4>2. Taken(list, i) \in SUBSET (1 .. n)
        BY <4>1 DEF Taken
      <4>3. Cardinality(Taken(list, i)) = i
        BY <3>1, TakenAreCounted
      <4> QED
        BY <4>2, <4>3
    <3>3. h[Taken(list, i)] <= h[Taken(best, i)]
      BY <1>7, <3>1, <3>2, TheBestComeFirst DEF best
    <3> QED
      BY <3>3 DEF p, q
  <2> QED
    BY <2>9, <2>10, <2>11
<1> HIDE DEF p, q
<1>9. \A g : \A l \in Nat : l <= b /\ (\A r \in 1 .. l : g[r] \in Nat) =>
         /\ weighed(g, l) \in [1 .. l -> Int]
         /\ \A r \in 1 .. l : weighed(g, l)[r] \in Nat
  <2> SUFFICES ASSUME NEW g, NEW l \in Nat, l <= b, \A r \in 1 .. l : g[r] \in Nat
               PROVE  /\ weighed(g, l) \in [1 .. l -> Int]
                      /\ \A r \in 1 .. l : weighed(g, l)[r] \in Nat
    OBVIOUS
  <2>1. ASSUME NEW r \in 1 .. l PROVE g[r] * Discounts[r] \in Nat
    <3>1. r \in 1 .. b
      BY <1>4
    <3> QED
      BY <1>4, <3>1
  <2> QED
    BY <2>1
<1>10. /\ \A r \in 1 .. a : gains[r] \in Nat /\ sorted[r] \in Nat
       /\ \A r \in 1 .. b : sorted[r] \in Nat
  <2>1. /\ \A r \in 1 .. a : r \in 1 .. m /\ r \in 1 .. n
        /\ \A r \in 1 .. b : r \in 1 .. n
    BY <1>3, <1>4
  <2> HIDE DEF gains, sorted
  <2> QED
    BY <1>5, <2>1
<1> HIDE DEF gains, sorted
<1>11. PICK v : Accumulates(v, weighed(gains, a), a) /\ SumFunction(weighed(gains, a)) = v[a]
  <2>1. weighed(gains, a) \in [1 .. a -> Int]
    BY <1>4, <1>9, <1>10
  <2> HIDE DEF weighed
  <2> QED
    BY <1>4, <2>1, SumsAccumulate
<1>12. PICK w : Accumulates(w, weighed(sorted, b), b) /\ SumFunction(weighed(sorted, b)) = w[b]
  <2>1. weighed(sorted, b) \in [1 .. b -> Int]
    BY <1>4, <1>9, <1>10
  <2> HIDE DEF weighed
  <2> QED
    BY <1>4, <2>1, SumsAccumulate
<1>13. w[a] <= w[b]
  <2>1. \A r \in 1 .. b : weighed(sorted, b)[r] \in Nat
    BY <1>4, <1>9, <1>10
  <2>2. a \in 0 .. b
    BY <1>4
  <2> HIDE DEF weighed
  <2> QED
    BY <1>4, <1>12, <2>1, <2>2, SumsGrowOn
<1>14. v[a] <= w[a]
  <2> DEFINE u  == [i \in 0 .. a |-> w[i]]
             vf == [r \in 1 .. a |-> gf[r] * Discounts[r]]
             wf == [r \in 1 .. a |-> sf[r] * Discounts[r]]
  <2>1. vf = weighed(gains, a) /\ wf = weighed(sorted, a)
    OBVIOUS
  <2>2. Accumulates(u, wf, a)
    <3>1. /\ w \in [0 .. b -> Int] /\ w[0] = 0
          /\ \A i \in 1 .. b : w[i] = w[i - 1] + weighed(sorted, b)[i]
      BY <1>12 DEF Accumulates
    <3>2. \A i \in 0 .. a : i \in 0 .. b
      BY <1>4
    <3>3. u \in [0 .. a -> Int] /\ u[0] = 0
      BY <1>4, <3>1, <3>2
    <3>4. ASSUME NEW i \in 1 .. a PROVE u[i] = u[i - 1] + wf[i]
      <4>1. i \in 1 .. b /\ i \in 0 .. a /\ i - 1 \in 0 .. a
        BY <1>4
      <4>2. wf[i] = weighed(sorted, b)[i]
        BY <4>1
      <4>3. u[i] = w[i] /\ u[i - 1] = w[i - 1]
        BY <4>1
      <4> QED
        BY <3>1, <4>1, <4>2, <4>3
    <3> HIDE DEF u, wf
    <3> QED
      BY <3>3, <3>4 DEF Accumulates
  <2>3. Accumulates(v, vf, a)
    BY <1>11, <2>1
  <2>4. gf \in [1 .. a -> Int] /\ sf \in [1 .. a -> Int]
    BY <1>10
  <2>5. /\ \A r \in 1 .. a : Discounts[r] \in Nat
        /\ \A r \in 2 .. a : Discounts[r] <= Discounts[r - 1]
    <3>1. \A r \in 1 .. a : r \in 1 .. Len(Discounts)
      BY <1>4
    <3>2. ASSUME NEW r \in 2 .. a PROVE Discounts[r] <= Discounts[r - 1]
      <4>1. r \in 1 .. a /\ r - 1 \in 1 .. a /\ r \in 2 .. Len(Discounts)
        BY <1>4, <3>1
      <4>2. Discounts[r] \in Nat /\ Discounts[r - 1] \in Nat /\ Discounts[r] < Discounts[r - 1]
        BY <1>4, <3>1, <4>1
      <4> QED
        BY <4>2
    <3> QED
      BY <1>4, <3>1, <3>2
  <2>6. a \in 0 .. a
    BY <1>4
  <2>7. u[a] = w[a]
    BY <2>6
  <2>8. /\ Accumulates(p, gf, a) /\ Accumulates(q, sf, a)
        /\ gf \in [1 .. a -> Int] /\ sf \in [1 .. a -> Int]
        /\ Accumulates(v, [r \in 1 .. a |-> gf[r] * Discounts[r]], a)
        /\ Accumulates(u, [r \in 1 .. a |-> sf[r] * Discounts[r]], a)
    BY <1>8, <2>2, <2>3, <2>4
  <2> HIDE DEF u, vf, wf, gf, sf
  <2>9. v[a] <= u[a]
    BY <1>4, <1>8, <2>5, <2>8, DecreasingWeights
  <2> QED
    BY <2>7, <2>9
<1>15. v[a] \in Int /\ w[a] \in Int /\ w[b] \in Int
  BY <1>4, <1>11, <1>12 DEF Accumulates
<1>16. Dcg(gains, k) = v[a] /\ Dcg(sorted, k) = w[b]
  <2>1. Dcg(gains, k) = SumFunction(weighed(gains, a))
    BY <1>5, DcgIsSum DEF a
  <2>2. Dcg(sorted, k) = SumFunction(weighed(sorted, b))
    BY <1>5, DcgIsSum DEF b
  <2> QED
    BY <1>11, <1>12, <2>1, <2>2
<1>17. Dcg(gains, k) <= Ideal(judged, k)
  BY <1>6, <1>13, <1>14, <1>15, <1>16
<1> QED
  BY <1>17 DEF Measurable, gains

(* Every metric of a list of different judged products lies between 0 and 1. *)
LEMMA QuotientIsBounded ==
    ASSUME NEW u \in Nat, NEW a \in Nat, NEW b \in Nat, b # 0, a <= b
    PROVE  (u * a) \div b \in 0 .. u
<1> DEFINE x == u * a
           q == x \div b
           y == u * b
<1>1. x \in Nat /\ y \in Nat
  OBVIOUS
<1>2. x <= y
  <2>1. u * b = u * a + u * (b - a) /\ u * (b - a) >= 0
    OBVIOUS
  <2>2. u * (b - a) \in Int
    OBVIOUS
  <2> QED
    BY <2>1, <2>2
<1> HIDE DEF x
<1>3. q \in Nat /\ q * b <= x
  BY <1>1
<1> HIDE DEF q
<1>4. q <= u
  <2> SUFFICES ASSUME q > u PROVE FALSE
    BY <1>3
  <2>1. q * b = y + (q - u) * b
    BY <1>3
  <2>2. (q - u) * b > 0 /\ (q - u) * b \in Int /\ q * b \in Int
    BY <1>3
  <2> HIDE DEF y
  <2> QED
    BY <1>1, <1>2, <1>3, <2>1, <2>2
<1> QED
  BY <1>3, <1>4 DEF q, x

LEMMA DivisionHolds ==
    ASSUME NEW x \in Nat, NEW r \in Nat \ {0}, NEW m \in Nat, m * r <= x
    PROVE  m <= x \div r
<1> DEFINE p == x \div r
           y == (p + 1) * r
<1>1. p \in Nat /\ x < y /\ y \in Nat
  <2>1. p \in Nat /\ x < r * p + r
    OBVIOUS
  <2>2. y = r * p + r /\ y \in Nat
    BY <2>1
  <2> QED
    BY <2>1, <2>2
<1> HIDE DEF p
<1>2. m <= p
  <2> SUFFICES ASSUME m > p PROVE FALSE
    BY <1>1
  <2>1. m * r = y + (m - p - 1) * r
    BY <1>1
  <2>2. (m - p - 1) * r >= 0 /\ (m - p - 1) * r \in Int /\ m * r \in Int
    BY <1>1
  <2> HIDE DEF y
  <2> QED
    BY <1>1, <2>1, <2>2
<1> QED
  BY <1>2 DEF p

LEMMA ProductsCompare ==
    ASSUME NEW u \in Nat, NEW a \in Nat, NEW b \in Nat, a < b
    PROVE  u * a \in Nat /\ u * b \in Nat /\ u * a + u <= u * b
<1>1. u * b = u * a + u + u * (b - a - 1) /\ u * (b - a - 1) >= 0
  OBVIOUS
<1>2. u * a \in Nat /\ u * b \in Nat /\ u * (b - a - 1) \in Int
  OBVIOUS
<1> DEFINE x == u * a
           y == u * b
           z == u * (b - a - 1)
<1>3. y = x + u + z /\ z >= 0 /\ x \in Nat /\ y \in Nat /\ z \in Int
  BY <1>1, <1>2
<1> HIDE DEF x, y, z
<1>4. x + u <= y
  BY <1>3
<1> QED
  BY <1>3, <1>4 DEF x, y

(* A fraction of no more than u members grows when one more member counts.  *)
LEMMA FractionsGrow ==
    ASSUME NEW u \in Nat, NEW r \in Nat \ {0}, r <= u,
           NEW a \in Nat, NEW b \in Nat, a < b
    PROVE  (u * a) \div r < (u * b) \div r
<1> DEFINE x == u * a
           y == u * b
           p == x \div r
<1>1. x \in Nat /\ y \in Nat /\ x + u <= y
  BY ProductsCompare
<1> HIDE DEF x, y
<1>2. p \in Nat /\ p * r <= x
  BY <1>1
<1> HIDE DEF p
<1>3. (p + 1) * r <= y
  <2> DEFINE z == p * r
  <2>1. (p + 1) * r = z + r /\ z \in Nat /\ z <= x
    BY <1>2
  <2> HIDE DEF z
  <2> QED
    BY <1>1, <2>1
<1>4. p + 1 \in Nat
  BY <1>2
<1>5. p + 1 <= y \div r
  BY <1>1, <1>3, <1>4, DivisionHolds
<1>6. y \div r \in Int
  BY <1>1
<1>7. p < y \div r
  BY <1>2, <1>5, <1>6
<1> QED
  BY <1>7 DEF p, x, y

LEMMA NdcgIsBounded ==
    ASSUME NEW n \in Nat, NEW judged \in [1 .. n -> Nat],
           NEW m \in Nat, NEW list \in [1 .. m -> 1 .. n], Distinct(list, m),
           NEW k \in 1 .. Len(Discounts)
    PROVE  Ndcg([r \in 1 .. m |-> judged[list[r]]], judged, k) \in 0 .. Unit
<1> DEFINE gains  == [r \in 1 .. m |-> judged[list[r]]]
           sorted == [r \in 1 .. n |-> judged[Descending(judged)[r]]]
<1>1. Dcg(gains, k) <= Ideal(judged, k)
  BY NothingBeatsTheIdeal DEF Measurable
<1>2. Descending(judged) \in [1 .. n -> 1 .. n] /\ judged \in [1 .. n -> Int]
  BY DescendingPermutes
<1>3. gains \in [1 .. m -> Nat] /\ sorted \in [1 .. n -> Nat]
  BY <1>2
<1>4. Ideal(judged, k) = Dcg(sorted, k)
  BY DEF Ideal
<1> HIDE DEF gains, sorted
<1>5. Ideal(judged, k) \in Nat /\ Dcg(gains, k) \in Nat
  BY <1>3, <1>4, DcgIsNumber
<1>6. CASE Ideal(judged, k) = 0
  BY <1>6, MetricsAssumption DEF Ndcg, gains
<1>7. CASE Ideal(judged, k) # 0
  <2>1. (Unit * Dcg(gains, k)) \div Ideal(judged, k) \in 0 .. Unit
    BY <1>1, <1>5, <1>7, QuotientIsBounded, MetricsAssumption
  <2> QED
    BY <1>7, <2>1 DEF Ndcg, gains
<1> QED
  BY <1>6, <1>7

LEMMA RecallIsBounded ==
    ASSUME NEW m \in Nat, NEW list, Distinct(list, m), NEW R, IsFiniteSet(R), R # {},
           NEW relevant \in [1 .. m -> BOOLEAN],
           \A r \in 1 .. m : relevant[r] => list[r] \in R, NEW k \in Nat
    PROVE  Recall(relevant, Cardinality(R), k) \in 0 .. Unit
<1> DEFINE H == {r \in DOMAIN Cut(relevant, k) : relevant[r]}
           f == [r \in H |-> list[r]]
<1>1. IsFiniteSet(DOMAIN Cut(relevant, k)) /\ DOMAIN Cut(relevant, k) \subseteq 1 .. m
  BY CutRanks
<1>2. H \subseteq 1 .. m /\ \A r \in H : list[r] \in R
  BY <1>1
<1>3. Hits(relevant, k) = Cardinality(H)
  BY DEF Hits
<1> HIDE DEF H
<1>4. f \in [H -> R] /\ \A i, j \in H : f[i] = f[j] => i = j
  BY <1>2 DEF Distinct
<1> HIDE DEF f
<1>5. f \in Injection(H, R)
  BY <1>4 DEF Injection, IsInjective
<1>6. IsFiniteSet(H) /\ Cardinality(H) <= Cardinality(R)
  BY <1>5, FS_Injection
<1>7. Cardinality(H) \in Nat /\ Cardinality(R) \in Nat /\ Cardinality(R) # 0
  BY <1>6, FS_CardinalityType, FS_EmptySet
<1>8. (Unit * Cardinality(H)) \div Cardinality(R) \in 0 .. Unit
  BY <1>6, <1>7, QuotientIsBounded, MetricsAssumption
<1> QED
  BY <1>3, <1>8 DEF Recall

LEMMA ReciprocalRankIsBounded ==
    ASSUME NEW n \in Nat, NEW relevant \in [1 .. n -> BOOLEAN], NEW k \in Nat
    PROVE  ReciprocalRank(relevant, k) \in 0 .. Unit
<1> DEFINE first == {r \in DOMAIN Cut(relevant, k) : relevant[r]}
<1>1. IsFiniteSet(DOMAIN Cut(relevant, k)) /\ DOMAIN Cut(relevant, k) \subseteq 1 .. n
  BY CutRanks
<1>2. IsFiniteSet(first) /\ first \subseteq Int /\ \A r \in first : r \in Nat /\ r # 0
  BY <1>1, FS_Subset
<1>3. ReciprocalRank(relevant, k) = IF first = {} THEN 0 ELSE Unit \div Min(first)
  BY DEF ReciprocalRank
<1> HIDE DEF first
<1>4. CASE first = {}
  BY <1>3, <1>4, MetricsAssumption
<1>5. CASE first # {}
  <2> DEFINE x == Min(first)
  <2>1. x \in Nat /\ x # 0
    BY <1>2, <1>5, SmallestExists
  <2>2. ReciprocalRank(relevant, k) = Unit \div x
    BY <1>3, <1>5
  <2> HIDE DEF x
  <2>3. (Unit * 1) \div x \in 0 .. Unit /\ Unit * 1 = Unit
    <3>1. Unit \in Nat /\ 1 \in Nat /\ 1 <= x
      BY <2>1, MetricsAssumption
    <3>2. (Unit * 1) \div x \in 0 .. Unit
      BY <2>1, <3>1, QuotientIsBounded
    <3> QED
      BY <3>1, <3>2
  <2> QED
    BY <2>2, <2>3
<1> QED
  BY <1>4, <1>5
=============================================================================
