-------------------------- MODULE CollectionProofs --------------------------
(***************************************************************************)
(* Facts about collections that the other proofs share: induction, sums    *)
(* over finite sets, and sequences that lose an element.                   *)
(*                                                                         *)
(* The induction theorems of the library take a predicate as a parameter;  *)
(* here the predicate is the set of the numbers that have it, so that the  *)
(* first-order provers can use the principle.                              *)
(***************************************************************************)
EXTENDS Collections, SequencesExt, FiniteSetTheorems, SequenceTheorems,
        WellFoundedInduction, TLAPS

\* A set of natural numbers that is not empty has a least element.
LEMMA LeastNumber ==
    ASSUME NEW T, T \subseteq Nat, T # {}
    PROVE  \E n \in T : \A m \in T : n <= m
<1> DEFINE R == OpToRel(<, Nat)
<1>1. IsWellFoundedOn(R, Nat)
  BY NatLessThanWellFounded
<1>2. \A x, y \in Nat : <<x, y>> \in R <=> x < y
  BY DEF OpToRel
<1> HIDE DEF R
<1>3. PICK x \in T : \A y \in T : ~ (<<y, x>> \in R)
  BY <1>1, WFMin
<1>4. ASSUME NEW y \in T PROVE x <= y
  <2>1. x \in Nat /\ y \in Nat
    OBVIOUS
  <2>2. ~(y < x)
    BY <1>2, <1>3, <2>1
  <2> QED
    BY <2>1, <2>2
<1> QED
  BY <1>4

\* Induction over the natural numbers.
LEMMA Induction ==
    ASSUME NEW T, 0 \in T, \A n \in Nat : n \in T => n + 1 \in T
    PROVE  \A n \in Nat : n \in T
<1> DEFINE U == Nat \ T
<1> SUFFICES ASSUME U # {} PROVE FALSE
  OBVIOUS
<1>1. PICK n \in U : \A m \in U : n <= m
  BY LeastNumber
<1>2. n - 1 \in Nat /\ n # 0
  BY <1>1
<1>3. n - 1 \in T
  BY <1>1, <1>2
<1> QED
  BY <1>3, <1>2

-----------------------------------------------------------------------------
(* The recursive function behind SumOver.                                  *)

\* The element that the sum takes first.
First(s) == CHOOSE x \in s : TRUE

\* g is the sum of f, on the subsets of S with at most n elements.
SumsUpTo(f, S, n, g) ==
    g = [s \in {t \in SUBSET S : Cardinality(t) <= n} |->
           IF s = {} THEN 0 ELSE f[First(s)] + g[s \ {First(s)}]]

\* g is the sum of f on the subsets of S.
IsSum(f, S, g) ==
    g = [s \in SUBSET S |-> IF s = {} THEN 0 ELSE f[First(s)] + g[s \ {First(s)}]]

\* Taking the first element away leaves one element less.
LEMMA FirstProperties ==
    ASSUME NEW s, IsFiniteSet(s), s # {}
    PROVE  /\ First(s) \in s
           /\ IsFiniteSet(s \ {First(s)})
           /\ Cardinality(s) \in Nat /\ Cardinality(s \ {First(s)}) = Cardinality(s) - 1
<1>1. First(s) \in s
  BY DEF First
<1> QED
  BY <1>1, FS_RemoveElement, FS_CardinalityType

\* There is such a function for every number of elements.
LEMMA SumsUpToExist ==
    ASSUME NEW f, NEW S, IsFiniteSet(S)
    PROVE  \A n \in Nat : \E g : SumsUpTo(f, S, n, g)
<1> DEFINE T == {n \in Nat : \E g : SumsUpTo(f, S, n, g)}
           D(n) == {t \in SUBSET S : Cardinality(t) <= n}
<1>1. 0 \in T
  <2> DEFINE g == [s \in D(0) |-> 0]
  <2>1. \A s \in D(0) : s = {}
    <3> SUFFICES ASSUME NEW s \in SUBSET S, Cardinality(s) <= 0 PROVE s = {}
      OBVIOUS
    <3>1. IsFiniteSet(s)
      BY FS_Subset
    <3> QED
      BY <3>1, FS_EmptySet, FS_CardinalityType
  <2>2. g = [s \in D(0) |-> IF s = {} THEN 0 ELSE f[First(s)] + g[s \ {First(s)}]]
    BY <2>1
  <2> QED
    BY <2>2 DEF SumsUpTo
<1>2. ASSUME NEW n \in Nat, n \in T PROVE n + 1 \in T
  <2>1. PICK g : g = [s \in D(n) |-> IF s = {} THEN 0 ELSE f[First(s)] + g[s \ {First(s)}]]
    BY <1>2 DEF SumsUpTo
  <2> DEFINE h == [s \in D(n + 1) |-> IF s = {} THEN 0 ELSE f[First(s)] + g[s \ {First(s)}]]
  <2>2. ASSUME NEW s \in D(n + 1), s # {} PROVE h[s \ {First(s)}] = g[s \ {First(s)}]
    <3> DEFINE r == s \ {First(s)}
    <3>1. IsFiniteSet(s)
      BY FS_Subset
    <3>2. Cardinality(s) \in Nat /\ Cardinality(r) = Cardinality(s) - 1
      BY <3>1, <2>2, FirstProperties
    <3>3. r \in D(n) /\ r \in D(n + 1)
      BY <3>2
    <3> HIDE DEF r
    <3>4. g[r] = IF r = {} THEN 0 ELSE f[First(r)] + g[r \ {First(r)}]
      BY <2>1, <3>3
    <3>5. h[r] = IF r = {} THEN 0 ELSE f[First(r)] + g[r \ {First(r)}]
      BY <3>3
    <3> QED
      BY <3>4, <3>5 DEF r
  <2>3. h = [s \in D(n + 1) |-> IF s = {} THEN 0 ELSE f[First(s)] + h[s \ {First(s)}]]
    BY <2>2
  <2>4. SumsUpTo(f, S, n + 1, h)
    BY <2>3 DEF SumsUpTo
  <2> QED
    BY <2>4
<1> HIDE DEF T
<1>3. \A n \in Nat : n \in T
  BY <1>1, <1>2, Induction
<1> QED
  BY <1>3 DEF T

\* SumOver obeys its recursive definition.
LEMMA SumOverDef ==
    ASSUME NEW f, NEW S, IsFiniteSet(S)
    PROVE  \E g : IsSum(f, S, g) /\ SumOver(f, S) = g[S]
<1>1. PICK g : SumsUpTo(f, S, Cardinality(S), g)
  BY SumsUpToExist, FS_CardinalityType
<1>2. {t \in SUBSET S : Cardinality(t) <= Cardinality(S)} = SUBSET S
  BY FS_Subset
<1>3. IsSum(f, S, g)
  BY <1>1, <1>2 DEF IsSum, SumsUpTo
<1> DEFINE h == CHOOSE g_1 : g_1 = [s \in SUBSET S |->
                  IF s = {} THEN 0 ELSE f[First(s)] + g_1[s \ {First(s)}]]
<1>4. IsSum(f, S, h)
  BY <1>3 DEF IsSum
<1>5. SumOver(f, S) = h[S]
  BY DEF SumOver, MapThenSumSet, MapThenFoldSet, First
<1> QED
  BY <1>4, <1>5

\* Two such functions agree on the sets on which their arguments do.
LEMMA SumsAgree ==
    ASSUME NEW f, NEW S, NEW g, IsFiniteSet(S), IsSum(f, S, g),
           NEW e, NEW R, NEW h, IsFiniteSet(R), IsSum(e, R, h)
    PROVE  \A s \in SUBSET (S \cap R) : (\A x \in s : f[x] = e[x]) => g[s] = h[s]
<1> DEFINE Agree(s) == (\A x \in s : f[x] = e[x]) => g[s] = h[s]
           T == {n \in Nat : \A s \in SUBSET (S \cap R) : Cardinality(s) = n => Agree(s)}
<1>1. \A s \in SUBSET (S \cap R) : IsFiniteSet(s) /\ Cardinality(s) \in Nat
  BY FS_Subset, FS_CardinalityType
<1>2. ASSUME NEW s \in SUBSET (S \cap R)
      PROVE  /\ g[s] = IF s = {} THEN 0 ELSE f[First(s)] + g[s \ {First(s)}]
             /\ h[s] = IF s = {} THEN 0 ELSE e[First(s)] + h[s \ {First(s)}]
  <2>1. s \in SUBSET S /\ s \in SUBSET R
    OBVIOUS
  <2>2. g[s] = IF s = {} THEN 0 ELSE f[First(s)] + g[s \ {First(s)}]
    BY <2>1 DEF IsSum
  <2>3. h[s] = IF s = {} THEN 0 ELSE e[First(s)] + h[s \ {First(s)}]
    BY <2>1 DEF IsSum
  <2> QED
    BY <2>2, <2>3
<1>3. 0 \in T
  <2> SUFFICES ASSUME NEW s \in SUBSET (S \cap R), Cardinality(s) = 0 PROVE g[s] = h[s]
    OBVIOUS
  <2>1. s = {}
    BY <1>1, FS_EmptySet
  <2> QED
    BY <2>1, <1>2
<1>4. ASSUME NEW n \in Nat, n \in T PROVE n + 1 \in T
  <2> SUFFICES ASSUME NEW s \in SUBSET (S \cap R), Cardinality(s) = n + 1,
                      \A x \in s : f[x] = e[x]
               PROVE  g[s] = h[s]
    OBVIOUS
  <2>1. s # {}
    BY FS_EmptySet
  <2>2. First(s) \in s /\ Cardinality(s \ {First(s)}) = n
    BY <2>1, <1>1, FirstProperties
  <2> DEFINE r == s \ {First(s)}
  <2>3. r \in SUBSET (S \cap R) /\ Cardinality(r) = n /\ \A x \in r : f[x] = e[x]
    BY <2>2
  <2>4. g[r] = h[r]
    BY <2>3, <1>4
  <2>5. g[s] = f[First(s)] + g[r] /\ h[s] = e[First(s)] + h[r]
    BY <2>1, <1>2
  <2> QED
    BY <2>2, <2>4, <2>5
<1> HIDE DEF T
<1>5. \A n \in Nat : n \in T
  BY <1>3, <1>4, Induction
<1> QED
  BY <1>1, <1>5 DEF T

-----------------------------------------------------------------------------
(* What the proofs about the book, the accounts and the receiver use.      *)

\* Functions that agree on a set have the same sum over it.
LEMMA SumOverAgrees ==
    ASSUME NEW S, IsFiniteSet(S), NEW f, NEW e, \A x \in S : f[x] = e[x]
    PROVE  SumOver(f, S) = SumOver(e, S)
<1>1. PICK g : IsSum(f, S, g) /\ SumOver(f, S) = g[S]
  BY SumOverDef
<1>2. PICK h : IsSum(e, S, h) /\ SumOver(e, S) = h[S]
  BY SumOverDef
<1>3. \A s \in SUBSET (S \cap S) : (\A x \in s : f[x] = e[x]) => g[s] = h[s]
  BY <1>1, <1>2, SumsAgree
<1>4. S \in SUBSET (S \cap S)
  OBVIOUS
<1> QED
  BY <1>1, <1>2, <1>3, <1>4

\* The empty sum, and the sum of a set by its first element.
LEMMA SumOverFirst ==
    ASSUME NEW S, IsFiniteSet(S), NEW f
    PROVE  SumOver(f, S) = IF S = {} THEN 0 ELSE f[First(S)] + SumOver(f, S \ {First(S)})
<1>1. PICK g : IsSum(f, S, g) /\ SumOver(f, S) = g[S]
  BY SumOverDef
<1>2. g[S] = IF S = {} THEN 0 ELSE f[First(S)] + g[S \ {First(S)}]
  <2>1. S \in SUBSET S
    OBVIOUS
  <2> QED
    BY <1>1, <2>1 DEF IsSum
<1>3. ASSUME S # {} PROVE SumOver(f, S \ {First(S)}) = g[S \ {First(S)}]
  <2> DEFINE R == S \ {First(S)}
  <2>1. IsFiniteSet(R)
    BY FS_Subset
  <2>2. PICK h : IsSum(f, R, h) /\ SumOver(f, R) = h[R]
    BY <2>1, SumOverDef
  <2>3. \A s \in SUBSET (S \cap R) : (\A x \in s : f[x] = f[x]) => g[s] = h[s]
    BY <1>1, <2>1, <2>2, SumsAgree
  <2>4. R \in SUBSET (S \cap R)
    OBVIOUS
  <2> QED
    BY <2>2, <2>3, <2>4
<1> QED
  BY <1>1, <1>2, <1>3

\* A sum of integers is an integer.
LEMMA SumOverInt ==
    ASSUME NEW S, IsFiniteSet(S), NEW f, \A x \in S : f[x] \in Int
    PROVE  SumOver(f, S) \in Int
<1> DEFINE T == {n \in Nat : \A s \in SUBSET S : Cardinality(s) = n => SumOver(f, s) \in Int}
<1>1. \A s \in SUBSET S : IsFiniteSet(s) /\ Cardinality(s) \in Nat
  BY FS_Subset, FS_CardinalityType
<1>2. 0 \in T
  <2> SUFFICES ASSUME NEW s \in SUBSET S, Cardinality(s) = 0 PROVE SumOver(f, s) \in Int
    OBVIOUS
  <2> QED
    BY <1>1, FS_EmptySet, SumOverFirst
<1>3. ASSUME NEW n \in Nat, n \in T PROVE n + 1 \in T
  <2> SUFFICES ASSUME NEW s \in SUBSET S, Cardinality(s) = n + 1 PROVE SumOver(f, s) \in Int
    OBVIOUS
  <2>1. s # {}
    BY FS_EmptySet
  <2>2. First(s) \in s /\ Cardinality(s \ {First(s)}) = n
    BY <2>1, <1>1, FirstProperties
  <2>3. SumOver(f, s \ {First(s)}) \in Int
    BY <2>2, <1>3
  <2>4. SumOver(f, s) = f[First(s)] + SumOver(f, s \ {First(s)})
    BY <2>1, <1>1, SumOverFirst
  <2> QED
    BY <2>2, <2>3, <2>4
<1> HIDE DEF T
<1>4. \A n \in Nat : n \in T
  BY <1>2, <1>3, Induction
<1> QED
  BY <1>1, <1>4 DEF T

\* A sum by any of its elements: the order of the elements does not matter.
LEMMA SumOverTake ==
    ASSUME NEW S, IsFiniteSet(S), NEW f, \A x \in S : f[x] \in Int
    PROVE  \A x \in S : SumOver(f, S) = f[x] + SumOver(f, S \ {x})
<1> DEFINE Takes(s) == \A x \in s : SumOver(f, s) = f[x] + SumOver(f, s \ {x})
           T == {n \in Nat : \A s \in SUBSET S : Cardinality(s) = n => Takes(s)}
<1>1. \A s \in SUBSET S : IsFiniteSet(s) /\ Cardinality(s) \in Nat
  BY FS_Subset, FS_CardinalityType
<1>2. \A s \in SUBSET S : SumOver(f, s) \in Int
  <2> SUFFICES ASSUME NEW s \in SUBSET S PROVE SumOver(f, s) \in Int
    OBVIOUS
  <2> QED
    BY <1>1, SumOverInt
<1>3. 0 \in T
  BY <1>1, FS_EmptySet
<1>4. ASSUME NEW n \in Nat, n \in T PROVE n + 1 \in T
  <2> SUFFICES ASSUME NEW s \in SUBSET S, Cardinality(s) = n + 1, NEW x \in s
               PROVE  SumOver(f, s) = f[x] + SumOver(f, s \ {x})
    OBVIOUS
  <2> DEFINE y == First(s)
  <2>1. y \in s /\ Cardinality(s \ {y}) = n
    BY <1>1, FirstProperties
  <2>2. SumOver(f, s) = f[y] + SumOver(f, s \ {y})
    BY <1>1, SumOverFirst
  <2> HIDE DEF y
  <2>3. CASE x = y
    BY <2>2, <2>3
  <2>4. CASE x # y
    <3>1. SumOver(f, s \ {y}) = f[x] + SumOver(f, (s \ {y}) \ {x})
      <4>1. s \ {y} \in SUBSET S /\ x \in s \ {y}
        BY <2>4
      <4> QED
        BY <4>1, <2>1, <1>4
    <3>2. SumOver(f, s \ {x}) = f[y] + SumOver(f, (s \ {x}) \ {y})
      <4>1. s \ {x} \in SUBSET S /\ y \in s \ {x} /\ Cardinality(s \ {x}) = n
        BY <2>1, <2>4, <1>1, FS_RemoveElement
      <4> QED
        BY <4>1, <1>4
    <3>3. (s \ {x}) \ {y} = (s \ {y}) \ {x}
      OBVIOUS
    <3>4. f[x] \in Int /\ f[y] \in Int /\ SumOver(f, (s \ {y}) \ {x}) \in Int
      <4>1. (s \ {y}) \ {x} \in SUBSET S /\ y \in S
        BY <2>1
      <4> QED
        BY <4>1, <1>2
    <3> DEFINE rest == SumOver(f, (s \ {y}) \ {x})
    <3>5. /\ SumOver(f, s \ {y}) = f[x] + rest
          /\ SumOver(f, s \ {x}) = f[y] + rest
          /\ rest \in Int
      BY <3>1, <3>2, <3>3, <3>4
    <3> HIDE DEF rest
    <3> QED
      BY <2>2, <3>4, <3>5
  <2> QED
    BY <2>3, <2>4
<1> HIDE DEF T
<1>5. \A n \in Nat : n \in T
  BY <1>3, <1>4, Induction
<1> QED
  <2>1. Cardinality(S) \in T /\ S \in SUBSET S
    BY <1>1, <1>5
  <2> QED
    BY <2>1 DEF T

\* A sum over one element more.
LEMMA SumOverAdd ==
    ASSUME NEW S, IsFiniteSet(S), NEW x, x \notin S, NEW f, \A y \in S \cup {x} : f[y] \in Int
    PROVE  SumOver(f, S \cup {x}) = f[x] + SumOver(f, S)
<1> DEFINE R == S \cup {x}
<1>1. IsFiniteSet(R) /\ R \ {x} = S /\ x \in R
  BY FS_AddElement
<1> QED
  BY <1>1, SumOverTake

\* One value changes: the sum changes by as much.
LEMMA SumOverChange ==
    ASSUME NEW S, IsFiniteSet(S), NEW x \in S, NEW f, \A y \in S : f[y] \in Int,
           NEW e, NEW d \in Int, e[x] = f[x] + d, \A y \in S : y # x => e[y] = f[y]
    PROVE  SumOver(e, S) = SumOver(f, S) + d
<1>1. \A y \in S : e[y] \in Int
  OBVIOUS
<1>2. SumOver(f, S) = f[x] + SumOver(f, S \ {x})
  BY SumOverTake
<1>3. SumOver(e, S) = e[x] + SumOver(e, S \ {x})
  BY <1>1, SumOverTake
<1>4. IsFiniteSet(S \ {x})
  BY FS_Subset
<1>5. SumOver(e, S \ {x}) = SumOver(f, S \ {x})
  <2>1. \A y \in S \ {x} : e[y] = f[y]
    OBVIOUS
  <2> QED
    BY <2>1, <1>4, SumOverAgrees
<1>6. SumOver(f, S \ {x}) \in Int /\ f[x] \in Int
  BY <1>4, SumOverInt
<1> QED
  BY <1>2, <1>3, <1>5, <1>6

-----------------------------------------------------------------------------
(* Sequences                                                               *)

\* What RemoveAt, by which a queue unlinks an order, returns.
LEMMA RemoveAtProperties ==
    ASSUME NEW S, NEW q \in Seq(S), NEW k \in 1..Len(q)
    PROVE  /\ RemoveAt(q, k) \in Seq(S)
           /\ Len(RemoveAt(q, k)) = Len(q) - 1
           /\ \A i \in 1..Len(q) - 1 :
                 RemoveAt(q, k)[i] = IF i < k THEN q[i] ELSE q[i + 1]
<1> DEFINE a == SubSeq(q, 1, k - 1)
           b == SubSeq(q, k + 1, Len(q))
<1>1. RemoveAt(q, k) = a \o b
  BY DEF RemoveAt
<1>2. a \in Seq(S) /\ Len(a) = k - 1 /\ \A i \in 1..k - 1 : a[i] = q[i]
  OBVIOUS
<1>3. b \in Seq(S) /\ Len(b) = Len(q) - k /\ \A i \in 1..Len(q) - k : b[i] = q[k + i]
  OBVIOUS
<1> HIDE DEF a, b
<1>4. /\ a \o b \in Seq(S)
      /\ Len(a \o b) = Len(a) + Len(b)
      /\ \A i \in 1..Len(a) + Len(b) :
            (a \o b)[i] = IF i <= Len(a) THEN a[i] ELSE b[i - Len(a)]
  BY <1>2, <1>3, ConcatProperties
<1>5. ASSUME NEW i \in 1..Len(q) - 1
      PROVE  (a \o b)[i] = IF i < k THEN q[i] ELSE q[i + 1]
  <2>1. CASE i < k
    BY <2>1, <1>2, <1>3, <1>4
  <2>2. CASE ~(i < k)
    <3>1. i - (k - 1) \in 1..Len(q) - k /\ k + (i - (k - 1)) = i + 1
      BY <2>2
    <3>2. (a \o b)[i] = b[i - (k - 1)]
      BY <2>2, <1>2, <1>3, <1>4
    <3> QED
      BY <3>1, <3>2, <2>2, <1>3
  <2> QED
    BY <2>1, <2>2
<1> QED
  BY <1>1, <1>2, <1>3, <1>4, <1>5

\* The elements that stay when one is removed.
LEMMA RemoveAtRange ==
    ASSUME NEW S, NEW q \in Seq(S), IsInjective(q), NEW k \in 1..Len(q)
    PROVE  /\ IsInjective(RemoveAt(q, k))
           /\ Range(RemoveAt(q, k)) = Range(q) \ {q[k]}
<1> DEFINE r == RemoveAt(q, k)
<1>1. /\ r \in Seq(S) /\ Len(r) = Len(q) - 1
      /\ \A i \in 1..Len(q) - 1 : r[i] = IF i < k THEN q[i] ELSE q[i + 1]
  BY RemoveAtProperties
<1>2. Len(q) \in Nat
  OBVIOUS
<1> HIDE DEF r
<1>3. IsInjective(r)
  <2> SUFFICES ASSUME NEW i \in 1..Len(q) - 1, NEW j \in 1..Len(q) - 1, i # j
               PROVE  r[i] # r[j]
    BY <1>1 DEF IsInjective
  <2>1. i \in 1..Len(q) /\ i + 1 \in 1..Len(q) /\ j \in 1..Len(q) /\ j + 1 \in 1..Len(q)
    BY <1>2
  <2>2. r[i] = IF i < k THEN q[i] ELSE q[i + 1]
    BY <1>1
  <2>3. r[j] = IF j < k THEN q[j] ELSE q[j + 1]
    BY <1>1
  <2>4. q[i] # q[j] /\ q[i + 1] # q[j + 1]
    BY <2>1 DEF IsInjective
  <2>5. (i < k /\ ~(j < k) => q[i] # q[j + 1]) /\ (j < k /\ ~(i < k) => q[i + 1] # q[j])
    BY <2>1 DEF IsInjective
  <2> QED
    BY <2>2, <2>3, <2>4, <2>5
<1>4. \A i \in 1..Len(q) : i # k => q[i] # q[k]
  BY DEF IsInjective
<1>5. ASSUME NEW x \in Range(r) PROVE x \in Range(q) \ {q[k]}
  <2>1. PICK i \in 1..Len(q) - 1 : x = r[i]
    BY <1>1, <1>5 DEF Range
  <2>2. i \in 1..Len(q) /\ i + 1 \in 1..Len(q)
    BY <1>2
  <2>3. (x = q[i] /\ i # k) \/ (x = q[i + 1] /\ i + 1 # k)
    BY <2>1, <1>1
  <2> QED
    BY <2>2, <2>3, <1>2, <1>4 DEF Range
<1>6. ASSUME NEW x \in Range(q) \ {q[k]} PROVE x \in Range(r)
  <2>1. PICK i \in 1..Len(q) : x = q[i] /\ i # k
    BY <1>6 DEF Range
  <2>2. CASE i < k
    <3>1. i \in 1..Len(q) - 1 /\ r[i] = x
      BY <2>1, <2>2, <1>1
    <3> QED
      BY <3>1, <1>1 DEF Range
  <2>3. CASE ~(i < k)
    <3>1. i - 1 \in 1..Len(q) - 1 /\ ~(i - 1 < k) /\ (i - 1) + 1 = i
      BY <2>1, <2>3
    <3>2. r[i - 1] = x
      BY <3>1, <2>1, <1>1
    <3> QED
      BY <3>1, <3>2, <1>1 DEF Range
  <2> QED
    BY <2>2, <2>3
<1> QED
  BY <1>3, <1>5, <1>6 DEF r

\* The order that stays when one element is removed.
LEMMA RemoveAtAscending ==
    ASSUME NEW S, S \subseteq Nat, NEW q \in Seq(S), Ascending(q), NEW k \in 1..Len(q)
    PROVE  IsInjective(q) /\ Ascending(RemoveAt(q, k))
<1> DEFINE r == RemoveAt(q, k)
<1>1. /\ r \in Seq(S) /\ Len(r) = Len(q) - 1
      /\ \A i \in 1..Len(q) - 1 : r[i] = IF i < k THEN q[i] ELSE q[i + 1]
  BY RemoveAtProperties
<1>2. Len(q) \in Nat /\ \A i \in 1..Len(q) : q[i] \in Nat
  <2>1. q \in [1..Len(q) -> S] /\ Len(q) \in Nat
    OBVIOUS
  <2> QED
    BY <2>1
<1> HIDE DEF r
<1>3. Ascending(r)
  <2> SUFFICES ASSUME NEW i \in 1..Len(q) - 1, NEW j \in 1..Len(q) - 1, i < j
               PROVE  r[i] < r[j]
    BY <1>1 DEF Ascending
  <2>1. i \in 1..Len(q) /\ i + 1 \in 1..Len(q) /\ j \in 1..Len(q) /\ j + 1 \in 1..Len(q)
    BY <1>2
  <2>2. r[i] = IF i < k THEN q[i] ELSE q[i + 1]
    BY <1>1
  <2>3. r[j] = IF j < k THEN q[j] ELSE q[j + 1]
    BY <1>1
  <2>4. q[i] < q[j] /\ q[i] < q[j + 1] /\ q[i + 1] < q[j + 1]
    BY <2>1 DEF Ascending
  <2> QED
    BY <2>2, <2>3, <2>4
<1>4. IsInjective(q)
  <2> SUFFICES ASSUME NEW i \in 1..Len(q), NEW j \in 1..Len(q), i # j PROVE q[i] # q[j]
    BY DEF IsInjective
  <2>1. q[i] < q[j] \/ q[j] < q[i]
    BY DEF Ascending
  <2>2. q[i] \in Nat /\ q[j] \in Nat
    BY <1>2
  <2> QED
    BY <2>1, <2>2
<1> QED
  BY <1>3, <1>4 DEF r
=============================================================================
