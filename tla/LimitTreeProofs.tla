-------------------------- MODULE LimitTreeProofs --------------------------
(***************************************************************************)
(* Proofs about the memory of a side, for every set of orders and prices:  *)
(* the search tree stays one, and tree and lists implement BookSide.       *)
(*                                                                         *)
(* The argument: a tree comes with its branches, the set of the nodes      *)
(* under each node, so that what a removal does is said of sets and no     *)
(* path has to be followed (IsTree).  Taking a node with at most one child *)
(* out (CutTree) and putting a node in the place of its neighbour in the   *)
(* order (SwapTree) are the two moves of which remove is made.  The walks  *)
(* of the code are followed by induction over the tree (TreeInduction).    *)
(* A list comes with the sequence that it links (Linked).                  *)
(***************************************************************************)
EXTENDS LimitTree, CollectionProofs

\* Any pointers.
Pointers ==
    [root   : Prices \cup {Nil},
     parent : [Prices -> Prices \cup {Nil}],
     left   : [Prices -> Prices \cup {Nil}],
     right  : [Prices -> Prices \cup {Nil}]]

\* The pointers of the nodes N lead to nodes of N only, or nowhere.
Closed(t, N) ==
    /\ t.root \in N \cup {Nil}
    /\ \A p \in N : {t.parent[p], t.left[p], t.right[p]} \subseteq N \cup {Nil}

\* B has the nodes under each node, and the root is above all of them.
Branches(t, N, B) ==
    /\ B \in [N \cup {Nil} -> SUBSET N]
    /\ B[Nil] = {} /\ B[t.root] = N
    /\ \A p \in N : B[p] = {p} \cup B[t.left[p]] \cup B[t.right[p]]

\* Keys to the left are less and keys to the right are greater.
Sorted(t, N, B) ==
    \A p \in N : (\A q \in B[t.left[p]] : q < p) /\ (\A q \in B[t.right[p]] : p < q)

\* The parent pointers and the links from above agree.
Parents(t, N) ==
    /\ t.root # Nil => t.parent[t.root] = Nil
    /\ \A p \in N : /\ t.left[p] # Nil => t.parent[t.left[p]] = p
                    /\ t.right[p] # Nil => t.parent[t.right[p]] = p
    /\ \A p \in N \ {t.root} :
          t.parent[p] \in N /\ p \in {t.left[t.parent[p]], t.right[t.parent[p]]}

\* The nodes N are a search tree, with branches B.
IsTree(t, N, B) ==
    /\ t \in Pointers /\ N \subseteq Prices
    /\ Closed(t, N) /\ Branches(t, N, B) /\ Sorted(t, N, B) /\ Parents(t, N)

\* The pointers of limits that do not exist lead nowhere.
Clean(t, N) ==
    \A p \in Prices \ N : t.parent[p] = Nil /\ t.left[p] = Nil /\ t.right[p] = Nil

\* The pointers of a list, from its head and its tail, link the sequence s.
IsList(s, head, tail, before, after) ==
    /\ IsInjective(s)
    /\ head = IF s = << >> THEN Null ELSE s[1]
    /\ tail = IF s = << >> THEN Null ELSE s[Len(s)]
    /\ \A i \in 1..Len(s) : /\ before[s[i]] = IF i = 1 THEN Null ELSE s[i - 1]
                            /\ after[s[i]] = IF i = Len(s) THEN Null ELSE s[i + 1]

\* The pointers of the lists link the sequences Q, which have each order at its price.
Linked(head, tail, before, after, at, Q) ==
    /\ Q \in [Prices -> Seq(Orders)]
    /\ \A p \in Prices : IsList(Q[p], head[p], tail[p], before, after)
    /\ \A u \in Orders, p \in Prices : at[u] = p <=> \E i \in 1..Len(Q[p]) : Q[p][i] = u
    /\ \A u \in Orders : at[u] \in Prices \cup {Nil}
                           /\ (at[u] = Nil => before[u] = Null /\ after[u] = Null)

\* The invariant that every step keeps.
TreeInv ==
    /\ IsFiniteSet(limits)
    /\ \E B : IsTree(tree, limits, B)
    /\ Clean(tree, limits)

\* The types of the lists' pointers.
ListTypes(head, tail, before, after, at) ==
    /\ head \in [Prices -> Orders \cup {Null}] /\ tail \in [Prices -> Orders \cup {Null}]
    /\ before \in [Orders -> Orders \cup {Null}] /\ after \in [Orders -> Orders \cup {Null}]
    /\ at \in [Orders -> Prices \cup {Nil}]

ListInv ==
    /\ ListTypes(order_head, order_tail, prev, next, price)
    /\ \E Q : /\ Linked(order_head, order_tail, prev, next, price, Q)
              /\ limits = {p \in Prices : Q[p] # << >>}

BestInv == side \in {"Sell", "Buy"} /\ Abstract!IsBest(limits, best)

Inv == TreeInv /\ ListInv /\ BestInv

-----------------------------------------------------------------------------
(* Trees                                                                   *)

\* Nil is no price, and prices are numbers.
LEMMA NilProperties == Nil \notin Prices /\ \A p \in Prices : p \in Nat
  BY TreePricesAssumption DEF Nil

\* The parts of IsTree at a node.
LEMMA NodeProperties ==
    ASSUME NEW t, NEW N, NEW B, IsTree(t, N, B), NEW p \in N
    PROVE  /\ p \in Prices /\ p \in Nat /\ p # Nil
           /\ t.parent[p] \in N \cup {Nil}
           /\ t.left[p] \in N \cup {Nil} /\ t.right[p] \in N \cup {Nil}
           /\ p \in B[p] /\ B[p] \subseteq N
           /\ B[p] = {p} \cup B[t.left[p]] \cup B[t.right[p]]
           /\ \A q \in B[t.left[p]] : q < p /\ q \in N
           /\ \A q \in B[t.right[p]] : p < q /\ q \in N
           /\ p \notin B[t.left[p]] /\ p \notin B[t.right[p]]
           /\ t.left[p] # p /\ t.right[p] # p
<1>1. p \in Prices /\ p \in Nat /\ p # Nil
  BY NilProperties DEF IsTree
<1>2. t.parent[p] \in N \cup {Nil} /\ t.left[p] \in N \cup {Nil} /\ t.right[p] \in N \cup {Nil}
  BY DEF IsTree, Closed
<1>3. B[p] = {p} \cup B[t.left[p]] \cup B[t.right[p]] /\ \A x \in N \cup {Nil} : B[x] \subseteq N
  BY DEF IsTree, Branches
<1>4. /\ \A q \in B[t.left[p]] : q < p /\ q \in N
      /\ \A q \in B[t.right[p]] : p < q /\ q \in N
  BY <1>2, <1>3 DEF IsTree, Sorted
<1>5. p \notin B[t.left[p]] /\ p \notin B[t.right[p]]
  BY <1>1, <1>4
<1>6. p \in B[p]
  BY <1>3
<1>7. t.left[p] # p /\ t.right[p] # p
  BY <1>5, <1>6
<1> QED
  BY <1>1, <1>2, <1>3, <1>4, <1>5, <1>6, <1>7

\* A branch is larger than the two below it.
LEMMA BranchShrinks ==
    ASSUME NEW t, NEW N, NEW B, IsTree(t, N, B), IsFiniteSet(N), NEW p \in N,
           NEW c \in {t.left[p], t.right[p]}, c # Nil
    PROVE  /\ c \in N /\ Cardinality(B[c]) \in Nat /\ Cardinality(B[p]) \in Nat
           /\ Cardinality(B[c]) < Cardinality(B[p])
<1>1. c \in N /\ B[p] \subseteq N /\ B[c] \subseteq B[p] /\ p \in B[p] /\ p \notin B[c]
  BY NodeProperties
<1>2. IsFiniteSet(B[p])
  BY <1>1, FS_Subset
<1>3. IsFiniteSet(B[c]) /\ Cardinality(B[c]) <= Cardinality(B[p])
      /\ (Cardinality(B[c]) = Cardinality(B[p]) => B[c] = B[p])
  BY <1>1, <1>2, FS_Subset
<1>4. Cardinality(B[c]) \in Nat /\ Cardinality(B[p]) \in Nat
  BY <1>2, <1>3, FS_CardinalityType
<1> QED
  BY <1>1, <1>3, <1>4

\* Induction from the children of a node to the node.
LEMMA TreeInduction ==
    ASSUME NEW t, NEW N, NEW B, IsTree(t, N, B), IsFiniteSet(N), NEW T,
           \A p \in N : /\ t.left[p] # Nil => t.left[p] \in T
                        /\ t.right[p] # Nil => t.right[p] \in T
                        => p \in T
    PROVE  N \subseteq T
<1> DEFINE U == N \ T
           sizes == {Cardinality(B[p]) : p \in U}
<1> SUFFICES ASSUME U # {} PROVE FALSE
  OBVIOUS
<1>1. \A p \in N : IsFiniteSet(B[p])
  BY NodeProperties, FS_Subset
<1>2. sizes \subseteq Nat /\ sizes # {}
  BY <1>1, FS_CardinalityType
<1>3. PICK n \in sizes : \A m \in sizes : n <= m
  BY <1>2, LeastNumber
<1>4. PICK p \in U : n = Cardinality(B[p])
  OBVIOUS
<1>5. ASSUME NEW c \in {t.left[p], t.right[p]}, c # Nil PROVE c \in T
  <2>1. c \in N /\ Cardinality(B[c]) \in Nat /\ Cardinality(B[p]) \in Nat
        /\ Cardinality(B[c]) < Cardinality(B[p])
    BY <1>5, BranchShrinks
  <2>2. c \in U => n <= Cardinality(B[c])
    BY <1>3
  <2> QED
    BY <2>1, <2>2, <1>4
<1> QED
  BY <1>5

\* What is under a node has all of its branch there.
LEMMA BranchesNest ==
    ASSUME NEW t, NEW N, NEW B, IsTree(t, N, B), IsFiniteSet(N)
    PROVE  \A p \in N : \A q \in B[p] : q \in N /\ B[q] \subseteq B[p]
<1> DEFINE T == {p \in N : \A q \in B[p] : B[q] \subseteq B[p]}
<1>1. ASSUME NEW p \in N, t.left[p] # Nil => t.left[p] \in T, t.right[p] # Nil => t.right[p] \in T
      PROVE  p \in T
  <2>1. /\ B[p] = {p} \cup B[t.left[p]] \cup B[t.right[p]]
        /\ t.left[p] \in N \cup {Nil} /\ t.right[p] \in N \cup {Nil}
    BY NodeProperties
  <2>2. B[Nil] = {}
    BY DEF IsTree, Branches
  <2> SUFFICES ASSUME NEW q \in B[p] PROVE B[q] \subseteq B[p]
    OBVIOUS
  <2>3. CASE q = p
    BY <2>3
  <2>4. CASE q \in B[t.left[p]]
    BY <2>1, <2>2, <2>4, <1>1
  <2>5. CASE q \in B[t.right[p]]
    BY <2>1, <2>2, <2>5, <1>1
  <2> QED
    BY <2>1, <2>3, <2>4, <2>5
<1> HIDE DEF T
<1>2. N \subseteq T
  BY <1>1, TreeInduction
<1>3. \A p \in N : B[p] \subseteq N
  BY NodeProperties
<1> QED
  BY <1>2, <1>3 DEF T

\* A node that is not in a branch is on the same side of every node that is.
LEMMA BranchesConvex ==
    ASSUME NEW t, NEW N, NEW B, IsTree(t, N, B), IsFiniteSet(N),
           NEW n \in N, NEW q \in N \ B[n], NEW x \in B[n], NEW y \in B[n]
    PROVE  q < x <=> q < y
<1> DEFINE T == {p \in N : n \in B[p] /\ q \in B[p] => (q < x <=> q < y)}
<1>1. ASSUME NEW p \in N, t.left[p] # Nil => t.left[p] \in T, t.right[p] # Nil => t.right[p] \in T
      PROVE  p \in T
  <2> SUFFICES ASSUME n \in B[p], q \in B[p] PROVE q < x <=> q < y
    OBVIOUS
  <2> DEFINE l == t.left[p]
             r == t.right[p]
  <2>1. /\ B[p] = {p} \cup B[l] \cup B[r]
        /\ l \in N \cup {Nil} /\ r \in N \cup {Nil}
        /\ (\A z \in B[l] : z < p) /\ (\A z \in B[r] : p < z)
    BY NodeProperties
  <2>2. B[Nil] = {}
    BY DEF IsTree, Branches
  <2>3. x \in N /\ y \in N /\ x \in Nat /\ y \in Nat /\ q \in Nat /\ p \in Nat
    BY BranchesNest, NodeProperties
  <2>4. n # p
    OBVIOUS
  <2>5. CASE n \in B[l]
    <3>1. x \in B[l] /\ y \in B[l]
      BY <2>1, <2>2, <2>5, BranchesNest
    <3>2. CASE q \in B[l]
      BY <2>1, <2>2, <2>5, <3>2, <1>1
    <3>3. CASE q = p \/ q \in B[r]
      BY <2>1, <2>3, <3>1, <3>3
    <3> QED
      BY <2>1, <3>2, <3>3
  <2>6. CASE n \in B[r]
    <3>1. x \in B[r] /\ y \in B[r]
      BY <2>1, <2>2, <2>6, BranchesNest
    <3>2. CASE q \in B[r]
      BY <2>1, <2>2, <2>6, <3>2, <1>1
    <3>3. CASE q = p \/ q \in B[l]
      BY <2>1, <2>3, <3>1, <3>3
    <3> QED
      BY <2>1, <3>2, <3>3
  <2> QED
    BY <2>1, <2>4, <2>5, <2>6
<1> HIDE DEF T
<1>2. N \subseteq T
  BY <1>1, TreeInduction
<1>3. t.root \in N /\ B[t.root] = N
  BY DEF IsTree, Closed, Branches
<1> QED
  BY <1>2, <1>3 DEF T

-----------------------------------------------------------------------------
(* Walks                                                                   *)

\* The nodes that a walk along down passes when it starts at p.
Passed(down, p) ==
    {e \in Prices : \A S \in SUBSET Prices :
        p \in S /\ (\A x \in S : down[x] # Nil => down[x] \in S) => e \in S}

\* A walk goes on from where its first step leads.
LEMMA PassedStep ==
    ASSUME NEW down \in [Prices -> Prices \cup {Nil}], NEW p \in Prices
    PROVE  Passed(down, p) = {p} \cup (IF down[p] = Nil THEN {} ELSE Passed(down, down[p]))
<1>1. p \in Passed(down, p)
  BY DEF Passed
<1>2. CASE down[p] = Nil
  <2>1. {p} \in SUBSET Prices /\ \A x \in {p} : down[x] # Nil => down[x] \in {p}
    BY <1>2
  <2> QED
    BY <1>1, <1>2, <2>1 DEF Passed
<1>3. CASE down[p] # Nil
  <2>1. down[p] \in Prices
    BY <1>3
  <2>2. ASSUME NEW e \in Passed(down, down[p]) PROVE e \in Passed(down, p)
    <3> SUFFICES ASSUME NEW S \in SUBSET Prices, p \in S,
                        \A x \in S : down[x] # Nil => down[x] \in S
                 PROVE  e \in S
      BY DEF Passed
    <3>1. down[p] \in S
      BY <1>3
    <3> QED
      BY <3>1 DEF Passed
  <2>3. ASSUME NEW e \in Passed(down, p) PROVE e \in {p} \cup Passed(down, down[p])
    <3> DEFINE V == {p} \cup Passed(down, down[p])
    <3>1. V \in SUBSET Prices /\ p \in V
      BY DEF Passed
    <3>2. down[p] \in V
      BY <2>1 DEF Passed
    <3>3. ASSUME NEW x \in Passed(down, down[p]), down[x] # Nil PROVE down[x] \in V
      <4>1. x \in Prices /\ down[x] \in Prices
        BY <3>3 DEF Passed
      <4> SUFFICES ASSUME NEW S \in SUBSET Prices, down[p] \in S,
                          \A y \in S : down[y] # Nil => down[y] \in S
                   PROVE  down[x] \in S
        BY <4>1 DEF Passed
      <4>2. x \in S
        BY DEF Passed
      <4> QED
        BY <4>2, <3>3
    <3>4. \A x \in V : down[x] # Nil => down[x] \in V
      BY <3>2, <3>3
    <3> HIDE DEF V
    <3>5. e \in V
      BY <3>1, <3>4 DEF Passed
    <3> QED
      BY <3>5 DEF V
  <2> QED
    BY <1>1, <1>3, <2>2, <2>3
<1> QED
  BY <1>2, <1>3

\* The recursive function behind WalkFrom.
IsWalk(down, w) == w = [p \in DOMAIN down |-> IF down[p] = Nil THEN p ELSE w[down[p]]]

\* What WalkFrom computes, a step at a time.  The function of its definition exists
\* whatever the pointers are: one that takes each node to an end of what it passes.
LEMMA WalkFromStep ==
    ASSUME NEW down \in [Prices -> Prices \cup {Nil}], NEW n \in Prices
    PROVE  WalkFrom(down, n) = IF down[n] = Nil THEN n ELSE WalkFrom(down, down[n])
<1> DEFINE ends(p) == {e \in Passed(down, p) : down[e] = Nil}
           w == [p \in Prices |-> CHOOSE e : e \in ends(p)]
<1>1. ASSUME NEW p \in Prices PROVE w[p] = IF down[p] = Nil THEN p ELSE w[down[p]]
  <2>1. CASE down[p] = Nil
    <3>1. ends(p) = {p}
      BY <2>1, PassedStep
    <3> QED
      BY <2>1, <3>1
  <2>2. CASE down[p] # Nil
    <3>1. ends(p) = ends(down[p]) /\ down[p] \in Prices
      BY <2>2, PassedStep
    <3> QED
      BY <2>2, <3>1
  <2> QED
    BY <2>1, <2>2
<1>2. IsWalk(down, w)
  <2>1. w = [p \in Prices |-> IF down[p] = Nil THEN p ELSE w[down[p]]]
    <3> DEFINE v == [p \in Prices |-> IF down[p] = Nil THEN p ELSE w[down[p]]]
    <3>1. \A p \in Prices : w[p] = v[p]
      BY <1>1, Zenon
    <3>2. w = [p \in Prices |-> w[p]] /\ v = [p \in Prices |-> v[p]]
      OBVIOUS
    <3> HIDE DEF w, v
    <3>3. w = v
      BY <3>1, <3>2
    <3> QED
      BY <3>3 DEF v
  <2>2. DOMAIN down = Prices
    OBVIOUS
  <2> QED
    BY <2>1, <2>2 DEF IsWalk
<1> HIDE DEF w
<1> DEFINE c == CHOOSE v : IsWalk(down, v)
<1>3. IsWalk(down, c)
  BY <1>2
<1>4. \A p : WalkFrom(down, p) = c[p]
  BY DEF WalkFrom, IsWalk
<1> HIDE DEF c
<1>5. c[n] = IF down[n] = Nil THEN n ELSE c[down[n]]
  BY <1>3 DEF IsWalk
<1> QED
  BY <1>4, <1>5

\* min finds the least node of a branch.
LEMMA LeftmostProperties ==
    ASSUME NEW t, NEW N, NEW B, IsTree(t, N, B), IsFiniteSet(N), NEW n \in N
    PROVE  /\ Leftmost(t, n) \in B[n] /\ t.left[Leftmost(t, n)] = Nil
           /\ \A x \in B[n] : Leftmost(t, n) <= x
<1> DEFINE T == {p \in N : /\ Leftmost(t, p) \in B[p] /\ t.left[Leftmost(t, p)] = Nil
                           /\ \A x \in B[p] : Leftmost(t, p) <= x}
<1>1. ASSUME NEW p \in N, t.left[p] # Nil => t.left[p] \in T, t.right[p] # Nil => t.right[p] \in T
      PROVE  p \in T
  <2> DEFINE l == t.left[p]
             m == Leftmost(t, p)
  <2>1. /\ p \in Nat /\ p \in Prices /\ l \in N \cup {Nil}
        /\ B[p] = {p} \cup B[l] \cup B[t.right[p]]
        /\ (\A z \in B[l] : z < p /\ z \in N) /\ (\A z \in B[t.right[p]] : p < z /\ z \in N)
    BY NodeProperties
  <2>2. t.left \in [Prices -> Prices \cup {Nil}]
    BY DEF IsTree, Pointers
  <2>3. B[Nil] = {}
    BY DEF IsTree, Branches
  <2>4. \A z \in N : z \in Nat
    BY NodeProperties
  <2>5. CASE l = Nil
    <3>1. m = p
      BY <2>1, <2>2, <2>5, WalkFromStep DEF Leftmost
    <3> HIDE DEF m
    <3>2. ASSUME NEW x \in B[p] PROVE p <= x
      <4>1. x = p \/ (x \in Nat /\ p < x)
        BY <2>1, <2>3, <2>4, <2>5
      <4> QED
        BY <2>1, <4>1
    <3>3. m \in B[p] /\ t.left[m] = Nil /\ \A x \in B[p] : m <= x
      BY <2>1, <2>5, <3>1, <3>2
    <3> QED
      BY <3>3 DEF m
  <2>6. CASE l # Nil
    <3>1. m = Leftmost(t, l)
      BY <2>1, <2>2, <2>6, WalkFromStep DEF Leftmost
    <3>2. Leftmost(t, l) \in B[l] /\ t.left[Leftmost(t, l)] = Nil
          /\ \A x \in B[l] : Leftmost(t, l) <= x
      BY <1>1, <2>6
    <3> HIDE DEF m
    <3>3. m \in B[p] /\ t.left[m] = Nil /\ m < p /\ m \in Nat
      BY <2>1, <2>4, <3>1, <3>2
    <3>4. ASSUME NEW x \in B[p] PROVE m <= x
      <4>1. m <= x \/ x = p \/ (x \in Nat /\ p < x)
        BY <2>1, <2>4, <3>1, <3>2
      <4> QED
        BY <2>1, <3>3, <4>1
    <3> QED
      BY <3>3, <3>4 DEF m
  <2> QED
    BY <2>5, <2>6
<1> HIDE DEF T
<1>2. N \subseteq T
  BY <1>1, TreeInduction
<1> QED
  BY <1>2 DEF T

\* max finds the greatest node of a branch.
LEMMA RightmostProperties ==
    ASSUME NEW t, NEW N, NEW B, IsTree(t, N, B), IsFiniteSet(N), NEW n \in N
    PROVE  /\ Rightmost(t, n) \in B[n] /\ t.right[Rightmost(t, n)] = Nil
           /\ \A x \in B[n] : x <= Rightmost(t, n)
<1> DEFINE T == {p \in N : /\ Rightmost(t, p) \in B[p] /\ t.right[Rightmost(t, p)] = Nil
                           /\ \A x \in B[p] : x <= Rightmost(t, p)}
<1>1. ASSUME NEW p \in N, t.left[p] # Nil => t.left[p] \in T, t.right[p] # Nil => t.right[p] \in T
      PROVE  p \in T
  <2> DEFINE r == t.right[p]
             m == Rightmost(t, p)
  <2>1. /\ p \in Nat /\ p \in Prices /\ r \in N \cup {Nil}
        /\ B[p] = {p} \cup B[t.left[p]] \cup B[r]
        /\ (\A z \in B[t.left[p]] : z < p /\ z \in N) /\ (\A z \in B[r] : p < z /\ z \in N)
    BY NodeProperties
  <2>2. t.right \in [Prices -> Prices \cup {Nil}]
    BY DEF IsTree, Pointers
  <2>3. B[Nil] = {}
    BY DEF IsTree, Branches
  <2>4. \A z \in N : z \in Nat
    BY NodeProperties
  <2>5. CASE r = Nil
    <3>1. m = p
      BY <2>1, <2>2, <2>5, WalkFromStep DEF Rightmost
    <3> HIDE DEF m
    <3>2. ASSUME NEW x \in B[p] PROVE x <= p
      <4>1. x = p \/ (x \in Nat /\ x < p)
        BY <2>1, <2>3, <2>4, <2>5
      <4> QED
        BY <2>1, <4>1
    <3>3. m \in B[p] /\ t.right[m] = Nil /\ \A x \in B[p] : x <= m
      BY <2>1, <2>5, <3>1, <3>2
    <3> QED
      BY <3>3 DEF m
  <2>6. CASE r # Nil
    <3>1. m = Rightmost(t, r)
      BY <2>1, <2>2, <2>6, WalkFromStep DEF Rightmost
    <3>2. Rightmost(t, r) \in B[r] /\ t.right[Rightmost(t, r)] = Nil
          /\ \A x \in B[r] : x <= Rightmost(t, r)
      BY <1>1, <2>6
    <3> HIDE DEF m
    <3>3. m \in B[p] /\ t.right[m] = Nil /\ p < m /\ m \in Nat
      BY <2>1, <2>4, <3>1, <3>2
    <3>4. ASSUME NEW x \in B[p] PROVE x <= m
      <4>1. x <= m \/ x = p \/ (x \in Nat /\ x < p)
        BY <2>1, <2>4, <3>1, <3>2
      <4> QED
        BY <2>1, <3>3, <4>1
    <3> QED
      BY <3>3, <3>4 DEF m
  <2> QED
    BY <2>5, <2>6
<1> HIDE DEF T
<1>2. N \subseteq T
  BY <1>1, TreeInduction
<1> QED
  BY <1>2 DEF T

\* The link from node p that a new node with key n goes along.
Down(t, n) == [p \in Prices |-> IF n < p THEN t.left[p] ELSE t.right[p]]

\* Key n belongs where node p is, as far as the nodes above p can tell.
Belongs(t, N, B, n, p) ==
    \A q \in N : (p \in B[t.left[q]] => n < q) /\ (p \in B[t.right[q]] => q < n)

\* The walk of insert ends at a node that has a free link for the new key, and every
\* node on the way has sent the key to the side that it belongs to.
LEMMA BottomProperties ==
    ASSUME NEW t, NEW N, NEW B, IsTree(t, N, B), IsFiniteSet(N), t.root # Nil,
           NEW n \in Prices \ N
    PROVE  /\ Bottom(t, n) \in N /\ Down(t, n)[Bottom(t, n)] = Nil
           /\ Belongs(t, N, B, n, Bottom(t, n))
<1> DEFINE D == Down(t, n)
           Sent(p, e) == \A q \in B[p] : (e \in B[t.left[q]] => n < q) /\ (e \in B[t.right[q]] => q < n)
           T == {p \in N : /\ WalkFrom(D, p) \in B[p] /\ D[WalkFrom(D, p)] = Nil
                           /\ Sent(p, WalkFrom(D, p))}
<1>0. /\ D \in [Prices -> Prices \cup {Nil}]
      /\ \A p \in Prices : D[p] = IF n < p THEN t.left[p] ELSE t.right[p]
  BY DEF IsTree, Pointers, Down
<1> HIDE DEF D
<1>1. ASSUME NEW p \in N, t.left[p] # Nil => t.left[p] \in T, t.right[p] # Nil => t.right[p] \in T
      PROVE  p \in T
  <2> DEFINE l == t.left[p]
             r == t.right[p]
             e == WalkFrom(D, p)
  <2>1. /\ p \in Nat /\ p \in Prices /\ l \in N \cup {Nil} /\ r \in N \cup {Nil}
        /\ B[p] = {p} \cup B[l] \cup B[r] /\ p \notin B[l] /\ p \notin B[r]
        /\ (\A z \in B[l] : z < p /\ z \in N) /\ (\A z \in B[r] : p < z /\ z \in N)
    BY NodeProperties
  <2>2. B[Nil] = {} /\ n \in Nat /\ n # p /\ \A z \in N : z \in Nat
    BY NodeProperties, NilProperties DEF IsTree, Branches
  <2>3. \A q \in N : \A z \in B[q] : /\ z \in N /\ B[z] \subseteq B[q]
                                     /\ B[t.left[z]] \subseteq B[z] /\ B[t.right[z]] \subseteq B[z]
    BY BranchesNest, NodeProperties
  <2>4. CASE D[p] = Nil
    <3>1. e = p
      BY <1>0, <2>1, <2>4, WalkFromStep
    <3>2. ASSUME NEW q \in B[p] PROVE p \notin B[t.left[q]] /\ p \notin B[t.right[q]]
      <4>1. CASE q = p
        BY <2>1, <4>1
      <4>2. CASE q \in B[l]
        BY <2>1, <2>2, <2>3, <4>2
      <4>3. CASE q \in B[r]
        BY <2>1, <2>2, <2>3, <4>3
      <4> QED
        BY <2>1, <4>1, <4>2, <4>3
    <3>3. Sent(p, p)
      BY <3>2
    <3> QED
      BY <2>1, <2>4, <3>1, <3>3
  <2>5. CASE D[p] # Nil
    <3>1. /\ e = WalkFrom(D, D[p])
          /\ D[p] = IF n < p THEN l ELSE r
          /\ D[p] \in N
      BY <1>0, <2>1, <2>5, WalkFromStep
    <3>2. WalkFrom(D, D[p]) \in B[D[p]] /\ D[WalkFrom(D, D[p])] = Nil
          /\ Sent(D[p], WalkFrom(D, D[p]))
      BY <1>1, <2>5, <3>1
    <3> HIDE DEF e
    <3>3. e \in B[D[p]] /\ D[e] = Nil /\ Sent(D[p], e)
      BY <3>1, <3>2
    <3>4. ASSUME NEW q \in B[p]
          PROVE  (e \in B[t.left[q]] => n < q) /\ (e \in B[t.right[q]] => q < n)
      <4>1. e \in N
        BY <3>1, <3>3, <2>3
      <4>2. CASE n < p
        <5>1. e \in B[l] /\ e \notin B[r] /\ e \in Nat
          BY <2>1, <2>2, <3>1, <3>3, <4>1, <4>2
        <5>2. CASE q = p
          BY <4>2, <5>1, <5>2
        <5>3. CASE q \in B[l]
          BY <3>1, <3>3, <4>2, <5>3
        <5>4. CASE q \in B[r]
          BY <2>1, <2>2, <2>3, <5>1, <5>4
        <5> QED
          BY <2>1, <5>2, <5>3, <5>4
      <4>3. CASE ~(n < p)
        <5>1. e \in B[r] /\ e \notin B[l] /\ e \in Nat /\ p < n
          BY <2>1, <2>2, <3>1, <3>3, <4>1, <4>3
        <5>2. CASE q = p
          BY <5>1, <5>2
        <5>3. CASE q \in B[r]
          BY <3>1, <3>3, <4>3, <5>3
        <5>4. CASE q \in B[l]
          BY <2>1, <2>2, <2>3, <5>1, <5>4
        <5> QED
          BY <2>1, <5>2, <5>3, <5>4
      <4> QED
        BY <4>2, <4>3
    <3>5. e \in B[p]
      BY <2>1, <3>1, <3>3
    <3>6. e \in B[p] /\ D[e] = Nil /\ Sent(p, e)
      BY <3>3, <3>4, <3>5
    <3> HIDE DEF Sent
    <3> QED
      BY <3>6 DEF e
  <2> QED
    BY <2>4, <2>5
<1> HIDE DEF T
<1>2. N \subseteq T
  BY <1>1, TreeInduction
<1>3. t.root \in N /\ B[t.root] = N
  BY DEF IsTree, Closed, Branches
<1>4. Bottom(t, n) = WalkFrom(D, t.root)
  BY DEF Bottom, D, Down
<1>5. t.root \in T
  BY <1>2, <1>3
<1>6. /\ WalkFrom(D, t.root) \in B[t.root] /\ D[WalkFrom(D, t.root)] = Nil
      /\ Sent(t.root, WalkFrom(D, t.root))
  BY <1>5 DEF T
<1> QED
  BY <1>3, <1>4, <1>6 DEF D, Belongs

-----------------------------------------------------------------------------
(* The moves of which insert and remove are made                           *)

\* A link to n leads to m now.
Instead(x, n, m) == IF x = n THEN m ELSE x

\* Node m, whose only child is c, or none, has been taken out of t.
IsCut(t, u, N, m, c) ==
    /\ u.root = Instead(t.root, m, c)
    /\ \A q \in N \ {m} : /\ u.left[q] = Instead(t.left[q], m, c)
                          /\ u.right[q] = Instead(t.right[q], m, c)
                          /\ u.parent[q] = IF q = c THEN t.parent[m] ELSE t.parent[q]

\* Links and parent pointers, once more: a node has one link to it, and none from itself.
LEMMA LinkProperties ==
    ASSUME NEW t, NEW N, NEW B, IsTree(t, N, B), NEW p \in N
    PROVE  /\ t.left[p] # Nil => t.left[p] \in N /\ t.parent[t.left[p]] = p
           /\ t.right[p] # Nil => t.right[p] \in N /\ t.parent[t.right[p]] = p
           /\ t.left[p] # Nil => t.left[p] # t.right[p]
           /\ t.parent[p] # p
           /\ IF p = t.root THEN t.parent[p] = Nil
              ELSE t.parent[p] \in N /\ p \in {t.left[t.parent[p]], t.right[t.parent[p]]}
           /\ t.left[p] # t.root \/ t.root = Nil
           /\ t.right[p] # t.root \/ t.root = Nil
<1>1. /\ t.left[p] # Nil => t.left[p] \in N /\ t.parent[t.left[p]] = p
      /\ t.right[p] # Nil => t.right[p] \in N /\ t.parent[t.right[p]] = p
  BY NodeProperties DEF IsTree, Parents
<1>2. IF p = t.root THEN t.parent[p] = Nil
      ELSE t.parent[p] \in N /\ p \in {t.left[t.parent[p]], t.right[t.parent[p]]}
  BY NodeProperties DEF IsTree, Parents
<1>3. t.left[p] # Nil => t.left[p] # t.right[p]
  <2> SUFFICES ASSUME t.left[p] # Nil, t.left[p] = t.right[p] PROVE FALSE
    OBVIOUS
  <2>1. t.left[p] \in N /\ t.left[p] \in B[t.left[p]]
    BY <1>1, NodeProperties
  <2>2. t.left[p] < p /\ p < t.left[p] /\ p \in Nat /\ t.left[p] \in Nat
    BY <2>1, NodeProperties
  <2> QED
    BY <2>2
<1>4. t.parent[p] # p
  <2>1. p # Nil /\ t.left[p] # p /\ t.right[p] # p
    BY NodeProperties
  <2> QED
    BY <2>1, <1>2
<1>5. (t.left[p] # t.root \/ t.root = Nil) /\ (t.right[p] # t.root \/ t.root = Nil)
  <2>1. p # Nil /\ (t.root # Nil => t.parent[t.root] = Nil)
    BY NodeProperties DEF IsTree, Parents
  <2> QED
    BY <2>1, <1>1
<1> QED
  BY <1>1, <1>2, <1>3, <1>4, <1>5

\* Taking a node with at most one child out of a tree leaves a tree.
LEMMA CutTree ==
    ASSUME NEW t, NEW N, NEW B, IsTree(t, N, B), NEW m \in N, NEW c, NEW u \in Pointers,
           (t.left[m] = Nil /\ c = t.right[m]) \/ (t.right[m] = Nil /\ c = t.left[m]),
           IsCut(t, u, N, m, c)
    PROVE  IsTree(u, N \ {m}, [q \in (N \ {m}) \cup {Nil} |-> B[q] \ {m}])
<1> DEFINE M == N \ {m}
           C == [q \in M \cup {Nil} |-> B[q] \ {m}]
<1>1. /\ m # Nil /\ c \in M \cup {Nil}
      /\ B[m] = {m} \cup B[c] /\ m \notin B[c] /\ B[Nil] = {}
      /\ t.root \in N \cup {Nil} /\ B[t.root] = N
  <2>1. B[Nil] = {} /\ t.root \in N \cup {Nil} /\ B[t.root] = N
    BY DEF IsTree, Branches, Closed
  <2> QED
    BY <2>1, NodeProperties
<1>2. /\ u.root = Instead(t.root, m, c)
      /\ \A q \in M : /\ u.left[q] = Instead(t.left[q], m, c)
                      /\ u.right[q] = Instead(t.right[q], m, c)
                      /\ u.parent[q] = IF q = c THEN t.parent[m] ELSE t.parent[q]
  BY DEF IsCut
<1>3. c # Nil => c \in N /\ t.parent[c] = m
  BY LinkProperties
<1>4. ASSUME NEW q \in M
      PROVE  /\ q # Nil /\ t.left[q] \in N \cup {Nil} /\ t.right[q] \in N \cup {Nil}
             /\ t.left[q] # Nil => t.parent[t.left[q]] = q
             /\ t.right[q] # Nil => t.parent[t.right[q]] = q
             /\ IF q = t.root THEN t.parent[q] = Nil
                ELSE t.parent[q] \in N /\ q \in {t.left[t.parent[q]], t.right[t.parent[q]]}
  BY NodeProperties, LinkProperties
<1>5. IF m = t.root THEN t.parent[m] = Nil
      ELSE t.parent[m] \in M /\ m \in {t.left[t.parent[m]], t.right[t.parent[m]]}
  BY LinkProperties
<1>6. \A q \in M : t.parent[q] = m => q = c
  <2>1. \A q \in M : t.parent[q] = m => q \in {t.left[m], t.right[m]} /\ q # Nil
    BY <1>1, <1>4
  <2> QED
    BY <2>1
<1>7. \A x \in M \cup {Nil} : C[x] = B[x] \ {m}
  OBVIOUS
<1>8. B \in [N \cup {Nil} -> SUBSET N]
  BY DEF IsTree, Branches
<1>9. C \in [M \cup {Nil} -> SUBSET M]
  BY <1>8
<1> HIDE DEF C
<1>10. \A x \in N \cup {Nil} : /\ Instead(x, m, c) \in M \cup {Nil}
                               /\ C[Instead(x, m, c)] = B[x] \ {m}
  BY <1>1, <1>7 DEF Instead
<1>11. Closed(u, M)
  <2>1. u.root \in M \cup {Nil}
    BY <1>1, <1>2, <1>10
  <2>2. ASSUME NEW q \in M PROVE {u.parent[q], u.left[q], u.right[q]} \subseteq M \cup {Nil}
    BY <1>2, <1>4, <1>5, <1>6, <1>10
  <2> QED
    BY <2>1, <2>2 DEF Closed
<1>12. Branches(u, M, C)
  <2>1. C[Nil] = {} /\ C[u.root] = M
    BY <1>1, <1>2, <1>7, <1>10
  <2>2. ASSUME NEW q \in M PROVE C[q] = {q} \cup C[u.left[q]] \cup C[u.right[q]]
    <3>1. B[q] = {q} \cup B[t.left[q]] \cup B[t.right[q]]
      BY NodeProperties
    <3>2. C[u.left[q]] = B[t.left[q]] \ {m} /\ C[u.right[q]] = B[t.right[q]] \ {m}
      BY <1>2, <1>4, <1>10
    <3> QED
      BY <3>1, <3>2, <1>7
  <2> QED
    BY <2>1, <2>2, <1>9 DEF Branches
<1>13. Sorted(u, M, C)
  <2> SUFFICES ASSUME NEW q \in M
               PROVE  (\A x \in C[u.left[q]] : x < q) /\ (\A x \in C[u.right[q]] : q < x)
    BY DEF Sorted
  <2>1. C[u.left[q]] = B[t.left[q]] \ {m} /\ C[u.right[q]] = B[t.right[q]] \ {m}
    BY <1>2, <1>4, <1>10
  <2> QED
    BY <2>1, NodeProperties
<1>14. Parents(u, M)
  <2>1. ASSUME u.root # Nil PROVE u.parent[u.root] = Nil
    <3>1. CASE t.root = m
      BY <2>1, <3>1, <1>1, <1>2, <1>3, <1>5 DEF Instead
    <3>2. CASE t.root # m
      <4>1. u.root = t.root /\ t.root \in M
        BY <2>1, <3>2, <1>1, <1>2 DEF Instead
      <4>2. t.parent[t.root] = Nil /\ t.root # c
        BY <4>1, <1>1, <1>3, <1>4
      <4> QED
        BY <4>1, <4>2, <1>2
    <3> QED
      BY <3>1, <3>2
  <2>2. ASSUME NEW q \in M, NEW x \in N, t.parent[x] = q, x = m => c # Nil
        PROVE  u.parent[Instead(x, m, c)] = q
    <3>1. CASE x = m
      BY <2>2, <3>1, <1>1, <1>2 DEF Instead
    <3>2. CASE x # m
      <4>1. x # Nil
        BY NodeProperties
      <4> QED
        BY <2>2, <3>2, <4>1, <1>1, <1>2, <1>3 DEF Instead
    <3> QED
      BY <3>1, <3>2
  <2>3. ASSUME NEW q \in M
        PROVE  /\ u.left[q] # Nil => u.parent[u.left[q]] = q
               /\ u.right[q] # Nil => u.parent[u.right[q]] = q
    <3>1. ASSUME u.left[q] # Nil PROVE u.parent[u.left[q]] = q
      <4>1. t.left[q] \in N /\ t.parent[t.left[q]] = q /\ (t.left[q] = m => c # Nil)
        BY <3>1, <1>1, <1>2, <1>4 DEF Instead
      <4> QED
        BY <4>1, <2>2, <1>2
    <3>2. ASSUME u.right[q] # Nil PROVE u.parent[u.right[q]] = q
      <4>1. t.right[q] \in N /\ t.parent[t.right[q]] = q /\ (t.right[q] = m => c # Nil)
        BY <3>2, <1>1, <1>2, <1>4 DEF Instead
      <4> QED
        BY <4>1, <2>2, <1>2
    <3> QED
      BY <3>1, <3>2
  <2>4. ASSUME NEW q \in M \ {u.root}
        PROVE  u.parent[q] \in M /\ q \in {u.left[u.parent[q]], u.right[u.parent[q]]}
    <3>1. CASE q = c
      <4>1. t.root # m
        BY <2>4, <3>1, <1>2 DEF Instead
      <4>2. u.parent[q] = t.parent[m] /\ t.parent[m] \in M
        BY <3>1, <4>1, <1>2, <1>5
      <4> QED
        BY <3>1, <4>1, <4>2, <1>2, <1>5 DEF Instead
    <3>2. CASE q # c
      <4>1. q # t.root
        BY <2>4, <3>2, <1>2 DEF Instead
      <4>2. u.parent[q] = t.parent[q] /\ t.parent[q] \in M
        BY <3>2, <4>1, <1>2, <1>4, <1>6
      <4> QED
        BY <3>2, <4>1, <4>2, <1>2, <1>4 DEF Instead
    <3> QED
      BY <3>1, <3>2
  <2> QED
    BY <2>1, <2>3, <2>4 DEF Parents
<1>15. M \subseteq Prices
  BY DEF IsTree
<1> QED
  BY <1>11, <1>12, <1>13, <1>14, <1>15 DEF IsTree, C

\* Node m has taken the place of node n of t.
IsSwap(t, u, N, n, m) ==
    /\ u.root = Instead(t.root, n, m)
    /\ u.left[m] = t.left[n] /\ u.right[m] = t.right[n] /\ u.parent[m] = t.parent[n]
    /\ \A q \in N \ {n} : /\ u.left[q] = Instead(t.left[q], n, m)
                          /\ u.right[q] = Instead(t.right[q], n, m)
                          /\ u.parent[q] = Instead(t.parent[q], n, m)

\* A node may take the place of its neighbour in the order.
LEMMA SwapTree ==
    ASSUME NEW t, NEW N, NEW B, IsTree(t, N, B), NEW n \in N, NEW m \in Prices \ N,
           \A q \in N \ {n} : q < m <=> q < n,
           NEW u \in Pointers, IsSwap(t, u, N, n, m)
    PROVE  \E C : IsTree(u, (N \ {n}) \cup {m}, C)
<1> DEFINE M == (N \ {n}) \cup {m}
           Renamed(S) == {Instead(x, n, m) : x \in S}
           C == [q \in M \cup {Nil} |-> Renamed(B[Instead(q, m, n)])]
<1>1. /\ n # Nil /\ m # Nil /\ m # n /\ m \in Nat /\ n \in Nat
      /\ t.root \in N \cup {Nil} /\ B[t.root] = N /\ B[Nil] = {}
      /\ B \in [N \cup {Nil} -> SUBSET N]
      /\ \A q \in N : q \in Nat /\ q # Nil
  BY NodeProperties, NilProperties DEF IsTree, Branches, Closed
<1>2. ASSUME NEW x \in N \cup {Nil}
      PROVE  /\ Instead(x, n, m) \in M \cup {Nil}
             /\ Instead(x, n, m) = Nil <=> x = Nil
             /\ Instead(Instead(x, n, m), m, n) = x
             /\ C[Instead(x, n, m)] = Renamed(B[x])
  BY <1>1 DEF Instead
<1>3. \A q \in M : Instead(q, m, n) \in N /\ Instead(Instead(q, m, n), n, m) = q
  BY <1>1 DEF Instead
<1>4. \A S \in SUBSET N : Renamed(S) \in SUBSET M
  BY DEF Instead
<1>5. Renamed({}) = {} /\ Renamed(N) = M
  BY DEF Instead
<1>6. C \in [M \cup {Nil} -> SUBSET M]
  <2>1. \A q \in M \cup {Nil} : Instead(q, m, n) \in N \cup {Nil}
    BY <1>1 DEF Instead
  <2> QED
    BY <2>1, <1>1, <1>4
<1> HIDE DEF C
\* Every pointer has been renamed.
<1>7. /\ u.root = Instead(t.root, n, m)
      /\ \A q \in N : /\ u.left[Instead(q, n, m)] = Instead(t.left[q], n, m)
                      /\ u.right[Instead(q, n, m)] = Instead(t.right[q], n, m)
                      /\ u.parent[Instead(q, n, m)] = Instead(t.parent[q], n, m)
  <2>1. t.left[n] # n /\ t.right[n] # n /\ t.parent[n] # n
    BY NodeProperties, LinkProperties
  <2> QED
    BY <2>1 DEF IsSwap, Instead
<1>8. ASSUME NEW q \in N
      PROVE  /\ t.left[q] \in N \cup {Nil} /\ t.right[q] \in N \cup {Nil}
             /\ t.parent[q] \in N \cup {Nil}
             /\ t.left[q] # Nil => t.parent[t.left[q]] = q
             /\ t.right[q] # Nil => t.parent[t.right[q]] = q
             /\ IF q = t.root THEN t.parent[q] = Nil
                ELSE t.parent[q] \in N /\ q \in {t.left[t.parent[q]], t.right[t.parent[q]]}
  BY NodeProperties, LinkProperties
<1>9. Closed(u, M)
  <2>1. u.root \in M \cup {Nil}
    <3>1. \A x \in N \cup {Nil} : Instead(x, n, m) \in M \cup {Nil}
      BY <1>2
    <3>2. u.root = Instead(t.root, n, m) /\ t.root \in N \cup {Nil}
      BY <1>1, <1>7
    <3> QED
      BY <3>1, <3>2
  <2>2. ASSUME NEW p \in M PROVE {u.parent[p], u.left[p], u.right[p]} \subseteq M \cup {Nil}
    <3>1. PICK q \in N : p = Instead(q, n, m)
      BY <1>3
    <3>2. /\ u.left[p] = Instead(t.left[q], n, m) /\ u.right[p] = Instead(t.right[q], n, m)
          /\ u.parent[p] = Instead(t.parent[q], n, m)
      BY <3>1, <1>7
    <3>3. \A x \in N \cup {Nil} : Instead(x, n, m) \in M \cup {Nil}
      BY <1>2
    <3>4. t.left[q] \in N \cup {Nil} /\ t.right[q] \in N \cup {Nil} /\ t.parent[q] \in N \cup {Nil}
      BY <1>8
    <3> QED
      BY <3>2, <3>3, <3>4
  <2> QED
    BY <2>1, <2>2 DEF Closed
<1>10. ASSUME NEW q \in N
       PROVE  LET p == Instead(q, n, m) IN
              /\ C[p] = Renamed(B[q])
              /\ C[u.left[p]] = Renamed(B[t.left[q]])
              /\ C[u.right[p]] = Renamed(B[t.right[q]])
  BY <1>2, <1>7, <1>8
<1>11. Branches(u, M, C)
  <2>1. C[Nil] = {} /\ C[u.root] = M
    <3>1. C[Instead(Nil, n, m)] = Renamed({}) /\ Instead(Nil, n, m) = Nil
      BY <1>1, <1>2 DEF Instead
    <3>2. C[u.root] = Renamed(N)
      BY <1>1, <1>2, <1>7
    <3> QED
      BY <3>1, <3>2, <1>5
  <2>2. ASSUME NEW p \in M PROVE C[p] = {p} \cup C[u.left[p]] \cup C[u.right[p]]
    <3>1. PICK q \in N : p = Instead(q, n, m)
      BY <1>3
    <3>2. B[q] = {q} \cup B[t.left[q]] \cup B[t.right[q]]
      BY NodeProperties
    <3>3. Renamed(B[q]) = {p} \cup Renamed(B[t.left[q]]) \cup Renamed(B[t.right[q]])
      BY <3>1, <3>2
    <3> QED
      BY <3>1, <3>3, <1>10
  <2> QED
    BY <2>1, <2>2, <1>6 DEF Branches
<1>12. Sorted(u, M, C)
  <2>1. ASSUME NEW x \in N, NEW q \in N, x < q PROVE Instead(x, n, m) < Instead(q, n, m)
    BY <2>1, <1>1 DEF Instead
  <2> SUFFICES ASSUME NEW p \in M
               PROVE  (\A y \in C[u.left[p]] : y < p) /\ (\A y \in C[u.right[p]] : p < y)
    BY DEF Sorted
  <2>2. PICK q \in N : p = Instead(q, n, m)
    BY <1>3
  <2>3. /\ C[u.left[p]] = Renamed(B[t.left[q]]) /\ C[u.right[p]] = Renamed(B[t.right[q]])
    BY <2>2, <1>10
  <2>4. /\ \A x \in B[t.left[q]] : x < q /\ x \in N
        /\ \A x \in B[t.right[q]] : q < x /\ x \in N
    BY NodeProperties
  <2> QED
    BY <2>1, <2>2, <2>3, <2>4
<1>13. Parents(u, M)
  <2>1. ASSUME u.root # Nil PROVE u.parent[u.root] = Nil
    <3>1. t.root \in N /\ t.parent[t.root] = Nil
      BY <2>1, <1>1, <1>2, <1>7, <1>8
    <3> QED
      BY <3>1, <1>1, <1>7 DEF Instead
  <2>2. ASSUME NEW p \in M
        PROVE  /\ u.left[p] # Nil => u.parent[u.left[p]] = p
               /\ u.right[p] # Nil => u.parent[u.right[p]] = p
    <3>1. PICK q \in N : p = Instead(q, n, m)
      BY <1>3
    <3>2. ASSUME u.left[p] # Nil PROVE u.parent[u.left[p]] = p
      <4>1. t.left[q] \in N /\ t.parent[t.left[q]] = q
        BY <3>1, <3>2, <1>2, <1>7, <1>8
      <4> QED
        BY <3>1, <4>1, <1>7
    <3>3. ASSUME u.right[p] # Nil PROVE u.parent[u.right[p]] = p
      <4>1. t.right[q] \in N /\ t.parent[t.right[q]] = q
        BY <3>1, <3>3, <1>2, <1>7, <1>8
      <4> QED
        BY <3>1, <4>1, <1>7
    <3> QED
      BY <3>2, <3>3
  <2>3. ASSUME NEW p \in M \ {u.root}
        PROVE  u.parent[p] \in M /\ p \in {u.left[u.parent[p]], u.right[u.parent[p]]}
    <3>1. PICK q \in N : p = Instead(q, n, m)
      BY <1>3
    <3>2. t.parent[q] \in N /\ q \in {t.left[t.parent[q]], t.right[t.parent[q]]}
      BY <2>3, <3>1, <1>7, <1>8
    <3>3. u.parent[p] = Instead(t.parent[q], n, m)
      BY <3>1, <1>7
    <3>4. /\ u.left[u.parent[p]] = Instead(t.left[t.parent[q]], n, m)
          /\ u.right[u.parent[p]] = Instead(t.right[t.parent[q]], n, m)
      BY <3>2, <3>3, <1>7
    <3>5. u.parent[p] \in M
      BY <3>2, <3>3, <1>1 DEF Instead
    <3> QED
      BY <3>1, <3>2, <3>4, <3>5
  <2> QED
    BY <2>1, <2>2, <2>3 DEF Parents
<1>14. M \subseteq Prices
  BY DEF IsTree
<1>15. IsTree(u, M, C)
  BY <1>9, <1>11, <1>12, <1>13, <1>14 DEF IsTree
<1> QED
  BY <1>15

\* Node n has been added to t under node p.
IsGrown(t, u, N, n, p) ==
    /\ u.root = t.root
    /\ u.parent[n] = p /\ u.left[n] = Nil /\ u.right[n] = Nil
    /\ \A q \in N : /\ u.parent[q] = t.parent[q]
                    /\ u.left[q] = IF q = p /\ n < p THEN n ELSE t.left[q]
                    /\ u.right[q] = IF q = p /\ ~(n < p) THEN n ELSE t.right[q]

\* A node that is added where its key belongs makes a larger tree.
LEMMA GrowTree ==
    ASSUME NEW t, NEW N, NEW B, IsTree(t, N, B), NEW n \in Prices \ N, NEW p \in N,
           Down(t, n)[p] = Nil, Belongs(t, N, B, n, p),
           NEW u \in Pointers, IsGrown(t, u, N, n, p)
    PROVE  \E C : IsTree(u, N \cup {n}, C)
<1> DEFINE M == N \cup {n}
           C == [q \in M \cup {Nil} |-> IF q = n THEN {n}
                                     ELSE B[q] \cup (IF p \in B[q] THEN {n} ELSE {})]
<1>1. /\ n # Nil /\ p # Nil /\ n # p /\ n \in Nat /\ p \in Nat
      /\ t.root \in N \cup {Nil} /\ B[t.root] = N /\ B[Nil] = {}
      /\ B \in [N \cup {Nil} -> SUBSET N]
      /\ \A q \in N : q \in Nat /\ q # Nil /\ q # n
  BY NodeProperties, NilProperties DEF IsTree, Branches, Closed
<1>2. /\ u.root = t.root
      /\ u.parent[n] = p /\ u.left[n] = Nil /\ u.right[n] = Nil
      /\ \A q \in N : /\ u.parent[q] = t.parent[q]
                      /\ u.left[q] = IF q = p /\ n < p THEN n ELSE t.left[q]
                      /\ u.right[q] = IF q = p /\ ~(n < p) THEN n ELSE t.right[q]
  BY DEF IsGrown
<1>3. IF n < p THEN t.left[p] = Nil ELSE t.right[p] = Nil
  BY DEF Down, IsTree
<1>4. ASSUME NEW q \in N
      PROVE  /\ t.left[q] \in N \cup {Nil} /\ t.right[q] \in N \cup {Nil}
             /\ t.parent[q] \in N \cup {Nil}
             /\ B[q] = {q} \cup B[t.left[q]] \cup B[t.right[q]] /\ q \in B[q]
             /\ q \notin B[t.left[q]] /\ q \notin B[t.right[q]]
             /\ t.left[q] # Nil => t.parent[t.left[q]] = q
             /\ t.right[q] # Nil => t.parent[t.right[q]] = q
             /\ IF q = t.root THEN t.parent[q] = Nil
                ELSE t.parent[q] \in N /\ q \in {t.left[t.parent[q]], t.right[t.parent[q]]}
  BY NodeProperties, LinkProperties
<1>5. /\ C[n] = {n} /\ C[Nil] = {}
      /\ \A q \in N \cup {Nil} : C[q] = B[q] \cup (IF p \in B[q] THEN {n} ELSE {})
  BY <1>1
<1>6. C \in [M \cup {Nil} -> SUBSET M]
  BY <1>1
<1> HIDE DEF C
<1>7. Closed(u, M)
  BY <1>1, <1>2, <1>4 DEF Closed
<1>8. Branches(u, M, C)
  <2>1. C[Nil] = {} /\ C[u.root] = M
    BY <1>1, <1>2, <1>5
  <2>2. ASSUME NEW q \in N PROVE C[q] = {q} \cup C[u.left[q]] \cup C[u.right[q]]
    <3>1. CASE q = p
      <4>1. C[p] = B[p] \cup {n}
        BY <1>4, <1>5
      <4>2. CASE n < p
        <5>1. u.left[p] = n /\ u.right[p] = t.right[p] /\ t.left[p] = Nil
          BY <1>2, <1>3, <4>2
        <5>2. C[t.right[p]] = B[t.right[p]]
          <6>1. t.right[p] \in N \cup {Nil} /\ p \notin B[t.right[p]]
            BY <1>4
          <6>2. C[t.right[p]] = B[t.right[p]] \cup {}
            BY <6>1, <1>5
          <6> QED
            BY <6>2
        <5> QED
          BY <3>1, <4>1, <5>1, <5>2, <1>1, <1>4, <1>5
      <4>3. CASE ~(n < p)
        <5>1. u.right[p] = n /\ u.left[p] = t.left[p] /\ t.right[p] = Nil
          BY <1>2, <1>3, <4>3
        <5>2. C[t.left[p]] = B[t.left[p]]
          <6>1. t.left[p] \in N \cup {Nil} /\ p \notin B[t.left[p]]
            BY <1>4
          <6>2. C[t.left[p]] = B[t.left[p]] \cup {}
            BY <6>1, <1>5
          <6> QED
            BY <6>2
        <5> QED
          BY <3>1, <4>1, <5>1, <5>2, <1>1, <1>4, <1>5
      <4> QED
        BY <4>2, <4>3
    <3>2. CASE q # p
      <4>1. u.left[q] = t.left[q] /\ u.right[q] = t.right[q]
        BY <3>2, <1>2
      <4> DEFINE L == B[t.left[q]]
                 R == B[t.right[q]]
      <4>2. /\ C[t.left[q]] = L \cup (IF p \in L THEN {n} ELSE {})
            /\ C[t.right[q]] = R \cup (IF p \in R THEN {n} ELSE {})
            /\ C[q] = B[q] \cup (IF p \in B[q] THEN {n} ELSE {})
        BY <1>4, <1>5
      <4>3. B[q] = {q} \cup L \cup R
        BY <1>4
      <4> HIDE DEF L, R
      <4>4. CASE p \in L
        BY <4>1, <4>2, <4>3, <4>4
      <4>5. CASE p \notin L
        BY <4>1, <4>2, <4>3, <4>5, <3>2
      <4> QED
        BY <4>4, <4>5
    <3> QED
      BY <3>1, <3>2
  <2>3. C[n] = {n} \cup C[u.left[n]] \cup C[u.right[n]]
    BY <1>2, <1>5
  <2> QED
    BY <2>1, <2>2, <2>3, <1>6 DEF Branches
<1>9. Sorted(u, M, C)
  <2>1. ASSUME NEW q \in N
        PROVE  (\A x \in C[u.left[q]] : x < q) /\ (\A x \in C[u.right[q]] : q < x)
    <3>1. /\ \A x \in B[t.left[q]] : x < q
          /\ \A x \in B[t.right[q]] : q < x
      BY NodeProperties
    <3>2. (p \in B[t.left[q]] => n < q) /\ (p \in B[t.right[q]] => q < n)
      BY DEF Belongs
    <3>3. /\ \A x \in C[t.left[q]] : x < q
          /\ \A x \in C[t.right[q]] : q < x
      <4>1. t.left[q] \in N \cup {Nil} /\ t.right[q] \in N \cup {Nil}
        BY <1>4
      <4>2. \A x \in C[t.left[q]] : x \in B[t.left[q]] \/ (x = n /\ p \in B[t.left[q]])
        BY <4>1, <1>5
      <4>3. \A x \in C[t.right[q]] : x \in B[t.right[q]] \/ (x = n /\ p \in B[t.right[q]])
        BY <4>1, <1>5
      <4> QED
        BY <4>2, <4>3, <3>1, <3>2
    <3>4. CASE q = p
      <4>1. n < p \/ p < n
        BY <1>1
      <4>2. u.left[q] = (IF n < p THEN n ELSE t.left[q]) /\ u.right[q] = (IF n < p THEN t.right[q] ELSE n)
        BY <3>4, <1>2
      <4> QED
        BY <3>3, <3>4, <4>1, <4>2, <1>1, <1>5
    <3>5. CASE q # p
      BY <3>3, <3>5, <1>2
    <3> QED
      BY <3>4, <3>5
  <2>2. C[u.left[n]] = {} /\ C[u.right[n]] = {}
    BY <1>2, <1>5
  <2> QED
    BY <2>1, <2>2 DEF Sorted
<1>10. Parents(u, M)
  <2>1. u.root # Nil => u.parent[u.root] = Nil
    <3> SUFFICES ASSUME t.root # Nil PROVE u.parent[t.root] = Nil
      BY <1>2
    <3>1. t.root \in N
      BY <1>1
    <3>2. t.parent[t.root] = Nil
      BY <3>1, <1>4
    <3> QED
      BY <3>1, <3>2, <1>2
  <2>2. ASSUME NEW q \in N
        PROVE  /\ u.left[q] # Nil => u.parent[u.left[q]] = q
               /\ u.right[q] # Nil => u.parent[u.right[q]] = q
    <3>1. \A x \in N : u.parent[x] = t.parent[x]
      BY <1>2
    <3>2. u.left[q] = n => q = p
      BY <1>1, <1>2, <1>4
    <3>3. u.right[q] = n => q = p
      BY <1>1, <1>2, <1>4
    <3>4. u.left[q] # n => u.left[q] = t.left[q]
      BY <1>2
    <3>5. u.right[q] # n => u.right[q] = t.right[q]
      BY <1>2
    <3> QED
      BY <3>1, <3>2, <3>3, <3>4, <3>5, <1>2, <1>4
  <2>3. ASSUME NEW q \in N \ {u.root}
        PROVE  u.parent[q] \in M /\ q \in {u.left[u.parent[q]], u.right[u.parent[q]]}
    <3> DEFINE r == t.parent[q]
    <3>1. r \in N /\ q \in {t.left[r], t.right[r]} /\ u.parent[q] = r
      BY <2>3, <1>2, <1>4
    <3>2. t.left[r] # Nil => u.left[r] = t.left[r]
      BY <3>1, <1>2, <1>3
    <3>3. t.right[r] # Nil => u.right[r] = t.right[r]
      BY <3>1, <1>2, <1>3
    <3> QED
      BY <3>1, <3>2, <3>3, <1>1
  <2>4. u.parent[n] \in M /\ n \in {u.left[u.parent[n]], u.right[u.parent[n]]}
    BY <1>2
  <2>5. u.left[n] = Nil /\ u.right[n] = Nil
    BY <1>2
  <2> QED
    BY <2>1, <2>2, <2>3, <2>4, <2>5 DEF Parents
<1>11. IsTree(u, M, C)
  <2>1. M \subseteq Prices
    BY DEF IsTree
  <2> QED
    BY <2>1, <1>7, <1>8, <1>9, <1>10 DEF IsTree
<1> QED
  BY <1>11

\* Assigning one pointer leaves the others as they were.
LEMMA SetRoot ==
    ASSUME NEW t \in Pointers, NEW x \in Prices \cup {Nil}, NEW u, u = [t EXCEPT !.root = x]
    PROVE  /\ u \in Pointers /\ u.root = x
           /\ u.left = t.left /\ u.right = t.right /\ u.parent = t.parent
BY DEF Pointers

LEMMA SetLeft ==
    ASSUME NEW t \in Pointers, NEW p \in Prices, NEW x \in Prices \cup {Nil},
           NEW u, u = [t EXCEPT !.left[p] = x]
    PROVE  /\ u \in Pointers /\ u.root = t.root /\ u.right = t.right /\ u.parent = t.parent
           /\ \A q \in Prices : u.left[q] = IF q = p THEN x ELSE t.left[q]
BY DEF Pointers

LEMMA SetRight ==
    ASSUME NEW t \in Pointers, NEW p \in Prices, NEW x \in Prices \cup {Nil},
           NEW u, u = [t EXCEPT !.right[p] = x]
    PROVE  /\ u \in Pointers /\ u.root = t.root /\ u.left = t.left /\ u.parent = t.parent
           /\ \A q \in Prices : u.right[q] = IF q = p THEN x ELSE t.right[q]
BY DEF Pointers

LEMMA SetParent ==
    ASSUME NEW t \in Pointers, NEW p \in Prices, NEW x \in Prices \cup {Nil},
           NEW u, u = [t EXCEPT !.parent[p] = x]
    PROVE  /\ u \in Pointers /\ u.root = t.root /\ u.left = t.left /\ u.right = t.right
           /\ \A q \in Prices : u.parent[q] = IF q = p THEN x ELSE t.parent[q]
BY DEF Pointers

\* insert: the tree has the new node, and nothing else changes.
LEMMA InsertTree ==
    ASSUME NEW t, NEW N, NEW B, IsTree(t, N, B), IsFiniteSet(N), Clean(t, N),
           NEW n \in Prices \ N
    PROVE  (\E C : IsTree(Insert(t, n), N \cup {n}, C)) /\ Clean(Insert(t, n), N \cup {n})
<1> DEFINE u == Insert(t, n)
           p == Bottom(t, n)
<1>1. /\ t \in Pointers /\ N \subseteq Prices /\ n \in Prices /\ n \in Nat /\ n # Nil
      /\ t.root \in N \cup {Nil} /\ B[t.root] = N /\ B[Nil] = {}
  BY NilProperties DEF IsTree, Branches, Closed
<1>2. t.left[n] = Nil /\ t.right[n] = Nil /\ t.parent[n] = Nil
  BY DEF Clean
<1>3. CASE t.root = Nil
  <2>1. N = {}
    BY <1>1, <1>3
  <2>2. /\ u \in Pointers /\ u.root = n
        /\ u.left = t.left /\ u.right = t.right /\ u.parent = t.parent
    BY <1>1, <1>3 DEF Insert, Pointers
  <2> HIDE DEF u
  <2> DEFINE C == [q \in {n, Nil} |-> IF q = n THEN {n} ELSE {}]
  <2>3. /\ C \in [{n} \cup {Nil} -> SUBSET {n}]
        /\ C[n] = {n} /\ C[Nil] = {}
    BY <1>1
  <2> HIDE DEF C
  <2>4. Closed(u, {n})
    BY <2>2, <1>2 DEF Closed
  <2>5. Branches(u, {n}, C)
    BY <2>2, <2>3, <1>2 DEF Branches
  <2>6. Sorted(u, {n}, C)
    BY <2>2, <2>3, <1>2 DEF Sorted
  <2>7. Parents(u, {n})
    BY <2>2, <1>2 DEF Parents
  <2>8. IsTree(u, {n}, C)
    BY <2>2, <2>4, <2>5, <2>6, <2>7, <1>1 DEF IsTree
  <2>9. Clean(u, {n})
    BY <2>1, <2>2 DEF Clean
  <2>10. N \cup {n} = {n}
    BY <2>1
  <2> QED
    BY <2>8, <2>9, <2>10 DEF u
<1>4. CASE t.root # Nil
  <2>1. p \in N /\ Down(t, n)[p] = Nil /\ Belongs(t, N, B, n, p)
    BY <1>4, BottomProperties
  <2>2. p \in Prices /\ p # n
    BY <2>1, <1>1
  <2> HIDE DEF p
  <2>3. CASE n < p
    <3>1. u = [t EXCEPT !.left[p] = n, !.parent[n] = p]
      BY <1>4, <2>3 DEF Insert, p
    <3>2. /\ u \in Pointers /\ u.root = t.root /\ u.right = t.right
          /\ \A q \in Prices : /\ u.left[q] = IF q = p THEN n ELSE t.left[q]
                               /\ u.parent[q] = IF q = n THEN p ELSE t.parent[q]
      <4> DEFINE v == [t EXCEPT !.left[p] = n]
      <4>1. u = [v EXCEPT !.parent[n] = p]
        BY <3>1
      <4>2. /\ v \in Pointers /\ v.root = t.root /\ v.right = t.right /\ v.parent = t.parent
            /\ \A q \in Prices : v.left[q] = IF q = p THEN n ELSE t.left[q]
        BY <1>1, <2>2, SetLeft
      <4> HIDE DEF v, u
      <4>3. /\ u \in Pointers /\ u.root = v.root /\ u.left = v.left /\ u.right = v.right
            /\ \A q \in Prices : u.parent[q] = IF q = n THEN p ELSE v.parent[q]
        BY <1>1, <2>2, <4>1, <4>2, SetParent
      <4> QED
        BY <4>2, <4>3
    <3> HIDE DEF u
    <3>3. IsGrown(t, u, N, n, p)
      BY <3>2, <2>1, <2>2, <2>3, <1>1, <1>2 DEF IsGrown, Pointers
    <3>4. \E C : IsTree(u, N \cup {n}, C)
      BY <3>2, <3>3, <2>1, GrowTree
    <3>5. Clean(u, N \cup {n})
      BY <3>2, <2>1, <1>1 DEF Clean, Pointers
    <3> QED
      BY <3>4, <3>5 DEF u
  <2>4. CASE ~(n < p)
    <3>1. u = [t EXCEPT !.right[p] = n, !.parent[n] = p]
      BY <1>4, <2>4 DEF Insert, p
    <3>2. /\ u \in Pointers /\ u.root = t.root /\ u.left = t.left
          /\ \A q \in Prices : /\ u.right[q] = IF q = p THEN n ELSE t.right[q]
                               /\ u.parent[q] = IF q = n THEN p ELSE t.parent[q]
      <4> DEFINE v == [t EXCEPT !.right[p] = n]
      <4>1. u = [v EXCEPT !.parent[n] = p]
        BY <3>1
      <4>2. /\ v \in Pointers /\ v.root = t.root /\ v.left = t.left /\ v.parent = t.parent
            /\ \A q \in Prices : v.right[q] = IF q = p THEN n ELSE t.right[q]
        BY <1>1, <2>2, SetRight
      <4> HIDE DEF v, u
      <4>3. /\ u \in Pointers /\ u.root = v.root /\ u.left = v.left /\ u.right = v.right
            /\ \A q \in Prices : u.parent[q] = IF q = n THEN p ELSE v.parent[q]
        BY <1>1, <2>2, <4>1, <4>2, SetParent
      <4> QED
        BY <4>2, <4>3
    <3> HIDE DEF u
    <3>3. IsGrown(t, u, N, n, p)
      BY <3>2, <2>1, <2>2, <2>4, <1>1, <1>2 DEF IsGrown, Pointers
    <3>4. \E C : IsTree(u, N \cup {n}, C)
      BY <3>2, <3>3, <2>1, GrowTree
    <3>5. Clean(u, N \cup {n})
      BY <3>2, <2>1, <1>1 DEF Clean, Pointers
    <3> QED
      BY <3>4, <3>5 DEF u
  <2> QED
    BY <2>3, <2>4
<1> QED
  BY <1>3, <1>4

\* One link leads to n, from the root or from n's parent.
OneLink(t, n) ==
    /\ \A q \in Prices : t.left[q] = n \/ t.right[q] = n
                           => t.root # n /\ t.parent[n] = q /\ t.left[q] # t.right[q]
    /\ t.root # n => /\ t.parent[n] \in Prices
                     /\ n \in {t.left[t.parent[n]], t.right[t.parent[n]]}

\* It is so for every node of a tree.
LEMMA TreeOneLink ==
    ASSUME NEW t, NEW N, NEW B, IsTree(t, N, B), Clean(t, N), NEW n \in N
    PROVE  OneLink(t, n)
<1>1. n \in Prices /\ n # Nil /\ N \subseteq Prices
  BY NodeProperties DEF IsTree
<1>2. ASSUME NEW q \in Prices, t.left[q] = n \/ t.right[q] = n
      PROVE  t.root # n /\ t.parent[n] = q /\ t.left[q] # t.right[q]
  <2>1. q \in N
    BY <1>1, <1>2 DEF Clean
  <2>2. /\ t.left[q] # Nil => t.parent[t.left[q]] = q
        /\ t.right[q] # Nil => t.parent[t.right[q]] = q
        /\ t.left[q] # Nil => t.left[q] # t.right[q]
        /\ t.left[q] # t.root \/ t.root = Nil
        /\ t.right[q] # t.root \/ t.root = Nil
    BY <2>1, LinkProperties
  <2> QED
    BY <2>2, <1>1, <1>2
<1>3. t.root # n => t.parent[n] \in Prices /\ n \in {t.left[t.parent[n]], t.right[t.parent[n]]}
  BY <1>1, LinkProperties
<1> QED
  BY <1>2, <1>3 DEF OneLink

\* Relink changes every link to n, and nothing else.
LEMMA RelinkFields ==
    ASSUME NEW t \in Pointers, NEW n \in Prices, NEW m \in Prices \cup {Nil}, OneLink(t, n),
           NEW u, u = Relink(t, n, m)
    PROVE  /\ u \in Pointers /\ u.root = Instead(t.root, n, m) /\ u.parent = t.parent
           /\ \A q \in Prices : /\ u.left[q] = Instead(t.left[q], n, m)
                                /\ u.right[q] = Instead(t.right[q], n, m)
<1> DEFINE p == t.parent[n]
<1>1. /\ \A q \in Prices : t.left[q] = n \/ t.right[q] = n
                             => t.root # n /\ p = q /\ t.left[q] # t.right[q]
      /\ t.root # n => p \in Prices /\ n \in {t.left[p], t.right[p]}
  BY DEF OneLink
<1>2. CASE t.root = n
  <2>1. u = [t EXCEPT !.root = m]
    BY <1>2 DEF Relink
  <2>2. /\ u \in Pointers /\ u.root = m
        /\ u.left = t.left /\ u.right = t.right /\ u.parent = t.parent
    BY <2>1, SetRoot
  <2> QED
    BY <1>1, <1>2, <2>2 DEF Instead
<1>3. CASE t.root # n /\ t.left[p] = n
  <2>1. u = [t EXCEPT !.left[p] = m]
    BY <1>3 DEF Relink
  <2> HIDE DEF p
  <2>2. /\ u \in Pointers /\ u.root = t.root /\ u.right = t.right /\ u.parent = t.parent
        /\ \A q \in Prices : u.left[q] = IF q = p THEN m ELSE t.left[q]
    BY <2>1, <1>1, <1>3, SetLeft
  <2> QED
    BY <1>1, <1>3, <2>2 DEF Instead
<1>4. CASE t.root # n /\ t.left[p] # n
  <2>1. u = [t EXCEPT !.right[p] = m]
    BY <1>4 DEF Relink
  <2> HIDE DEF p
  <2>2. /\ u \in Pointers /\ u.root = t.root /\ u.left = t.left /\ u.parent = t.parent
        /\ \A q \in Prices : u.right[q] = IF q = p THEN m ELSE t.right[q]
    BY <2>1, <1>1, <1>4, SetRight
  <2> QED
    BY <1>1, <1>4, <2>2 DEF Instead
<1> QED
  BY <1>2, <1>3, <1>4

\* remove leaves alone the pointers of node n and of the limits that do not exist.
Keeps(t, u, N, n) ==
    \A q \in (Prices \ N) \cup {n} :
        u.parent[q] = t.parent[q] /\ u.left[q] = t.left[q] /\ u.right[q] = t.right[q]

\* remove, of a node with one child or none.
LEMMA UnlinkedCut ==
    ASSUME NEW t, NEW N, NEW B, IsTree(t, N, B), Clean(t, N), NEW n \in N,
           t.left[n] = Nil \/ t.right[n] = Nil, NEW u, u = Unlinked(t, n)
    PROVE  /\ IsTree(u, N \ {n}, [q \in (N \ {n}) \cup {Nil} |-> B[q] \ {n}])
           /\ Keeps(t, u, N, n)
<1> DEFINE c == IF t.left[n] = Nil THEN t.right[n] ELSE t.left[n]
           v == IF c = Nil THEN t ELSE [t EXCEPT !.parent[c] = t.parent[n]]
<1>1. /\ t \in Pointers /\ n \in Prices /\ n # Nil /\ N \subseteq Prices
      /\ t.parent[n] \in N \cup {Nil} /\ t.left[n] \in N \cup {Nil} /\ t.right[n] \in N \cup {Nil}
      /\ t.left[n] # n /\ t.right[n] # n
  BY NodeProperties DEF IsTree
<1>2. u = Relink(v, n, c)
  BY DEF Unlinked, RemoveWithChild
<1>3. (t.left[n] = Nil /\ c = t.right[n]) \/ (t.right[n] = Nil /\ c = t.left[n])
  OBVIOUS
<1>4. c \in N \cup {Nil} /\ c # n /\ c \in Prices \cup {Nil}
  BY <1>1
<1> HIDE DEF c
<1>5. /\ v \in Pointers /\ v.root = t.root /\ v.left = t.left /\ v.right = t.right
      /\ \A q \in Prices : v.parent[q] = IF q = c THEN t.parent[n] ELSE t.parent[q]
  <2>1. CASE c = Nil
    BY <2>1, <1>1, NilProperties
  <2>2. CASE c # Nil
    <3> DEFINE x == t.parent[n]
    <3>1. c \in Prices /\ x \in Prices \cup {Nil} /\ t \in Pointers
      BY <2>2, <1>1, <1>4
    <3>2. v = [t EXCEPT !.parent[c] = x]
      BY <2>2
    <3> HIDE DEF v, x
    <3>3. /\ v \in Pointers /\ v.root = t.root /\ v.left = t.left /\ v.right = t.right
          /\ \A q \in Prices : v.parent[q] = IF q = c THEN x ELSE t.parent[q]
      BY <3>1, <3>2 DEF Pointers
    <3> QED
      BY <3>3 DEF x
  <2> QED
    BY <2>1, <2>2
<1> HIDE DEF v
<1>6. OneLink(v, n)
  <2>1. OneLink(t, n)
    BY TreeOneLink
  <2> QED
    BY <2>1, <1>1, <1>4, <1>5 DEF OneLink
<1>7. /\ u \in Pointers /\ u.root = Instead(v.root, n, c) /\ u.parent = v.parent
      /\ \A q \in Prices : /\ u.left[q] = Instead(v.left[q], n, c)
                           /\ u.right[q] = Instead(v.right[q], n, c)
  BY <1>1, <1>2, <1>4, <1>5, <1>6, RelinkFields
<1>8. IsCut(t, u, N, n, c)
  BY <1>1, <1>5, <1>7 DEF IsCut
<1>9. IsTree(u, N \ {n}, [q \in (N \ {n}) \cup {Nil} |-> B[q] \ {n}])
  BY <1>3, <1>7, <1>8, CutTree
<1>10. Keeps(t, u, N, n)
  <2>1. \A q \in (Prices \ N) \cup {n} : q \in Prices /\ q # c /\ t.left[q] # n /\ t.right[q] # n
    BY <1>1, <1>4, NilProperties DEF Clean
  <2> QED
    BY <2>1, <1>5, <1>7 DEF Keeps, Instead
<1> QED
  BY <1>9, <1>10

\* The least node m of the right branch of n is taken out and put in the place of n.
LEMMA MoveMinimum ==
    ASSUME NEW t, NEW N, NEW B, IsTree(t, N, B), IsFiniteSet(N), NEW n \in N,
           NEW m \in B[t.right[n]], \A x \in B[t.right[n]] : m <= x, t.left[m] = Nil,
           NEW v \in Pointers, IsCut(t, v, N, m, t.right[m]),
           NEW u \in Pointers, IsSwap(v, u, N \ {m}, n, m)
    PROVE  \E C : IsTree(u, N \ {n}, C)
<1> DEFINE l == t.left[n]
           r == t.right[n]
           M == N \ {m}
<1>1. /\ n \in Nat /\ m \in N /\ n < m /\ n # m
      /\ B[n] = {n} \cup B[l] \cup B[r] /\ \A x \in B[l] : x < n
  BY NodeProperties
<1>2. \A q \in N : q \in Nat /\ q \in Prices
  BY NodeProperties
<1>3. PICK C : IsTree(v, M, C)
  BY <1>1, CutTree
<1>4. ASSUME NEW q \in M \ {n} PROVE q < m <=> q < n
  <2>1. q < n => q < m
    BY <1>1, <1>2
  <2>2. CASE q \in B[r]
    BY <1>1, <1>2, <2>1, <2>2
  <2>3. CASE q \in B[l]
    BY <1>1, <2>1, <2>3
  <2>4. CASE q \notin B[n]
    <3>1. n \in B[n] /\ m \in B[n]
      BY <1>1
    <3> QED
      BY <2>4, <3>1, BranchesConvex
  <2> QED
    BY <1>1, <2>2, <2>3, <2>4
<1>5. n \in M /\ m \in Prices \ M
  BY <1>1, <1>2
<1>6. \E D : IsTree(u, (M \ {n}) \cup {m}, D)
  BY <1>3, <1>4, <1>5, SwapTree
<1>7. (M \ {n}) \cup {m} = N \ {n}
  BY <1>1
<1> QED
  BY <1>6, <1>7

\* remove, of a node with two branches whose right child has no left branch.
LEMMA UnlinkedByRight ==
    ASSUME NEW t, NEW N, NEW B, IsTree(t, N, B), IsFiniteSet(N), Clean(t, N), NEW n \in N,
           t.left[n] # Nil, t.right[n] # Nil, t.left[t.right[n]] = Nil,
           NEW u, u = RemoveByRight(t, n)
    PROVE  (\E C : IsTree(u, N \ {n}, C)) /\ Keeps(t, u, N, n)
<1> DEFINE l == t.left[n]
           r == t.right[n]
           c == t.right[r]
           w1 == [t EXCEPT !.parent[r] = t.parent[n]]
           w2 == [w1 EXCEPT !.left[r] = l]
           w  == [w2 EXCEPT !.parent[l] = r]
           v1 == [t EXCEPT !.right[n] = c]
           v  == IF c = Nil THEN v1 ELSE [v1 EXCEPT !.parent[c] = n]
<1>1. /\ t \in Pointers /\ N \subseteq Prices /\ n \in Prices /\ n # Nil
      /\ l \in N /\ r \in N /\ l # n /\ r # n /\ l # r
      /\ t.parent[n] \in Prices \cup {Nil} /\ t.parent[n] # n
      /\ t.parent[l] = n /\ t.parent[r] = n
  BY NodeProperties, LinkProperties DEF IsTree
<1>2. /\ c \in N \cup {Nil} /\ c # r /\ r # Nil /\ l # Nil
      /\ c # Nil => t.parent[c] = r
      /\ r \in B[r] /\ B[r] = {r} \cup B[t.left[r]] \cup B[c] /\ \A x \in B[c] : r < x
  BY <1>1, NodeProperties, LinkProperties
<1>3. c # n /\ c # l
  <2>1. c # l
    BY <1>1, <1>2
  <2>2. c # n
    <3>1. c # Nil => c \in B[c]
      BY <1>2, NodeProperties
    <3>2. n \notin B[r]
      BY NodeProperties
    <3> QED
      BY <1>1, <1>2, <3>1, <3>2
  <2> QED
    BY <2>1, <2>2
<1>4. u = Relink(w, n, r)
  BY DEF RemoveByRight
<1>5. /\ w1 \in Pointers /\ w1.root = t.root /\ w1.left = t.left /\ w1.right = t.right
      /\ \A q \in Prices : w1.parent[q] = IF q = r THEN t.parent[n] ELSE t.parent[q]
  BY <1>1, SetParent
<1>6. /\ v1 \in Pointers /\ v1.root = t.root /\ v1.left = t.left /\ v1.parent = t.parent
      /\ \A q \in Prices : v1.right[q] = IF q = n THEN c ELSE t.right[q]
  BY <1>1, <1>2, SetRight
<1> HIDE DEF w1, v1
<1>7. /\ w2 \in Pointers /\ w2.root = t.root /\ w2.parent = w1.parent /\ w2.right = t.right
      /\ \A q \in Prices : w2.left[q] = IF q = r THEN l ELSE t.left[q]
  BY <1>1, <1>5, SetLeft
<1>8. /\ v \in Pointers /\ v.root = t.root /\ v.left = t.left /\ v.right = v1.right
      /\ \A q \in Prices : v.parent[q] = IF q = c THEN n ELSE t.parent[q]
  <2>1. CASE c = Nil
    BY <2>1, <1>6, NilProperties
  <2>2. CASE c # Nil
    BY <2>2, <1>1, <1>2, <1>6, SetParent
  <2> QED
    BY <2>1, <2>2
<1> HIDE DEF w2, v
<1>9. /\ w \in Pointers /\ w.root = t.root /\ w.left = w2.left /\ w.right = t.right
      /\ \A q \in Prices : w.parent[q] = IF q = l THEN r ELSE w2.parent[q]
  BY <1>1, <1>7, SetParent
<1> HIDE DEF w
<1>10. OneLink(w, n)
  <2>1. OneLink(t, n)
    BY TreeOneLink
  <2>2. w.parent[n] = t.parent[n]
    BY <1>1, <1>5, <1>7, <1>9
  <2>3. \A q \in Prices : /\ w.right[q] = t.right[q]
                          /\ w.left[q] = n <=> t.left[q] = n
                          /\ q # r => w.left[q] = t.left[q]
    BY <1>1, <1>2, <1>7, <1>9
  <2>4. c # n
    BY <1>3
  <2> QED
    BY <2>1, <2>2, <2>3, <2>4, <1>1, <1>9 DEF OneLink
<1>11. /\ u \in Pointers /\ u.root = Instead(t.root, n, r) /\ u.parent = w.parent
       /\ \A q \in Prices : /\ u.left[q] = Instead(w.left[q], n, r)
                            /\ u.right[q] = Instead(w.right[q], n, r)
  BY <1>1, <1>4, <1>9, <1>10, RelinkFields
<1>12. IsCut(t, v, N, r, c)
  <2>1. OneLink(t, r)
    BY <1>1, TreeOneLink
  <2>2. t.root # r /\ t.left[n] # r /\ \A q \in Prices \ {n} : t.left[q] # r /\ t.right[q] # r
    BY <2>1, <1>1 DEF OneLink
  <2> QED
    BY <2>2, <1>1, <1>6, <1>8 DEF IsCut, Instead
<1>13. IsSwap(v, u, N \ {r}, n, r)
  <2>1. /\ u.root = Instead(v.root, n, r)
        /\ u.left[r] = v.left[n] /\ u.right[r] = v.right[n] /\ u.parent[r] = v.parent[n]
    BY <1>1, <1>2, <1>3, <1>5, <1>6, <1>7, <1>8, <1>9, <1>11 DEF Instead
  <2>2. ASSUME NEW q \in (N \ {r}) \ {n}
        PROVE  /\ u.left[q] = Instead(v.left[q], n, r) /\ u.right[q] = Instead(v.right[q], n, r)
               /\ u.parent[q] = Instead(v.parent[q], n, r)
    <3>1. u.left[q] = Instead(v.left[q], n, r) /\ u.right[q] = Instead(v.right[q], n, r)
      BY <1>1, <1>6, <1>7, <1>8, <1>9, <1>11
    <3>2. q \in Prices /\ u.parent[q] = IF q = l THEN r ELSE t.parent[q]
      BY <1>1, <1>5, <1>7, <1>9, <1>11
    <3>3. t.parent[q] = n => q = l
      <4>1. q # t.root => t.parent[q] \in N /\ q \in {t.left[t.parent[q]], t.right[t.parent[q]]}
        BY LinkProperties
      <4>2. q = t.root => t.parent[q] = Nil
        BY LinkProperties
      <4> QED
        BY <4>1, <4>2, <1>1
    <3>4. v.parent[q] = IF q = c THEN n ELSE t.parent[q]
      BY <1>8, <3>2
    <3>5. q = c => t.parent[q] = r /\ q # l
      BY <1>2, <1>3, <3>2, NilProperties
    <3>6. q = l => t.parent[q] = n
      BY <1>1
    <3> QED
      BY <3>1, <3>2, <3>3, <3>4, <3>5, <3>6 DEF Instead
  <2> QED
    BY <2>1, <2>2 DEF IsSwap
<1>14. \E C : IsTree(u, N \ {n}, C)
  <2>1. B[t.left[r]] = {}
    BY DEF IsTree, Branches
  <2>2. \A x \in B[c] : x \in Nat
    BY <1>2, NodeProperties, <1>1
  <2>3. r \in Nat
    BY <1>1, NodeProperties
  <2>4. r \in B[r] /\ \A x \in B[r] : r <= x
    BY <2>1, <2>2, <2>3, <1>2
  <2> HIDE DEF r, c
  <2>5. c = t.right[r] /\ r = t.right[n] /\ t.left[r] = Nil
    BY DEF r, c
  <2> QED
    BY <2>4, <2>5, <1>8, <1>11, <1>12, <1>13, MoveMinimum
<1>15. Keeps(t, u, N, n)
  <2>1. \A q \in (Prices \ N) \cup {n} : q \in Prices /\ q # l /\ q # r /\ t.left[q] # n /\ t.right[q] # n
    BY <1>1 DEF Clean
  <2> QED
    BY <2>1, <1>5, <1>7, <1>9, <1>11 DEF Keeps, Instead
<1> QED
  BY <1>14, <1>15

\* A branch has the parent of each of its nodes but the topmost.
LEMMA ParentsNest ==
    ASSUME NEW t, NEW N, NEW B, IsTree(t, N, B), IsFiniteSet(N)
    PROVE  \A p \in N : \A q \in B[p] \ {p} : t.parent[q] \in B[p]
<1> DEFINE T == {p \in N : \A q \in B[p] \ {p} : t.parent[q] \in B[p]}
<1>1. ASSUME NEW p \in N, t.left[p] # Nil => t.left[p] \in T, t.right[p] # Nil => t.right[p] \in T
      PROVE  p \in T
  <2>1. /\ B[p] = {p} \cup B[t.left[p]] \cup B[t.right[p]]
        /\ t.left[p] \in N \cup {Nil} /\ t.right[p] \in N \cup {Nil}
    BY NodeProperties
  <2>2. B[Nil] = {}
    BY DEF IsTree, Branches
  <2>3. /\ t.left[p] # Nil => t.parent[t.left[p]] = p
        /\ t.right[p] # Nil => t.parent[t.right[p]] = p
    BY LinkProperties
  <2> SUFFICES ASSUME NEW q \in B[p] \ {p} PROVE t.parent[q] \in B[p]
    OBVIOUS
  <2>4. CASE q \in B[t.left[p]]
    BY <1>1, <2>1, <2>2, <2>3, <2>4
  <2>5. CASE q \in B[t.right[p]]
    BY <1>1, <2>1, <2>2, <2>3, <2>5
  <2> QED
    BY <2>1, <2>4, <2>5
<1> HIDE DEF T
<1>2. N \subseteq T
  BY <1>1, TreeInduction
<1> QED
  BY <1>2 DEF T

\* remove, of a node with two branches whose right child has a left branch.
LEMMA UnlinkedByMinimum ==
    ASSUME NEW t, NEW N, NEW B, IsTree(t, N, B), IsFiniteSet(N), Clean(t, N), NEW n \in N,
           t.left[n] # Nil, t.right[n] # Nil, t.left[t.right[n]] # Nil,
           NEW u, u = RemoveByMinimum(t, n)
    PROVE  (\E C : IsTree(u, N \ {n}, C)) /\ Keeps(t, u, N, n)
<1> DEFINE l == t.left[n]
           r == t.right[n]
           m == Leftmost(t, r)
           p == t.parent[m]
           c == t.right[m]
           v1 == [t EXCEPT !.left[p] = c]
           v  == IF c = Nil THEN v1 ELSE [v1 EXCEPT !.parent[c] = p]
           w1 == [v EXCEPT !.parent[m] = t.parent[n]]
           w2 == [w1 EXCEPT !.left[m] = l]
           w3 == [w2 EXCEPT !.parent[l] = m]
           w4 == [w3 EXCEPT !.right[m] = r]
           w  == [w4 EXCEPT !.parent[r] = m]
<1>1. /\ t \in Pointers /\ N \subseteq Prices /\ n \in Prices /\ n # Nil
      /\ l \in N /\ r \in N /\ l # n /\ r # n /\ l # r /\ l # Nil /\ r # Nil
      /\ t.parent[n] \in Prices \cup {Nil} /\ t.parent[n] # n
      /\ t.parent[l] = n /\ t.parent[r] = n
      /\ n \notin B[r] /\ B[r] \subseteq N
  BY NodeProperties, LinkProperties DEF IsTree
<1>2. m \in B[r] /\ t.left[m] = Nil /\ \A x \in B[r] : m <= x
  BY <1>1, LeftmostProperties
<1>3. u = Relink(w, n, m)
  <2>1. v = CutMinimum(t, m)
    <3> HIDE DEF m
    <3> QED
      BY DEF CutMinimum
  <2> HIDE DEF v
  <2> QED
    BY <2>1 DEF RemoveByMinimum
<1> HIDE DEF m
<1>4. m \in N /\ m # n /\ m # r /\ m # Nil /\ m # l
  <2>1. m \in N /\ m # n /\ m # r
    BY <1>1, <1>2
  <2>2. l \in B[l]
    BY <1>1, NodeProperties
  <2>3. l < n /\ n < m
    BY <1>2, <2>2, NodeProperties
  <2>4. n \in Nat /\ l \in Nat /\ m \in Nat /\ m # Nil
    BY <1>1, <2>1, NodeProperties
  <2> QED
    BY <2>1, <2>3, <2>4
\* The parent of m is in the right branch of n, and m is its left child.
<1>5. /\ p \in B[r] /\ p \in N /\ p # n /\ p # m
      /\ t.left[p] = m /\ t.right[p] # m /\ m # t.root
  <2>1. p \in B[r]
    BY <1>1, <1>2, <1>4, ParentsNest
  <2>2. p \in N /\ p \in Nat /\ m \in Nat /\ p # Nil
    BY <2>1, <1>1, <1>4, NodeProperties
  <2>3. p # m /\ m # t.root /\ m \in {t.left[p], t.right[p]}
    BY <2>2, <1>4, LinkProperties
  <2>4. t.right[p] # m
    <3>1. m \in B[m] /\ m <= p
      BY <2>1, <1>2, <1>4, NodeProperties
    <3>2. t.right[p] = m => p < m
      BY <2>2, <3>1, NodeProperties
    <3> QED
      BY <2>2, <3>1, <3>2
  <2> QED
    BY <2>1, <2>2, <2>3, <2>4, <1>1
<1>6. c \in N \cup {Nil} /\ c # n /\ c # m /\ c # r /\ c # l /\ (c # Nil => t.parent[c] = m)
  <2>1. c \in N \cup {Nil} /\ c # m /\ (c # Nil => t.parent[c] = m)
    BY <1>4, NodeProperties, LinkProperties
  <2>2. c # n
    <3>1. c # Nil => c \in B[c] /\ B[c] \subseteq B[m]
      BY <1>4, <2>1, NodeProperties
    <3>2. B[m] \subseteq B[r]
      BY <1>1, <1>2, BranchesNest
    <3> QED
      BY <3>1, <3>2, <1>1
  <2> QED
    BY <2>1, <2>2, <1>1, <1>4
<1>7. /\ p \in Prices /\ m \in Prices /\ l \in Prices /\ r \in Prices
      /\ m \in Prices \cup {Nil} /\ l \in Prices \cup {Nil} /\ r \in Prices \cup {Nil}
      /\ c \in Prices \cup {Nil}
  BY <1>1, <1>4, <1>5, <1>6
<1> HIDE DEF p, c, l, r
<1>8. /\ v1 \in Pointers /\ v1.root = t.root /\ v1.right = t.right /\ v1.parent = t.parent
      /\ \A q \in Prices : v1.left[q] = IF q = p THEN c ELSE t.left[q]
  <2>1. v1 = [t EXCEPT !.left[p] = c]
    OBVIOUS
  <2> HIDE DEF v1
  <2>2. p \in Prices /\ c \in Prices \cup {Nil}
    BY <1>7
  <2> QED
    BY <2>1, <2>2, <1>1 DEF Pointers
<1> HIDE DEF v1
<1>9. /\ v \in Pointers /\ v.root = t.root /\ v.right = t.right
      /\ \A q \in Prices : /\ v.left[q] = IF q = p THEN c ELSE t.left[q]
                           /\ v.parent[q] = IF q = c THEN p ELSE t.parent[q]
  <2>1. CASE c = Nil
    BY <2>1, <1>8, NilProperties
  <2>2. CASE c # Nil
    <3>1. c \in Prices /\ p \in Prices \cup {Nil}
      BY <2>2, <1>7
    <3> QED
      BY <2>2, <3>1, <1>8, SetParent
  <2> QED
    BY <2>1, <2>2
<1> HIDE DEF v
<1>10. /\ w1 \in Pointers /\ w1.root = v.root /\ w1.left = v.left /\ w1.right = v.right
       /\ \A q \in Prices : w1.parent[q] = IF q = m THEN t.parent[n] ELSE v.parent[q]
  <2>1. w1 = [v EXCEPT !.parent[m] = t.parent[n]]
    OBVIOUS
  <2> HIDE DEF w1
  <2> QED
    BY <2>1, <1>1, <1>7, <1>9, SetParent
<1> HIDE DEF w1
<1>11. /\ w2 \in Pointers /\ w2.root = v.root /\ w2.parent = w1.parent /\ w2.right = v.right
       /\ \A q \in Prices : w2.left[q] = IF q = m THEN l ELSE v.left[q]
  <2>1. w2 = [w1 EXCEPT !.left[m] = l]
    OBVIOUS
  <2> HIDE DEF w2
  <2>2. w1 \in Pointers /\ m \in Prices /\ l \in Prices \cup {Nil}
    BY <1>7, <1>10
  <2>3. /\ w2 \in Pointers /\ w2.root = w1.root /\ w2.right = w1.right /\ w2.parent = w1.parent
        /\ \A q \in Prices : w2.left[q] = IF q = m THEN l ELSE w1.left[q]
    BY <2>1, <2>2 DEF Pointers
  <2> QED
    BY <2>3, <1>10
<1> HIDE DEF w2
<1>12. /\ w3 \in Pointers /\ w3.root = v.root /\ w3.left = w2.left /\ w3.right = v.right
       /\ \A q \in Prices : w3.parent[q] = IF q = l THEN m ELSE w1.parent[q]
  <2>1. w3 = [w2 EXCEPT !.parent[l] = m]
    OBVIOUS
  <2> HIDE DEF w3
  <2>2. w2 \in Pointers /\ l \in Prices /\ m \in Prices \cup {Nil}
    BY <1>7, <1>11
  <2>3. /\ w3 \in Pointers /\ w3.root = w2.root /\ w3.left = w2.left /\ w3.right = w2.right
        /\ \A q \in Prices : w3.parent[q] = IF q = l THEN m ELSE w2.parent[q]
    BY <2>1, <2>2 DEF Pointers
  <2> QED
    BY <2>3, <1>11
<1> HIDE DEF w3
<1>13. /\ w4 \in Pointers /\ w4.root = v.root /\ w4.left = w2.left /\ w4.parent = w3.parent
       /\ \A q \in Prices : w4.right[q] = IF q = m THEN r ELSE v.right[q]
  <2>1. w4 = [w3 EXCEPT !.right[m] = r]
    OBVIOUS
  <2> HIDE DEF w4
  <2>2. w3 \in Pointers /\ m \in Prices /\ r \in Prices \cup {Nil}
    BY <1>7, <1>12
  <2>3. /\ w4 \in Pointers /\ w4.root = w3.root /\ w4.left = w3.left /\ w4.parent = w3.parent
        /\ \A q \in Prices : w4.right[q] = IF q = m THEN r ELSE w3.right[q]
    BY <2>1, <2>2 DEF Pointers
  <2> QED
    BY <2>3, <1>12
<1> HIDE DEF w4
<1>14. /\ w \in Pointers /\ w.root = v.root /\ w.left = w2.left /\ w.right = w4.right
       /\ \A q \in Prices : w.parent[q] = IF q = r THEN m ELSE w3.parent[q]
  <2>1. w = [w4 EXCEPT !.parent[r] = m]
    OBVIOUS
  <2> HIDE DEF w
  <2>2. w4 \in Pointers /\ r \in Prices /\ m \in Prices \cup {Nil}
    BY <1>7, <1>13
  <2>3. /\ w \in Pointers /\ w.root = w4.root /\ w.left = w4.left /\ w.right = w4.right
        /\ \A q \in Prices : w.parent[q] = IF q = r THEN m ELSE w4.parent[q]
    BY <2>1, <2>2 DEF Pointers
  <2> QED
    BY <2>3, <1>13
<1> HIDE DEF w
<1>15. /\ w.root = t.root
       /\ \A q \in Prices :
            /\ w.left[q] = IF q = m THEN l ELSE IF q = p THEN c ELSE t.left[q]
            /\ w.right[q] = IF q = m THEN r ELSE t.right[q]
            /\ w.parent[q] = IF q = r \/ q = l THEN m ELSE IF q = m THEN t.parent[n]
                             ELSE IF q = c THEN p ELSE t.parent[q]
  BY <1>9, <1>10, <1>11, <1>12, <1>13, <1>14
<1>16. OneLink(w, n)
  <2>1. OneLink(t, n)
    BY TreeOneLink
  <2>2. w.parent[n] = t.parent[n]
    BY <1>1, <1>4, <1>6, <1>15
  <2>3. \A q \in Prices : w.left[q] = n => t.left[q] = n
    BY <1>1, <1>6, <1>15
  <2>4. \A q \in Prices : w.right[q] = n => t.right[q] = n
    BY <1>1, <1>15
  <2>5. ASSUME NEW q \in Prices, w.left[q] = n \/ w.right[q] = n
        PROVE  w.root # n /\ w.parent[n] = q /\ w.left[q] # w.right[q]
    <3>1. q # m
      BY <2>5, <1>1, <1>15
    <3>2. t.left[q] = n \/ t.right[q] = n
      BY <2>3, <2>4, <2>5
    <3>3. t.root # n /\ t.parent[n] = q /\ t.left[q] # t.right[q]
      BY <2>1, <3>2 DEF OneLink
    <3>4. w.left[q] # w.right[q]
      BY <2>5, <3>1, <3>3, <1>6, <1>15
    <3> QED
      BY <3>3, <3>4, <2>2, <1>15
  <2>6. ASSUME t.root # n
        PROVE  /\ w.parent[n] \in Prices
               /\ n \in {w.left[w.parent[n]], w.right[w.parent[n]]}
    <3> DEFINE x == t.parent[n]
    <3>1. x \in Prices /\ n \in {t.left[x], t.right[x]}
      BY <2>1, <2>6 DEF OneLink
    <3>2. x # m
      <4>1. t.left[m] = Nil /\ t.right[m] # n
        BY <1>2, <1>6 DEF c
      <4> QED
        BY <4>1, <3>1, <1>1
    <3>3. t.left[x] = n => x # p
      BY <1>4, <1>5
    <3> QED
      BY <3>1, <3>2, <3>3, <2>2, <1>15
  <2> QED
    BY <2>5, <2>6, <1>15 DEF OneLink
<1>17. /\ u \in Pointers /\ u.root = Instead(t.root, n, m) /\ u.parent = w.parent
       /\ \A q \in Prices : /\ u.left[q] = Instead(w.left[q], n, m)
                            /\ u.right[q] = Instead(w.right[q], n, m)
  BY <1>1, <1>3, <1>7, <1>14, <1>15, <1>16, RelinkFields
<1>18. IsCut(t, v, N, m, c)
  <2>1. OneLink(t, m)
    BY <1>4, TreeOneLink
  <2>2. ASSUME NEW q \in N \ {m}
        PROVE  (t.left[q] = m <=> q = p) /\ t.right[q] # m
    BY <2>1, <1>1, <1>5 DEF OneLink, p
  <2>3. t.parent[m] = p
    BY DEF p
  <2> QED
    BY <2>2, <2>3, <1>1, <1>5, <1>9 DEF IsCut, Instead
<1>19. IsSwap(v, u, N \ {m}, n, m)
  <2>1. /\ u.root = Instead(v.root, n, m)
        /\ u.parent[m] = v.parent[n]
    BY <1>1, <1>4, <1>6, <1>7, <1>9, <1>15, <1>17
  <2>2. u.left[m] = v.left[n] /\ u.right[m] = v.right[n]
    BY <1>1, <1>5, <1>7, <1>9, <1>15, <1>17 DEF Instead, l, r
  <2>3. ASSUME NEW q \in (N \ {m}) \ {n}
        PROVE  /\ u.left[q] = Instead(v.left[q], n, m) /\ u.right[q] = Instead(v.right[q], n, m)
               /\ u.parent[q] = Instead(v.parent[q], n, m)
    <3>1. u.left[q] = Instead(v.left[q], n, m) /\ u.right[q] = Instead(v.right[q], n, m)
      BY <1>1, <1>9, <1>15, <1>17
    <3>2. /\ q \in Prices
          /\ u.parent[q] = IF q = r \/ q = l THEN m ELSE IF q = c THEN p ELSE t.parent[q]
          /\ v.parent[q] = IF q = c THEN p ELSE t.parent[q]
      BY <1>1, <1>9, <1>15, <1>17
    <3>3. t.parent[q] = n => q = l \/ q = r
      <4>1. q # t.root => t.parent[q] \in N /\ q \in {t.left[t.parent[q]], t.right[t.parent[q]]}
        BY LinkProperties
      <4>2. q = t.root => t.parent[q] = Nil
        BY LinkProperties
      <4> QED
        BY <4>1, <4>2, <1>1 DEF l, r
    <3>4. q = l \/ q = r => t.parent[q] = n /\ q # c
      BY <1>1, <1>6
    <3> QED
      BY <3>1, <3>2, <3>3, <3>4, <1>5 DEF Instead
  <2> QED
    BY <2>1, <2>2, <2>3 DEF IsSwap
<1>20. \E C : IsTree(u, N \ {n}, C)
  <2>1. c = t.right[m] /\ r = t.right[n]
    BY DEF r, c
  <2> QED
    BY <2>1, <1>2, <1>9, <1>17, <1>18, <1>19, MoveMinimum
<1>21. Keeps(t, u, N, n)
  <2>1. \A q \in (Prices \ N) \cup {n} :
           /\ q \in Prices /\ q # l /\ q # r /\ q # m /\ q # p /\ q # c
           /\ t.left[q] # n /\ t.right[q] # n
    BY <1>1, <1>4, <1>5, <1>6, NilProperties DEF Clean, l, r
  <2> QED
    BY <2>1, <1>15, <1>17 DEF Keeps, Instead
<1> QED
  BY <1>20, <1>21

\* remove, whatever branches the node has.
LEMMA UnlinkedTree ==
    ASSUME NEW t, NEW N, NEW B, IsTree(t, N, B), IsFiniteSet(N), Clean(t, N), NEW n \in N,
           NEW u, u = Unlinked(t, n)
    PROVE  (\E C : IsTree(u, N \ {n}, C)) /\ Keeps(t, u, N, n)
<1>1. CASE t.left[n] = Nil \/ t.right[n] = Nil
  BY <1>1, UnlinkedCut
<1>2. CASE t.left[n] # Nil /\ t.right[n] # Nil /\ t.left[t.right[n]] = Nil
  <2>1. u = RemoveByRight(t, n)
    BY <1>2 DEF Unlinked
  <2> QED
    BY <1>2, <2>1, UnlinkedByRight
<1>3. CASE t.left[n] # Nil /\ t.right[n] # Nil /\ t.left[t.right[n]] # Nil
  <2>1. u = RemoveByMinimum(t, n)
    BY <1>3 DEF Unlinked
  <2> QED
    BY <1>3, <2>1, UnlinkedByMinimum
<1> QED
  BY <1>1, <1>2, <1>3

\* IsTree is about the pointers of nodes only.
LEMMA SameTree ==
    ASSUME NEW t, NEW N, NEW B, IsTree(t, N, B), NEW u \in Pointers, u.root = t.root,
           \A q \in N : u.parent[q] = t.parent[q] /\ u.left[q] = t.left[q] /\ u.right[q] = t.right[q]
    PROVE  IsTree(u, N, B)
<1>1. N \subseteq Prices /\ t.root \in N \cup {Nil}
  BY DEF IsTree, Closed
<1>2. \A q \in N : t.left[q] \in N \cup {Nil} /\ t.right[q] \in N \cup {Nil}
  BY NodeProperties
<1>3. Closed(u, N)
  BY DEF IsTree, Closed
<1>4. Branches(u, N, B)
  BY DEF IsTree, Branches
<1>5. Sorted(u, N, B)
  BY DEF IsTree, Sorted
<1>6. Parents(u, N)
  BY <1>1, <1>2 DEF IsTree, Parents
<1> QED
  BY <1>1, <1>3, <1>4, <1>5, <1>6 DEF IsTree

\* remove and delete: the tree of the other nodes.
LEMMA RemoveTree ==
    ASSUME NEW t, NEW N, NEW B, IsTree(t, N, B), IsFiniteSet(N), Clean(t, N), NEW n \in N,
           NEW u, u = Freed(Unlinked(t, n), n)
    PROVE  (\E C : IsTree(u, N \ {n}, C)) /\ Clean(u, N \ {n})
<1> DEFINE v == Unlinked(t, n)
           w1 == [v EXCEPT !.parent[n] = Nil]
           w2 == [w1 EXCEPT !.left[n] = Nil]
<1>1. PICK C : IsTree(v, N \ {n}, C)
  BY UnlinkedTree
<1>2. Keeps(t, v, N, n)
  BY UnlinkedTree
<1>3. v \in Pointers /\ n \in Prices /\ N \subseteq Prices
  BY <1>1 DEF IsTree
<1>4. u = [w2 EXCEPT !.right[n] = Nil]
  BY DEF Freed
<1> HIDE DEF v
<1>5. /\ w1 \in Pointers /\ w1.root = v.root /\ w1.left = v.left /\ w1.right = v.right
      /\ \A q \in Prices : w1.parent[q] = IF q = n THEN Nil ELSE v.parent[q]
  BY <1>3 DEF Pointers
<1> HIDE DEF w1
<1>6. /\ w2 \in Pointers /\ w2.root = w1.root /\ w2.parent = w1.parent /\ w2.right = w1.right
      /\ \A q \in Prices : w2.left[q] = IF q = n THEN Nil ELSE w1.left[q]
  BY <1>3, <1>5 DEF Pointers
<1> HIDE DEF w2
<1>7. /\ u \in Pointers /\ u.root = w2.root /\ u.left = w2.left /\ u.parent = w2.parent
      /\ \A q \in Prices : u.right[q] = IF q = n THEN Nil ELSE w2.right[q]
  BY <1>3, <1>4, <1>6 DEF Pointers
<1>8. IsTree(u, N \ {n}, C)
  BY <1>1, <1>3, <1>5, <1>6, <1>7, SameTree
<1>9. Clean(u, N \ {n})
  BY <1>2, <1>3, <1>5, <1>6, <1>7 DEF Clean, Keeps
<1> QED
  BY <1>8, <1>9

\* find_best: what the pointers of the removed best node lead to is the best of the rest.
LEMMA FindBestIsBest ==
    ASSUME NEW t, NEW N, NEW B, IsTree(t, N, B), IsFiniteSet(N), Clean(t, N), NEW n \in N,
           side \in {"Sell", "Buy"}, Abstract!IsBest(N, n), NEW u, u = Unlinked(t, n)
    PROVE  Abstract!IsBest(N \ {n}, FindBest(u, n))
<1> DEFINE M == N \ {n}
           C == [q \in M \cup {Nil} |-> B[q] \ {n}]
           p == t.parent[n]
           l == t.left[n]
           r == t.right[n]
<1>1. /\ n # Nil /\ p \in N \cup {Nil} /\ l \in N \cup {Nil} /\ r \in N \cup {Nil}
      /\ B[n] = {n} \cup B[l] \cup B[r] /\ l # n /\ r # n
      /\ n \notin B[l] /\ n \notin B[r] /\ p # n
      /\ IF n = t.root THEN p = Nil ELSE p \in N /\ n \in {t.left[p], t.right[p]}
      /\ \A q \in N : q \in Nat /\ q # Nil /\ q \in B[q]
      /\ (\A q \in B[l] : q < n) /\ (\A q \in B[r] : n < q)
  BY NodeProperties, LinkProperties
<1>2. \A q \in N : IF side = "Buy" THEN q <= n ELSE q >= n
  BY DEF Abstract!IsBest
<1>3. B[Nil] = {} /\ B[t.root] = N
  BY DEF IsTree, Branches
<1>4. IF side = "Buy" THEN r = Nil ELSE l = Nil
  <2>1. r # Nil => n < r /\ r \in N
    BY <1>1
  <2>2. l # Nil => l < n /\ l \in N
    BY <1>1
  <2> QED
    BY <1>1, <1>2, <2>1, <2>2
<1>5. IsTree(u, M, C) /\ Keeps(t, u, N, n)
  BY <1>4, UnlinkedCut
<1>6. u.parent[n] = p /\ u.left[n] = l /\ u.right[n] = r
  BY <1>5 DEF Keeps
<1>7. IsFiniteSet(M)
  BY FS_Subset
<1>8. \A q \in M : C[q] = B[q] \ {n}
  OBVIOUS
<1> HIDE DEF C
<1>9. CASE p = Nil
  <2> DEFINE c == IF side = "Buy" THEN l ELSE r
  <2>1. N = {n} \cup B[c]
    BY <1>1, <1>3, <1>4, <1>9
  <2>2. CASE c = Nil
    <3>1. M = {}
      BY <2>1, <2>2, <1>3
    <3>2. FindBest(u, n) = Nil
      BY <2>2, <1>6, <1>9 DEF FindBest
    <3> QED
      BY <3>1, <3>2 DEF Abstract!IsBest, Abstract!NoPrice, Nil
  <2>3. CASE c # Nil
    <3>1. c \in M /\ C[c] = M
      BY <2>1, <2>3, <1>1, <1>8
    <3>2. CASE side = "Buy"
      <4>1. FindBest(u, n) = Rightmost(u, c)
        BY <2>3, <3>2, <1>6, <1>9 DEF FindBest
      <4>2. Rightmost(u, c) \in C[c] /\ \A x \in C[c] : x <= Rightmost(u, c)
        BY <3>1, <1>5, <1>7, RightmostProperties
      <4> QED
        BY <3>1, <3>2, <4>1, <4>2 DEF Abstract!IsBest
    <3>3. CASE side = "Sell"
      <4>1. FindBest(u, n) = Leftmost(u, c)
        BY <2>3, <3>3, <1>6, <1>9 DEF FindBest
      <4>2. Leftmost(u, c) \in M /\ \A x \in M : Leftmost(u, c) <= x
        BY <3>1, <1>5, <1>7, LeftmostProperties
      <4>3. \A x \in M : x >= Leftmost(u, c)
        BY <4>2, <1>1
      <4> QED
        BY <3>1, <3>3, <4>1, <4>2, <4>3 DEF Abstract!IsBest
    <3> QED
      BY <3>2, <3>3
  <2> QED
    BY <2>2, <2>3
<1>10. CASE p # Nil
  <2>1. p \in N /\ p \in M /\ n \in B[p] /\ C[p] = B[p] \ {n} /\ C[p] \subseteq M
    <3>1. p \in N /\ n \in {t.left[p], t.right[p]}
      BY <1>1, <1>10
    <3>2. n \in B[p]
      BY <3>1, <1>1, NodeProperties
    <3>3. B[p] \subseteq N
      BY <3>1, NodeProperties
    <3> QED
      BY <3>1, <3>2, <3>3, <1>1, <1>8
  <2>2. CASE side = "Buy"
    <3> DEFINE b == Rightmost(u, p)
    <3>1. FindBest(u, n) = b
      BY <2>2, <1>6, <1>10 DEF FindBest
    <3>2. b \in C[p] /\ \A x \in C[p] : x <= b
      BY <2>1, <1>5, <1>7, RightmostProperties
    <3> HIDE DEF b
    <3>3. ASSUME NEW q \in M PROVE q <= b
      <4>1. CASE q \in B[p]
        BY <2>1, <3>2, <4>1
      <4>2. CASE q \notin B[p]
        <5>1. q < n
          BY <2>2, <1>1, <1>2
        <5>2. q < b
          BY <2>1, <3>2, <4>2, <5>1, BranchesConvex
        <5>3. b \in Nat /\ q \in Nat
          BY <2>1, <3>2, <1>1
        <5> QED
          BY <5>2, <5>3
      <4> QED
        BY <4>1, <4>2
    <3> QED
      BY <2>1, <2>2, <3>1, <3>2, <3>3 DEF Abstract!IsBest
  <2>3. CASE side = "Sell"
    <3> DEFINE b == Leftmost(u, p)
    <3>1. FindBest(u, n) = b
      BY <2>3, <1>6, <1>10 DEF FindBest
    <3>2. b \in C[p] /\ \A x \in C[p] : b <= x
      BY <2>1, <1>5, <1>7, LeftmostProperties
    <3> HIDE DEF b
    <3>3. b \in Nat
      BY <2>1, <3>2, <1>1
    <3>4. ASSUME NEW q \in M PROVE q >= b
      <4>1. CASE q \in B[p]
        <5>1. b <= q
          BY <2>1, <3>2, <4>1
        <5> QED
          BY <5>1, <3>3, <1>1
      <4>2. CASE q \notin B[p]
        <5>1. ~(q < n)
          BY <2>3, <1>1, <1>2
        <5>2. ~(q < b)
          BY <2>1, <3>2, <4>2, <5>1, BranchesConvex
        <5> QED
          BY <5>2, <3>3, <1>1
      <4> QED
        BY <4>1, <4>2
    <3> QED
      BY <2>1, <2>3, <3>1, <3>2, <3>4 DEF Abstract!IsBest
  <2> QED
    BY <2>2, <2>3
<1> QED
  BY <1>9, <1>10

-----------------------------------------------------------------------------
(* Branch                                                                  *)

\* The recursive function behind Branch.
IsBranch(t, f) ==
    f = [p \in Prices \cup {Nil} |-> IF p = Nil THEN {} ELSE {p} \cup f[t.left[p]] \cup f[t.right[p]]]

\* It exists, and has the branches of the tree.
LEMMA BranchAgrees ==
    ASSUME NEW t, NEW N, NEW B, IsTree(t, N, B), IsFiniteSet(N), Clean(t, N)
    PROVE  \A x \in N \cup {Nil} : Branch(t)[x] = B[x]
<1> DEFINE P == Prices \cup {Nil}
           f == [p \in P |-> IF p \in N \cup {Nil} THEN B[p] ELSE {p}]
           c == CHOOSE g : IsBranch(t, g)
<1>1. N \subseteq Prices /\ B[Nil] = {} /\ Nil \notin Prices
  BY NilProperties DEF IsTree, Branches
<1>2. ASSUME NEW p \in Prices PROVE f[p] = {p} \cup f[t.left[p]] \cup f[t.right[p]]
  <2>1. CASE p \in N
    <3>1. /\ B[p] = {p} \cup B[t.left[p]] \cup B[t.right[p]]
          /\ t.left[p] \in N \cup {Nil} /\ t.right[p] \in N \cup {Nil}
      BY <2>1, NodeProperties
    <3>2. f[p] = B[p] /\ f[t.left[p]] = B[t.left[p]] /\ f[t.right[p]] = B[t.right[p]]
      BY <2>1, <3>1, <1>1
    <3> QED
      BY <3>1, <3>2
  <2>2. CASE p \notin N
    <3>1. t.left[p] = Nil /\ t.right[p] = Nil
      BY <2>2 DEF Clean
    <3>2. f[p] = {p} /\ f[Nil] = {}
      BY <2>2, <1>1
    <3> HIDE DEF f
    <3> QED
      BY <3>1, <3>2
  <2> QED
    BY <2>1, <2>2
<1>3. f[Nil] = {}
  BY <1>1
<1>4. IsBranch(t, f)
  <2> DEFINE g == [p \in P |-> IF p = Nil THEN {} ELSE {p} \cup f[t.left[p]] \cup f[t.right[p]]]
  <2>1. \A p \in P : f[p] = g[p]
    <3> SUFFICES ASSUME NEW p \in P PROVE f[p] = g[p]
      OBVIOUS
    <3>1. CASE p = Nil
      BY <3>1, <1>3
    <3>2. CASE p # Nil
      <4>1. p \in Prices
        BY <3>2
      <4>2. f[p] = {p} \cup f[t.left[p]] \cup f[t.right[p]]
        BY <4>1, <1>2
      <4>3. g[p] = {p} \cup f[t.left[p]] \cup f[t.right[p]]
        <5> HIDE DEF f
        <5> QED
          BY <3>2
      <4> HIDE DEF f, g
      <4> QED
        BY <4>2, <4>3
    <3> QED
      BY <3>1, <3>2
  <2>2. f = [p \in P |-> f[p]] /\ g = [p \in P |-> g[p]]
    OBVIOUS
  <2> HIDE DEF f, g
  <2>3. f = g
    BY <2>1, <2>2
  <2> QED
    BY <2>3 DEF g, IsBranch
<1> HIDE DEF f
<1>5. IsBranch(t, c)
  BY <1>4
<1>6. Branch(t) = c
  BY DEF Branch, IsBranch
<1> HIDE DEF c
<1>7. c[Nil] = {} /\ \A p \in Prices : c[p] = {p} \cup c[t.left[p]] \cup c[t.right[p]]
  <2>1. c[Nil] = {}
    BY <1>5 DEF IsBranch
  <2>2. ASSUME NEW p \in Prices PROVE c[p] = {p} \cup c[t.left[p]] \cup c[t.right[p]]
    <3>1. p # Nil
      BY <1>1
    <3> QED
      BY <1>5, <3>1 DEF IsBranch
  <2> QED
    BY <2>1, <2>2
<1> DEFINE T == {p \in N : c[p] = B[p]}
<1>8. ASSUME NEW p \in N, t.left[p] # Nil => t.left[p] \in T, t.right[p] # Nil => t.right[p] \in T
      PROVE  p \in T
  <2>1. /\ B[p] = {p} \cup B[t.left[p]] \cup B[t.right[p]]
        /\ c[p] = {p} \cup c[t.left[p]] \cup c[t.right[p]]
    BY <1>1, <1>7, NodeProperties
  <2>2. c[t.left[p]] = B[t.left[p]] /\ c[t.right[p]] = B[t.right[p]]
    BY <1>1, <1>7, <1>8
  <2> QED
    BY <2>1, <2>2
<1> HIDE DEF T
<1>9. N \subseteq T
  BY <1>8, TreeInduction
<1> QED
  BY <1>1, <1>6, <1>7, <1>9 DEF T

-----------------------------------------------------------------------------
(* Lists                                                                   *)

\* Order u in front of the orders of s.
Joined(u, s) == <<u>> \o s

\* The recursive function behind Chain.
IsChain(after, w) ==
    w = [u \in Orders \cup {Null} |-> IF u = Null THEN << >> ELSE Joined(u, w[after[u]])]

\* The part of sequence s from place i on.
From(s, i) == SubSeq(s, i, Len(s))

\* Where element u is in s.
Place(s, u) == CHOOSE i \in 1..Len(s) : s[i] = u

\* The part from i on begins with the element at i.
LEMMA FromStep ==
    ASSUME NEW s \in Seq(Orders), NEW i \in 1..Len(s)
    PROVE  From(s, i) = Joined(s[i], IF i = Len(s) THEN << >> ELSE From(s, i + 1))
<1>1. Len(s) \in Nat /\ i \in Int /\ i + 1 \in Int /\ i <= Len(s) /\ \A j \in i..Len(s) : s[j] \in Orders
  OBVIOUS
<1>2. SubSeq(s, i, Len(s)) = <<s[i]>> \o SubSeq(s, i + 1, Len(s))
  BY <1>1, SubSeqRecursiveFirst
<1>3. i = Len(s) => SubSeq(s, i + 1, Len(s)) = << >>
  BY <1>1, SubSeqEmpty
<1> QED
  BY <1>2, <1>3 DEF From, Joined

\* Where a resting order is in its list, and what its pointers are.
LEMMA LinkedPlace ==
    ASSUME NEW head, NEW tail, NEW before, NEW after, NEW at, NEW Q,
           Linked(head, tail, before, after, at, Q), NEW u \in Orders, at[u] # Nil
    PROVE  /\ at[u] \in Prices
           /\ \E i \in 1..Len(Q[at[u]]) :
                 /\ Q[at[u]][i] = u
                 /\ before[u] = IF i = 1 THEN Null ELSE Q[at[u]][i - 1]
                 /\ after[u] = IF i = Len(Q[at[u]]) THEN Null ELSE Q[at[u]][i + 1]
<1>1. at[u] \in Prices
  BY DEF Linked, IsList
<1>2. PICK i \in 1..Len(Q[at[u]]) : Q[at[u]][i] = u
  BY <1>1 DEF Linked, IsList
<1>3. /\ before[Q[at[u]][i]] = IF i = 1 THEN Null ELSE Q[at[u]][i - 1]
      /\ after[Q[at[u]][i]] = IF i = Len(Q[at[u]]) THEN Null ELSE Q[at[u]][i + 1]
  BY <1>1 DEF Linked, IsList
<1> QED
  BY <1>1, <1>2, <1>3

\* The walk along the pointers of a list gives the sequence that they link.
LEMMA ChainIs ==
    ASSUME NEW head, NEW tail, NEW before, NEW after, NEW at, NEW Q,
           Linked(head, tail, before, after, at, Q), NEW p \in Prices
    PROVE  Chain(after, head[p]) = Q[p]
<1> DEFINE O == Orders \cup {Null}
           f == [u \in O |-> IF u = Null THEN << >>
                             ELSE IF at[u] = Nil THEN Joined(u, << >>) ELSE From(Q[at[u]], Place(Q[at[u]], u))]
           c == CHOOSE g : IsChain(after, g)
<1>1. Null \notin Orders
  BY TreeNullAssumption
<1>2. /\ \A r \in Prices : Q[r] \in Seq(Orders) /\ IsInjective(Q[r])
      /\ \A r \in Prices : \A i \in 1..Len(Q[r]) : Q[r][i] \in Orders /\ at[Q[r][i]] = r
  BY DEF Linked, IsList
<1>3. ASSUME NEW r \in Prices, NEW i \in 1..Len(Q[r])
      PROVE  f[Q[r][i]] = From(Q[r], i)
  <2> DEFINE u == Q[r][i]
  <2>1. u \in Orders /\ at[u] = r /\ r # Nil
    BY <1>2, NilProperties
  <2>2. \A j \in 1..Len(Q[r]) : Q[r][j] = u => j = i
    BY <1>2 DEF IsInjective
  <2>3. Place(Q[r], u) = i
    BY <2>1, <2>2 DEF Place
  <2> HIDE DEF u
  <2> QED
    BY <2>1, <2>3, <1>1 DEF u
<1>4. ASSUME NEW u \in Orders PROVE f[u] = Joined(u, f[after[u]])
  <2>1. CASE at[u] = Nil
    <3>1. after[u] = Null
      BY <2>1 DEF Linked, IsList
    <3>2. u \in O /\ u # Null
      BY <1>1
    <3>3. f[u] = Joined(u, << >>)
      BY <2>1, <3>2, Zenon
    <3>4. f[Null] = << >>
      BY Zenon
    <3> HIDE DEF f
    <3> QED
      BY <3>1, <3>3, <3>4
  <2>2. CASE at[u] # Nil
    <3> DEFINE r == at[u]
    <3>1. r \in Prices
      BY <2>2, LinkedPlace
    <3>2. PICK i \in 1..Len(Q[r]) : Q[r][i] = u /\ after[u] = IF i = Len(Q[r]) THEN Null ELSE Q[r][i + 1]
      BY <2>2, LinkedPlace
    <3> HIDE DEF r, f
    <3>3. f[u] = From(Q[r], i)
      BY <1>3, <3>1, <3>2
    <3>4. f[after[u]] = IF i = Len(Q[r]) THEN << >> ELSE From(Q[r], i + 1)
      <4>1. CASE i = Len(Q[r])
        <5>1. f[Null] = << >>
          BY Zenon DEF f
        <5> QED
          BY <3>2, <4>1, <5>1
      <4>2. CASE i # Len(Q[r])
        <5>1. i + 1 \in 1..Len(Q[r])
          BY <3>1, <1>2, <4>2
        <5> QED
          BY <3>1, <3>2, <4>2, <5>1, <1>3
      <4> QED
        BY <4>1, <4>2
    <3>5. Q[r] \in Seq(Orders)
      BY <1>2, <3>1
    <3> QED
      BY <3>2, <3>3, <3>4, <3>5, FromStep
  <2> QED
    BY <2>1, <2>2
<1>5. f[Null] = << >>
  OBVIOUS
<1>6. IsChain(after, f)
  <2> DEFINE g == [u \in O |-> IF u = Null THEN << >> ELSE Joined(u, f[after[u]])]
  <2>1. f = [u \in O |-> f[u]]
    OBVIOUS
  <2> HIDE DEF f
  <2>2. g = [u \in O |-> g[u]]
    OBVIOUS
  <2>3. \A u \in O : f[u] = g[u]
    BY <1>1, <1>4, <1>5
  <2> HIDE DEF g
  <2>4. f = g
    BY <2>1, <2>2, <2>3
  <2> QED
    BY <2>4 DEF g, IsChain
<1> HIDE DEF f
<1>7. IsChain(after, c)
  BY <1>6
<1>8. \A o : Chain(after, o) = c[o]
  BY DEF Chain, IsChain, Joined
<1> HIDE DEF c
<1>9. c[Null] = << >> /\ \A u \in Orders : c[u] = Joined(u, c[after[u]])
  BY <1>1, <1>7 DEF IsChain
<1> DEFINE s == Q[p]
           n == Len(s)
           T == {k \in Nat : \A i \in 1..n : n - i = k => c[s[i]] = From(s, i)}
<1>10. /\ s \in Seq(Orders) /\ n \in Nat
       /\ \A i \in 1..n : s[i] \in Orders /\ after[s[i]] = IF i = n THEN Null ELSE s[i + 1]
       /\ head[p] = IF s = << >> THEN Null ELSE s[1]
  BY DEF Linked, IsList
<1> HIDE DEF s
<1>11. ASSUME NEW i \in 1..n, i # n => c[s[i + 1]] = From(s, i + 1) PROVE c[s[i]] = From(s, i)
  <2>1. c[s[i]] = Joined(s[i], c[after[s[i]]])
    BY <1>9, <1>10
  <2>2. c[after[s[i]]] = IF i = n THEN << >> ELSE From(s, i + 1)
    BY <1>9, <1>10, <1>11
  <2> QED
    BY <2>1, <2>2, <1>10, FromStep
<1>12. 0 \in T
  <2>1. \A i \in 1..n : n - i = 0 => i = n
    BY <1>10
  <2> QED
    BY <2>1, <1>11
<1>13. ASSUME NEW k \in Nat, k \in T PROVE k + 1 \in T
  <2> SUFFICES ASSUME NEW i \in 1..n, n - i = k + 1 PROVE c[s[i]] = From(s, i)
    OBVIOUS
  <2>1. i + 1 \in 1..n /\ n - (i + 1) = k
    BY <1>10
  <2>2. c[s[i + 1]] = From(s, i + 1)
    BY <1>13, <2>1
  <2> QED
    BY <2>2, <1>11
<1> HIDE DEF T
<1>14. \A k \in Nat : k \in T
  BY <1>12, <1>13, Induction
<1>15. CASE s = << >>
  BY <1>8, <1>9, <1>10, <1>15 DEF s
<1>16. CASE s # << >>
  <2>1. 1 \in 1..n /\ n - 1 \in Nat
    BY <1>10, <1>16
  <2>2. c[s[1]] = From(s, 1)
    BY <1>14, <2>1 DEF T
  <2>3. From(s, 1) = s
    BY <1>10, SubSeqFull DEF From
  <2> QED
    BY <2>2, <2>3, <1>8, <1>10, <1>16 DEF s
<1> QED
  BY <1>15, <1>16

\* The list of price p becomes s, and the orders of the other lists are left alone.
ListChange(head, tail, before, after, at, head2, tail2, before2, after2, at2, p, s) ==
    /\ \A r \in Prices \ {p} : head2[r] = head[r] /\ tail2[r] = tail[r]
    /\ \A v \in Orders : at[v] \notin {p, Nil} =>
          before2[v] = before[v] /\ after2[v] = after[v] /\ at2[v] = at[v]
    /\ \A v \in Orders : at[v] \in {p, Nil} =>
          /\ at2[v] \in {p, Nil}
          /\ at2[v] = Nil => before2[v] = Null /\ after2[v] = Null
    /\ \A v \in Orders : at2[v] = p <=> \E i \in 1..Len(s) : s[i] = v
    /\ IsList(s, head2[p], tail2[p], before2, after2)

\* Then the lists are still linked.
LEMMA LinkedChange ==
    ASSUME NEW head, NEW tail, NEW before, NEW after, NEW at, NEW Q,
           Linked(head, tail, before, after, at, Q),
           NEW head2, NEW tail2, NEW before2, NEW after2, NEW at2,
           NEW p \in Prices, NEW s \in Seq(Orders),
           ListChange(head, tail, before, after, at, head2, tail2, before2, after2, at2, p, s)
    PROVE  Linked(head2, tail2, before2, after2, at2, [Q EXCEPT ![p] = s])
<1> DEFINE Q2 == [Q EXCEPT ![p] = s]
<1> USE DEF ListChange
<1>1. /\ Q \in [Prices -> Seq(Orders)]
      /\ \A r \in Prices : IsList(Q[r], head[r], tail[r], before, after)
      /\ \A u \in Orders, r \in Prices : at[u] = r <=> \E i \in 1..Len(Q[r]) : Q[r][i] = u
      /\ \A u \in Orders : at[u] \in Prices \cup {Nil}
                             /\ (at[u] = Nil => before[u] = Null /\ after[u] = Null)
  BY DEF Linked
<1>2. Q2 \in [Prices -> Seq(Orders)] /\ Q2[p] = s /\ \A r \in Prices \ {p} : Q2[r] = Q[r]
  BY <1>1
<1> HIDE DEF Q2
<1>3. ASSUME NEW r \in Prices PROVE IsList(Q2[r], head2[r], tail2[r], before2, after2)
  <2>1. CASE r = p
    BY <2>1, <1>2
  <2>2. CASE r # p
    <3>1. Q[r] \in Seq(Orders)
      BY <1>1
    <3>2. \A i \in 1..Len(Q[r]) : Q[r][i] \in Orders /\ at[Q[r][i]] = r
      BY <1>1, <3>1
    <3>3. r # Nil
      BY NilProperties
    <3>4. \A i \in 1..Len(Q[r]) : /\ before2[Q[r][i]] = before[Q[r][i]]
                                  /\ after2[Q[r][i]] = after[Q[r][i]]
      BY <2>2, <3>2, <3>3
    <3>5. IsList(Q[r], head[r], tail[r], before, after) /\ head2[r] = head[r] /\ tail2[r] = tail[r]
      BY <2>2, <1>1
    <3>6. IsList(Q[r], head2[r], tail2[r], before2, after2)
      BY <3>4, <3>5 DEF IsList
    <3> QED
      BY <2>2, <3>6, <1>2
  <2> QED
    BY <2>1, <2>2
<1>4. ASSUME NEW v \in Orders, NEW r \in Prices
      PROVE  at2[v] = r <=> \E i \in 1..Len(Q2[r]) : Q2[r][i] = v
  <2>1. CASE r = p
    BY <2>1, <1>2
  <2>2. CASE r # p
    <3>1. at2[v] = r <=> at[v] = r
      <4>1. r # Nil
        BY NilProperties
      <4>2. CASE at[v] \notin {p, Nil}
        BY <4>2
      <4>3. CASE at[v] \in {p, Nil}
        <5>1. at2[v] \in {p, Nil}
          BY <4>3
        <5> QED
          BY <2>2, <4>1, <4>3, <5>1
      <4> QED
        BY <4>2, <4>3
    <3>2. Q2[r] = Q[r]
      BY <2>2, <1>2
    <3>3. at[v] = r <=> \E i \in 1..Len(Q[r]) : Q[r][i] = v
      BY <1>1
    <3> QED
      BY <3>1, <3>2, <3>3
  <2> QED
    BY <2>1, <2>2
<1>5. ASSUME NEW v \in Orders
      PROVE  at2[v] \in Prices \cup {Nil} /\ (at2[v] = Nil => before2[v] = Null /\ after2[v] = Null)
  <2>1. CASE at[v] \in {p, Nil}
    BY <2>1
  <2>2. CASE at[v] \notin {p, Nil}
    BY <2>2, <1>1
  <2> QED
    BY <2>1, <2>2
<1> QED
  BY <1>2, <1>3, <1>4, <1>5 DEF Linked, Q2

\* limit: order u joins the list of price p, which is empty or not.
LEMMA LinkedAppend ==
    ASSUME NEW head, NEW tail, NEW before, NEW after, NEW at, NEW Q,
           Linked(head, tail, before, after, at, Q), ListTypes(head, tail, before, after, at),
           NEW p \in Prices, NEW u \in Orders, at[u] = Nil,
           NEW head2, NEW tail2, NEW before2, NEW after2, NEW at2,
           head2 = IF Q[p] = << >> THEN [head EXCEPT ![p] = u] ELSE head,
           tail2 = [tail EXCEPT ![p] = u],
           before2 = IF Q[p] = << >> THEN before ELSE [before EXCEPT ![u] = tail[p]],
           after2 = IF Q[p] = << >> THEN after ELSE [after EXCEPT ![tail[p]] = u],
           at2 = [at EXCEPT ![u] = p]
    PROVE  /\ Linked(head2, tail2, before2, after2, at2, [Q EXCEPT ![p] = Append(Q[p], u)])
           /\ ListTypes(head2, tail2, before2, after2, at2)
<1> DEFINE q == Q[p]
           s == Append(q, u)
           n == Len(q)
<1>1. /\ q \in Seq(Orders) /\ IsList(q, head[p], tail[p], before, after)
      /\ \A v \in Orders : at[v] = p <=> \E i \in 1..n : q[i] = v
      /\ \A v \in Orders : at[v] \in Prices \cup {Nil}
                             /\ (at[v] = Nil => before[v] = Null /\ after[v] = Null)
  BY DEF Linked
<1>2. /\ n \in Nat /\ s \in Seq(Orders) /\ s # << >> /\ Len(s) = n + 1 /\ s[n + 1] = u
      /\ \A i \in 1..n : s[i] = q[i] /\ q[i] \in Orders
  BY <1>1, AppendProperties
<1>3. p # Nil /\ u # Null
  BY NilProperties, TreeNullAssumption
<1>4. \A i \in 1..n : at[q[i]] = p /\ q[i] # u
  BY <1>1, <1>2, <1>3
<1> HIDE DEF q, s
<1>5. IsInjective(s)
  <2>1. \A i, j \in 1..n : q[i] = q[j] => i = j
    BY <1>1, <1>2 DEF IsList, IsInjective
  <2>2. DOMAIN s = 1..(n + 1)
    BY <1>2
  <2>3. ASSUME NEW i \in 1..(n + 1), NEW j \in 1..(n + 1), s[i] = s[j] PROVE i = j
    BY <2>1, <2>3, <1>2, <1>4
  <2> QED
    BY <2>2, <2>3 DEF IsInjective
<1>6. CASE q = << >>
  <2>1. n = 0
    BY <1>6
  <2>2. /\ head2[p] = u /\ tail2[p] = u /\ before2 = before /\ after2 = after
    BY <1>6 DEF q, ListTypes
  <2>3. IsList(s, head2[p], tail2[p], before2, after2)
    <3>1. Len(s) = 1 /\ s[1] = u /\ \A i \in 1..Len(s) : i = 1
      BY <2>1, <1>2
    <3>2. before2[u] = Null /\ after2[u] = Null
      BY <2>2, <1>1
    <3> QED
      BY <2>2, <3>1, <3>2, <1>2, <1>5 DEF IsList
  <2>4. \A v \in Orders : at2[v] = IF v = u THEN p ELSE at[v]
    BY DEF ListTypes
  <2>5. \A v \in Orders : at2[v] = p <=> \E i \in 1..Len(s) : s[i] = v
    <3>1. Len(s) = 1 /\ s[1] = u /\ \A i \in 1..Len(s) : i = 1
      BY <2>1, <1>2
    <3>2. \A i \in 1..n : FALSE
      BY <2>1
    <3>3. \A v \in Orders : at[v] # p
      <4> SUFFICES ASSUME NEW v \in Orders, at[v] = p PROVE FALSE
        OBVIOUS
      <4>1. PICK i \in 1..n : q[i] = v
        BY <1>1
      <4> QED
        BY <4>1, <3>2
    <3>4. 1 \in 1..Len(s)
      BY <3>1
    <3>5. ASSUME NEW v \in Orders PROVE at2[v] = p <=> v = u
      BY <2>4, <3>3
    <3>6. ASSUME NEW v \in Orders PROVE v = u <=> \E i \in 1..Len(s) : s[i] = v
      BY <3>1, <3>4, Zenon
    <3> QED
      BY <3>5, <3>6
  <2>6. \A r \in Prices \ {p} : head2[r] = head[r] /\ tail2[r] = tail[r]
    BY <1>6 DEF q, ListTypes
  <2>7. Linked(head2, tail2, before2, after2, at2, [Q EXCEPT ![p] = s])
    <3>1. ListChange(head, tail, before, after, at, head2, tail2, before2, after2, at2, p, s)
      BY <2>2, <2>3, <2>4, <2>5, <2>6, <1>1, <1>3 DEF ListChange
    <3> QED
      BY <3>1, <1>2, LinkedChange
  <2>8. ListTypes(head2, tail2, before2, after2, at2)
    BY <1>6 DEF q, ListTypes
  <2> QED
    BY <2>7, <2>8 DEF s, q
<1>7. CASE q # << >>
  <2>1. n \in 1..n
    BY <1>1, <1>7
  <2>2. /\ tail[p] = q[n] /\ head[p] = q[1] /\ tail[p] \in Orders /\ at[tail[p]] = p /\ tail[p] # u
    BY <2>1, <1>1, <1>2, <1>4, <1>7 DEF IsList
  <2>3. /\ head2 = head /\ tail2[p] = u
        /\ \A v \in Orders : /\ before2[v] = IF v = u THEN tail[p] ELSE before[v]
                             /\ after2[v] = IF v = tail[p] THEN u ELSE after[v]
    BY <1>7, <2>2 DEF q, ListTypes
  <2>4. ASSUME NEW i \in 1..Len(s)
        PROVE  /\ before2[s[i]] = IF i = 1 THEN Null ELSE s[i - 1]
               /\ after2[s[i]] = IF i = Len(s) THEN Null ELSE s[i + 1]
    <3>1. CASE i = n + 1
      <4>1. s[i] = u /\ i # 1 /\ s[i - 1] = q[n]
        BY <3>1, <2>1, <1>2
      <4>2. after2[u] = Null
        BY <2>2, <2>3, <1>1
      <4> QED
        BY <3>1, <4>1, <4>2, <2>2, <2>3, <1>2
    <3>2. CASE i \in 1..n
      <4>1. s[i] = q[i] /\ q[i] \in Orders /\ q[i] # u
        BY <3>2, <1>2, <1>4
      <4>2. before[q[i]] = IF i = 1 THEN Null ELSE q[i - 1]
        BY <3>2, <1>1 DEF IsList
      <4>3. i # 1 => s[i - 1] = q[i - 1]
        BY <3>2, <1>2
      <4>4. before2[s[i]] = IF i = 1 THEN Null ELSE s[i - 1]
        BY <4>1, <4>2, <4>3, <2>3
      <4>5. after[q[i]] = IF i = n THEN Null ELSE q[i + 1]
        BY <3>2, <1>1 DEF IsList
      <4>6. q[i] = tail[p] <=> i = n
        BY <3>2, <2>1, <2>2, <1>1, <1>2 DEF IsList, IsInjective
      <4>7. i # n => s[i + 1] = q[i + 1]
        BY <3>2, <1>2
      <4>8. after2[s[i]] = s[i + 1]
        BY <4>1, <4>5, <4>6, <4>7, <2>3, <1>2
      <4>9. i # Len(s)
        BY <3>2, <1>2
      <4> QED
        BY <4>4, <4>8, <4>9
    <3> QED
      BY <3>1, <3>2, <1>2
  <2>5. IsList(s, head2[p], tail2[p], before2, after2)
    <3>1. s[1] = q[1] /\ s[Len(s)] = u
      BY <2>1, <1>2
    <3> QED
      BY <3>1, <2>2, <2>3, <2>4, <1>2, <1>5 DEF IsList
  <2>6. \A v \in Orders : at2[v] = IF v = u THEN p ELSE at[v]
    BY DEF ListTypes
  <2>7. \A v \in Orders : at2[v] = p <=> \E i \in 1..Len(s) : s[i] = v
    <3>1. ASSUME NEW v \in Orders, at2[v] = p PROVE \E i \in 1..Len(s) : s[i] = v
      <4>1. CASE v = u
        BY <4>1, <1>2
      <4>2. CASE v # u
        <5>1. PICK i \in 1..n : q[i] = v
          BY <3>1, <4>2, <2>6, <1>1
        <5>2. i \in 1..Len(s) /\ s[i] = v
          BY <5>1, <1>2
        <5> QED
          BY <5>2
      <4> QED
        BY <4>1, <4>2
    <3>2. ASSUME NEW v \in Orders, NEW i \in 1..Len(s), s[i] = v PROVE at2[v] = p
      <4>1. CASE i = n + 1
        BY <3>2, <4>1, <2>6, <1>2
      <4>2. CASE i \in 1..n
        BY <3>2, <4>2, <2>6, <1>2, <1>4
      <4> QED
        BY <4>1, <4>2, <1>2
    <3> QED
      BY <3>1, <3>2
  <2>8. \A r \in Prices \ {p} : head2[r] = head[r] /\ tail2[r] = tail[r]
    BY <2>3 DEF ListTypes
  <2>9. \A v \in Orders : at[v] \notin {p, Nil} =>
            before2[v] = before[v] /\ after2[v] = after[v] /\ at2[v] = at[v]
    BY <2>2, <2>3, <2>6
  <2>10. \A v \in Orders : at[v] \in {p, Nil} =>
            /\ at2[v] \in {p, Nil}
            /\ at2[v] = Nil => before2[v] = Null /\ after2[v] = Null
    BY <2>2, <2>3, <2>6, <1>1, <1>3
  <2>11. Linked(head2, tail2, before2, after2, at2, [Q EXCEPT ![p] = s])
    <3>1. ListChange(head, tail, before, after, at, head2, tail2, before2, after2, at2, p, s)
      BY <2>5, <2>7, <2>8, <2>9, <2>10 DEF ListChange
    <3> QED
      BY <3>1, <1>2, LinkedChange
  <2>12. ListTypes(head2, tail2, before2, after2, at2)
    BY <1>7, <2>2 DEF q, ListTypes
  <2> QED
    BY <2>11, <2>12 DEF s, q
<1> QED
  BY <1>6, <1>7

\* DLL::remove: order u is taken out of the list of price p.
Unlinks(head, tail, before, after, at, head2, tail2, before2, after2, at2, p, u) ==
    /\ u \in Orders /\ p = at[u] /\ p # Nil
    /\ head2 = IF head[p] = u THEN [head EXCEPT ![p] = after[u]] ELSE head
    /\ tail2 = IF tail[p] = u THEN [tail EXCEPT ![p] = before[u]] ELSE tail
    /\ before2 = [o \in Orders |-> IF o = u THEN Null
                                   ELSE IF o = after[u] THEN before[u] ELSE before[o]]
    /\ after2 = [o \in Orders |-> IF o = u THEN Null
                                  ELSE IF o = before[u] THEN after[u] ELSE after[o]]
    /\ at2 = [at EXCEPT ![u] = Nil]

\* remove: order u leaves the list of its price.
LEMMA LinkedRemove ==
    ASSUME NEW head, NEW tail, NEW before, NEW after, NEW at, NEW Q,
           Linked(head, tail, before, after, at, Q), ListTypes(head, tail, before, after, at),
           NEW u, NEW p,
           NEW head2, NEW tail2, NEW before2, NEW after2, NEW at2,
           Unlinks(head, tail, before, after, at, head2, tail2, before2, after2, at2, p, u)
    PROVE  /\ p \in Prices
           /\ \E k \in 1..Len(Q[p]) :
                 /\ Q[p][k] = u
                 /\ Linked(head2, tail2, before2, after2, at2, [Q EXCEPT ![p] = RemoveAt(Q[p], k)])
           /\ ListTypes(head2, tail2, before2, after2, at2)
<1> USE DEF Unlinks
<1>1. p \in Prices
  BY LinkedPlace
<1> DEFINE s == Q[p]
           n == Len(s)
<1>2. /\ s \in Seq(Orders) /\ n \in Nat /\ IsList(s, head[p], tail[p], before, after)
      /\ \A v \in Orders : at[v] = p <=> \E i \in 1..n : s[i] = v
      /\ \A v \in Orders : at[v] \in Prices \cup {Nil}
                             /\ (at[v] = Nil => before[v] = Null /\ after[v] = Null)
      /\ \A i \in 1..n : s[i] \in Orders
  BY <1>1 DEF Linked
<1>3. PICK k \in 1..n : /\ s[k] = u
                        /\ before[u] = IF k = 1 THEN Null ELSE s[k - 1]
                        /\ after[u] = IF k = n THEN Null ELSE s[k + 1]
  BY LinkedPlace
<1> DEFINE z == RemoveAt(s, k)
<1>4. /\ z \in Seq(Orders) /\ Len(z) = n - 1
      /\ \A i \in 1..n - 1 : z[i] = IF i < k THEN s[i] ELSE s[i + 1]
  <2> HIDE DEF s
  <2>1. s \in Seq(Orders)
    BY <1>2
  <2> QED
    BY <2>1, RemoveAtProperties
<1>5. IsInjective(s) /\ IsInjective(z) /\ Range(z) = Range(s) \ {u}
  BY <1>2, <1>3, RemoveAtRange DEF IsList
<1> HIDE DEF s, z
<1>6. /\ p # Nil /\ Null \notin Orders
      /\ \A i, j \in 1..n : s[i] = s[j] => i = j
      /\ \A i \in 1..n : at[s[i]] = p
  <2>1. DOMAIN s = 1..n
    BY <1>2
  <2> QED
    BY <2>1, <1>2, <1>5, NilProperties, TreeNullAssumption DEF IsInjective
<1>7. /\ head[p] = s[1] /\ tail[p] = s[n] /\ s # << >>
      /\ \A i \in 1..n : /\ before[s[i]] = IF i = 1 THEN Null ELSE s[i - 1]
                         /\ after[s[i]] = IF i = n THEN Null ELSE s[i + 1]
  <2>1. s # << >>
    BY <1>2, <1>3
  <2> QED
    BY <2>1, <1>2 DEF IsList
<1>8. /\ before[u] # Null => before[u] \in Orders /\ at[before[u]] = p /\ before[u] # u
      /\ after[u] # Null => after[u] \in Orders /\ at[after[u]] = p /\ after[u] # u
  <2>1. k # 1 => k - 1 \in 1..n /\ k - 1 # k
    BY <1>2
  <2>2. k # n => k + 1 \in 1..n /\ k + 1 # k
    BY <1>2
  <2> QED
    BY <2>1, <2>2, <1>2, <1>3, <1>6
<1>9. \A v \in Orders : /\ before2[v] = IF v = u THEN Null ELSE IF v = after[u] THEN before[u] ELSE before[v]
                        /\ after2[v] = IF v = u THEN Null ELSE IF v = before[u] THEN after[u] ELSE after[v]
                        /\ at2[v] = IF v = u THEN Nil ELSE at[v]
  BY DEF ListTypes
<1>10. /\ head2[p] = IF head[p] = u THEN after[u] ELSE head[p]
       /\ tail2[p] = IF tail[p] = u THEN before[u] ELSE tail[p]
       /\ \A r \in Prices \ {p} : head2[r] = head[r] /\ tail2[r] = tail[r]
  BY <1>1 DEF ListTypes
<1>11. ListTypes(head2, tail2, before2, after2, at2)
  <2>1. before[u] \in Orders \cup {Null} /\ after[u] \in Orders \cup {Null}
    BY DEF ListTypes
  <2>2. head2 \in [Prices -> Orders \cup {Null}] /\ tail2 \in [Prices -> Orders \cup {Null}]
    BY <2>1 DEF ListTypes
  <2>3. before2 \in [Orders -> Orders \cup {Null}] /\ after2 \in [Orders -> Orders \cup {Null}]
    BY <2>1 DEF ListTypes
  <2>4. at2 \in [Orders -> Prices \cup {Nil}]
    BY DEF ListTypes
  <2> QED
    BY <2>2, <2>3, <2>4 DEF ListTypes
<1>12. z = << >> <=> n = 1
  BY <1>2, <1>3, <1>4
<1>13. head2[p] = IF z = << >> THEN Null ELSE z[1]
  <2>1. head[p] = u <=> k = 1
    BY <1>2, <1>3, <1>6, <1>7
  <2>2. CASE k = 1
    <3>1. n # 1 => 1 \in 1..n - 1
      <4>1. n \in Nat /\ n # 0
        BY <1>2
      <4> HIDE DEF n
      <4> QED
        BY <4>1
    <3>2. ~(1 < k)
      BY <2>2
    <3> QED
      BY <2>1, <2>2, <3>1, <3>2, <1>3, <1>4, <1>10, <1>12
  <2>3. CASE k # 1
    <3>1. n # 1 /\ 1 \in 1..n - 1 /\ 1 < k
      BY <2>3, <1>2, <1>3
    <3> QED
      BY <2>1, <2>3, <3>1, <1>4, <1>7, <1>10, <1>12
  <2> QED
    BY <2>2, <2>3
<1>14. tail2[p] = IF z = << >> THEN Null ELSE z[Len(z)]
  <2>1. tail[p] = u <=> k = n
    BY <1>2, <1>3, <1>6, <1>7
  <2>2. CASE k = n
    <3>1. n # 1 => n - 1 \in 1..n - 1 /\ n - 1 < k
      BY <2>2, <1>2, <1>3
    <3> QED
      BY <2>1, <2>2, <3>1, <1>3, <1>4, <1>10, <1>12
  <2>3. CASE k # n
    <3>1. n # 1 /\ n - 1 \in 1..n - 1 /\ ~(n - 1 < k) /\ n - 1 + 1 = n
      BY <2>3, <1>2, <1>3
    <3> QED
      BY <2>1, <2>3, <3>1, <1>4, <1>7, <1>10, <1>12
  <2> QED
    BY <2>2, <2>3
<1>15. ASSUME NEW i \in 1..Len(z)
       PROVE  /\ before2[z[i]] = IF i = 1 THEN Null ELSE z[i - 1]
              /\ after2[z[i]] = IF i = Len(z) THEN Null ELSE z[i + 1]
  <2> DEFINE j == IF i < k THEN i ELSE i + 1
  <2>1. i \in 1..n - 1 /\ i \in Nat /\ k \in Nat /\ j \in 1..n /\ j # k /\ z[i] = s[j]
    BY <1>2, <1>3, <1>4
  <2>2. s[j] \in Orders /\ s[j] # u
    BY <2>1, <1>2, <1>3, <1>6
  <2>3. s[j] = before[u] <=> k # 1 /\ j = k - 1
    <3>1. k # 1 => k - 1 \in 1..n
      BY <1>2
    <3> QED
      BY <2>1, <2>2, <3>1, <1>3, <1>6
  <2>4. s[j] = after[u] <=> k # n /\ j = k + 1
    <3>1. k # n => k + 1 \in 1..n
      BY <1>2
    <3> QED
      BY <2>1, <2>2, <3>1, <1>3, <1>6
  <2>5. before2[z[i]] = IF s[j] = after[u] THEN before[u] ELSE before[s[j]]
    BY <2>1, <2>2, <1>9
  <2>6. after2[z[i]] = IF s[j] = before[u] THEN after[u] ELSE after[s[j]]
    BY <2>1, <2>2, <1>9
  <2>7. /\ before[s[j]] = IF j = 1 THEN Null ELSE s[j - 1]
        /\ after[s[j]] = IF j = n THEN Null ELSE s[j + 1]
    BY <2>1, <1>7
  <2>8. i # 1 => i - 1 \in 1..n - 1 /\ z[i - 1] = IF i - 1 < k THEN s[i - 1] ELSE s[i]
    <3>1. i # 1 => i - 1 \in 1..n - 1 /\ i - 1 + 1 = i
      BY <2>1, <1>2
    <3> QED
      BY <3>1, <1>4
  <2>9. i # n - 1 => i + 1 \in 1..n - 1 /\ z[i + 1] = IF i + 1 < k THEN s[i + 1] ELSE s[i + 2]
    <3>1. i # n - 1 => i + 1 \in 1..n - 1 /\ i + 1 + 1 = i + 2
      BY <2>1, <1>2
    <3> QED
      BY <3>1, <1>4
  <2>10. before2[z[i]] = IF i = 1 THEN Null ELSE z[i - 1]
    <3>1. CASE k # n /\ j = k + 1
      <4>1. i = k /\ ~(i < k)
        BY <3>1, <2>1
      <4>2. i # 1 => z[i - 1] = s[k - 1]
        BY <4>1, <2>1, <2>8
      <4> QED
        BY <3>1, <4>1, <4>2, <2>4, <2>5, <1>3
    <3>2. CASE j < k
      <4>1. j = i /\ s[j] # after[u]
        BY <3>2, <2>1, <2>4
      <4>2. i # 1 => i - 1 < k
        BY <3>2, <4>1, <2>1
      <4> QED
        BY <4>1, <4>2, <2>5, <2>7, <2>8
    <3>3. CASE j > k + 1
      <4>1. j = i + 1 /\ s[j] # after[u] /\ i # 1 /\ ~(i - 1 < k) /\ j # 1 /\ j - 1 = i
        BY <3>3, <2>1, <2>4
      <4> QED
        BY <4>1, <2>5, <2>7, <2>8
    <3>4. (k # n /\ j = k + 1) \/ j < k \/ j > k + 1
      BY <2>1, <1>2
    <3> QED
      BY <3>1, <3>2, <3>3, <3>4
  <2>11. after2[z[i]] = IF i = Len(z) THEN Null ELSE z[i + 1]
    <3>1. CASE k # 1 /\ j = k - 1
      <4>1. i = k - 1 /\ (i = n - 1 <=> k = n) /\ ~(i + 1 < k) /\ i + 2 = k + 1
        BY <3>1, <2>1, <1>2
      <4> QED
        BY <3>1, <4>1, <2>3, <2>6, <2>9, <1>3, <1>4
    <3>2. CASE j < k - 1
      <4>1. j = i /\ s[j] # before[u] /\ i # n - 1 /\ i + 1 < k /\ j # n
        BY <3>2, <2>1, <2>3, <1>2
      <4> QED
        BY <4>1, <2>6, <2>7, <2>9, <1>4
    <3>3. CASE j > k
      <4>1. j = i + 1 /\ s[j] # before[u] /\ (i = n - 1 <=> j = n) /\ ~(i + 1 < k) /\ j + 1 = i + 2
        BY <3>3, <2>1, <2>3, <1>2
      <4> QED
        BY <4>1, <2>6, <2>7, <2>9, <1>4
    <3>4. (k # 1 /\ j = k - 1) \/ j < k - 1 \/ j > k
      BY <2>1, <1>2
    <3> QED
      BY <3>1, <3>2, <3>3, <3>4
  <2> QED
    BY <2>10, <2>11
<1>16. IsList(z, head2[p], tail2[p], before2, after2)
  BY <1>5, <1>13, <1>14, <1>15 DEF IsList
<1>17. \A v \in Orders : at2[v] = p <=> \E i \in 1..Len(z) : z[i] = v
  <2> SUFFICES ASSUME NEW v \in Orders PROVE at2[v] = p <=> \E i \in 1..Len(z) : z[i] = v
    OBVIOUS
  <2>1. DOMAIN s = 1..n /\ DOMAIN z = 1..Len(z)
    BY <1>2, <1>4
  <2>2. v \in Range(z) <=> \E i \in 1..Len(z) : z[i] = v
    BY <2>1 DEF Range
  <2>3. v \in Range(s) <=> \E i \in 1..n : s[i] = v
    BY <2>1 DEF Range
  <2>4. at2[v] = p <=> v # u /\ at[v] = p
    BY <1>6, <1>9
  <2> QED
    BY <2>2, <2>3, <2>4, <1>2, <1>5
<1>18. ListChange(head, tail, before, after, at, head2, tail2, before2, after2, at2, p, z)
  <2>1. ASSUME NEW v \in Orders, at[v] \notin {p, Nil}
        PROVE  before2[v] = before[v] /\ after2[v] = after[v] /\ at2[v] = at[v]
    <3>1. v # u /\ v # before[u] /\ v # after[u]
      BY <2>1, <1>6, <1>8
    <3> QED
      BY <3>1, <1>9
  <2>2. ASSUME NEW v \in Orders, at[v] \in {p, Nil}
        PROVE  /\ at2[v] \in {p, Nil}
               /\ at2[v] = Nil => before2[v] = Null /\ after2[v] = Null
    <3>1. CASE v = u
      BY <3>1, <1>9
    <3>2. CASE v # u /\ at[v] = p
      BY <3>2, <1>6, <1>9
    <3>3. CASE v # u /\ at[v] = Nil
      <4>1. v # before[u] /\ v # after[u]
        BY <3>3, <1>6, <1>8
      <4> QED
        BY <3>3, <4>1, <1>2, <1>9
    <3> QED
      BY <2>2, <3>1, <3>2, <3>3
  <2> QED
    BY <2>1, <2>2, <1>10, <1>16, <1>17 DEF ListChange
<1>19. Linked(head2, tail2, before2, after2, at2, [Q EXCEPT ![p] = z])
  BY <1>1, <1>4, <1>18, LinkedChange
<1> QED
  BY <1>1, <1>3, <1>11, <1>19 DEF s, z

-----------------------------------------------------------------------------
(* The steps                                                               *)

\* What the user of the side sees, now and after a step.
LEMMA ViewIs ==
    ASSUME NEW Q, Linked(order_head, order_tail, prev, next, price, Q)
    PROVE  [p \in Prices |-> Queue(p)] = Q
<1>1. \A p \in Prices : Queue(p) = Q[p]
  BY ChainIs DEF Queue
<1>2. Q \in [Prices -> Seq(Orders)]
  BY DEF Linked
<1> QED
  BY <1>1, <1>2

LEMMA ViewIsNext ==
    ASSUME NEW Q, Linked(order_head', order_tail', prev', next', price', Q)
    PROVE  [p \in Prices |-> Queue(p)]' = Q
<1>1. \A p \in Prices : Queue(p)' = Q[p]
  BY ChainIs DEF Queue
<1>2. Q \in [Prices -> Seq(Orders)]
  BY DEF Linked
<1> QED
  BY <1>1, <1>2

\* IsBest after a step that does not change the side.
LEMMA IsBestNext ==
    ASSUME side' = side
    PROVE  /\ Abstract!IsBest(limits, best)' <=> Abstract!IsBest(limits', best')
           /\ \A P, b : Abstract!IsBest(P, b)' <=> Abstract!IsBest(P, b)
BY DEF Abstract!IsBest, Abstract!NoPrice

\* set_best: a new price is compared with the best one so far.
LEMMA SetBestIsBest ==
    ASSUME BestInv, limits \subseteq Prices, NEW p \in Prices
    PROVE  Abstract!IsBest(limits \cup {p}, SetBest(p))
<1>1. \A q \in Prices : q \in Nat /\ q # Nil
  BY NilProperties
<1>2. CASE limits = {}
  <2>1. best = Nil
    BY <1>2 DEF BestInv, Abstract!IsBest, Abstract!NoPrice, Nil
  <2>2. SetBest(p) = p
    BY <2>1 DEF SetBest
  <2> QED
    BY <2>2, <1>1, <1>2 DEF Abstract!IsBest
<1>3. CASE limits # {}
  <2>1. best \in limits /\ best \in Nat /\ best # Nil /\ p \in Nat
    BY <1>1, <1>3 DEF BestInv, Abstract!IsBest
  <2>2. CASE side = "Buy"
    <3>1. SetBest(p) = IF p > best THEN p ELSE best
      BY <2>1, <2>2 DEF SetBest
    <3>2. \A r \in limits : r <= best /\ r \in Nat
      BY <2>2, <1>1, <1>3 DEF BestInv, Abstract!IsBest
    <3>3. \A r \in limits \cup {p} : r <= SetBest(p)
      BY <2>1, <3>1, <3>2
    <3> QED
      BY <2>1, <2>2, <3>1, <3>3 DEF Abstract!IsBest
  <2>3. CASE side # "Buy"
    <3>1. SetBest(p) = IF p < best THEN p ELSE best
      BY <2>1, <2>3 DEF SetBest
    <3>2. \A r \in limits : r >= best /\ r \in Nat
      BY <2>3, <1>1, <1>3 DEF BestInv, Abstract!IsBest
    <3>3. \A r \in limits \cup {p} : r >= SetBest(p)
      BY <2>1, <3>1, <3>2
    <3> QED
      BY <2>1, <2>3, <3>1, <3>3 DEF Abstract!IsBest
  <2> QED
    BY <2>2, <2>3
<1> QED
  BY <1>2, <1>3

\* An order that rests nowhere is in no queue.
LEMMA NotResting ==
    ASSUME NEW Q, Linked(order_head, order_tail, prev, next, price, Q),
           NEW u \in Orders, price[u] = Nil
    PROVE  ~Abstract!Resting(u)
<1>1. [p \in Prices |-> Queue(p)] = Q
  BY ViewIs
<1>2. ASSUME NEW p \in Prices PROVE ~Abstract!Contains(Q[p], u)
  <2>1. price[u] # p
    BY NilProperties
  <2>2. Q[p] \in Seq(Orders) /\ ~\E i \in 1..Len(Q[p]) : Q[p][i] = u
    BY <2>1 DEF Linked
  <2>3. DOMAIN Q[p] = 1..Len(Q[p])
    BY <2>2
  <2> QED
    BY <2>2, <2>3 DEF Abstract!Contains
<1> QED
  BY <1>1, <1>2, Zenon DEF Abstract!Resting

\* Two views and the best price after a step: what BookSide asks of a step.
LEMMA BestOfLevels ==
    ASSUME NEW Q, Linked(order_head', order_tail', prev', next', price', Q),
           limits' = {p \in Prices : Q[p] # << >>}, side' = side, BestInv'
    PROVE  Abstract!IsBest(Abstract!Levels([p \in Prices |-> Queue(p)]'), best')
<1>1. [p \in Prices |-> Queue(p)]' = Q
  BY ViewIsNext
<1>2. Abstract!Levels([p \in Prices |-> Queue(p)]') = limits'
  BY <1>1 DEF Abstract!Levels
<1>3. Abstract!IsBest(limits', best')
  BY IsBestNext DEF BestInv
<1> QED
  BY <1>2, <1>3

\* limit, at a new price.
LEMMA LimitFirstStep ==
    ASSUME Inv, NEW u \in Orders, NEW p \in Prices, LimitFirst(u, p)
    PROVE  Inv' /\ Abstract!Limit(u, p)
<1>1. PICK B : IsTree(tree, limits, B)
  BY DEF Inv, TreeInv
<1>2. PICK Q : /\ Linked(order_head, order_tail, prev, next, price, Q)
               /\ limits = {r \in Prices : Q[r] # << >>}
  BY DEF Inv, ListInv
<1> DEFINE Q2 == [Q EXCEPT ![p] = Append(Q[p], u)]
<1>3. /\ price[u] = Nil /\ p \notin limits /\ side' = side
      /\ tree' = Insert(tree, p) /\ best' = SetBest(p) /\ limits' = limits \cup {p}
      /\ order_head' = [order_head EXCEPT ![p] = u]
      /\ order_tail' = [order_tail EXCEPT ![p] = u]
      /\ price' = [price EXCEPT ![u] = p] /\ prev' = prev /\ next' = next
  BY DEF LimitFirst
<1>4. Q \in [Prices -> Seq(Orders)] /\ Q[p] = << >>
  BY <1>2, <1>3 DEF Linked
<1>5. TreeInv'
  <2>1. IsFiniteSet(limits') /\ IsFiniteSet(limits)
    BY <1>3, FS_AddElement DEF Inv, TreeInv
  <2>2. (\E C : IsTree(tree', limits', C)) /\ Clean(tree', limits')
    BY <2>1, <1>1, <1>3, InsertTree DEF Inv, TreeInv
  <2> QED
    BY <2>1, <2>2 DEF TreeInv
<1>6. /\ Linked(order_head', order_tail', prev', next', price', Q2)
      /\ ListTypes(order_head', order_tail', prev', next', price')
  <2>1. ListTypes(order_head, order_tail, prev, next, price)
    BY DEF Inv, ListInv
  <2> QED
    BY <2>1, <1>2, <1>3, <1>4, LinkedAppend
<1>7. limits' = {r \in Prices : Q2[r] # << >>}
  <2>1. Append(Q[p], u) # << >>
    BY <1>4, AppendProperties
  <2>2. \A r \in Prices : Q2[r] = IF r = p THEN Append(Q[p], u) ELSE Q[r]
    BY <1>4
  <2> HIDE DEF Q2
  <2> QED
    BY <2>1, <2>2, <1>2, <1>3
<1> HIDE DEF Q2
<1>8. ListInv'
  BY <1>6, <1>7 DEF ListInv
<1>9. BestInv'
  <2>1. Abstract!IsBest(limits', best')
    BY <1>2, <1>3, SetBestIsBest DEF Inv
  <2> QED
    BY <2>1, <1>3, IsBestNext DEF Inv, BestInv
<1>10. Abstract!Limit(u, p)
  <2>1. [r \in Prices |-> Queue(r)] = Q /\ [r \in Prices |-> Queue(r)]' = Q2
    BY <1>2, <1>6, ViewIs, ViewIsNext
  <2>2. ~Abstract!Resting(u)
    BY <1>2, <1>3, NotResting
  <2>3. Abstract!IsBest(Abstract!Levels([r \in Prices |-> Queue(r)]'), best')
    BY <1>3, <1>6, <1>7, <1>9, BestOfLevels
  <2>4. [r \in Prices |-> Queue(r)]'
          = [[r \in Prices |-> Queue(r)] EXCEPT ![p] = Append([r \in Prices |-> Queue(r)][p], u)]
    BY <2>1 DEF Q2
  <2> QED
    BY <2>2, <2>3, <2>4, <1>3 DEF Abstract!Limit
<1> QED
  BY <1>5, <1>8, <1>9, <1>10 DEF Inv

\* limit, behind other orders.
LEMMA LimitBehindStep ==
    ASSUME Inv, NEW u \in Orders, NEW p \in Prices, LimitBehind(u, p)
    PROVE  Inv' /\ Abstract!Limit(u, p)
<1>1. PICK Q : /\ Linked(order_head, order_tail, prev, next, price, Q)
               /\ limits = {r \in Prices : Q[r] # << >>}
  BY DEF Inv, ListInv
<1> DEFINE Q2 == [Q EXCEPT ![p] = Append(Q[p], u)]
<1>2. /\ price[u] = Nil /\ p \in limits /\ side' = side
      /\ tree' = tree /\ best' = best /\ limits' = limits
      /\ next' = [next EXCEPT ![order_tail[p]] = u]
      /\ prev' = [prev EXCEPT ![u] = order_tail[p]]
      /\ order_tail' = [order_tail EXCEPT ![p] = u]
      /\ price' = [price EXCEPT ![u] = p] /\ order_head' = order_head
  BY DEF LimitBehind
<1>3. Q \in [Prices -> Seq(Orders)] /\ Q[p] # << >>
  BY <1>1, <1>2 DEF Linked
<1>4. TreeInv'
  BY <1>2 DEF Inv, TreeInv
<1>5. /\ Linked(order_head', order_tail', prev', next', price', Q2)
      /\ ListTypes(order_head', order_tail', prev', next', price')
  <2>1. ListTypes(order_head, order_tail, prev, next, price)
    BY DEF Inv, ListInv
  <2>2. /\ order_head' = IF Q[p] = << >> THEN [order_head EXCEPT ![p] = u] ELSE order_head
        /\ prev' = IF Q[p] = << >> THEN prev ELSE [prev EXCEPT ![u] = order_tail[p]]
        /\ next' = IF Q[p] = << >> THEN next ELSE [next EXCEPT ![order_tail[p]] = u]
    BY <1>2, <1>3
  <2>3. /\ price[u] = Nil /\ order_tail' = [order_tail EXCEPT ![p] = u]
        /\ price' = [price EXCEPT ![u] = p]
    BY <1>2
  <2> QED
    BY <2>1, <2>2, <2>3, <1>1, LinkedAppend, ZenonT(30)
<1>6. limits' = {r \in Prices : Q2[r] # << >>}
  <2>1. Append(Q[p], u) # << >>
    BY <1>3, AppendProperties
  <2>2. \A r \in Prices : Q2[r] = IF r = p THEN Append(Q[p], u) ELSE Q[r]
    BY <1>3
  <2> HIDE DEF Q2
  <2> QED
    BY <2>1, <2>2, <1>1, <1>2
<1> HIDE DEF Q2
<1>7. ListInv'
  BY <1>5, <1>6 DEF ListInv
<1>8. BestInv'
  BY <1>2, IsBestNext DEF Inv, BestInv
<1>9. Abstract!Limit(u, p)
  <2>1. [r \in Prices |-> Queue(r)] = Q /\ [r \in Prices |-> Queue(r)]' = Q2
    BY <1>1, <1>5, ViewIs, ViewIsNext
  <2>2. ~Abstract!Resting(u)
    BY <1>1, <1>2, NotResting
  <2>3. Abstract!IsBest(Abstract!Levels([r \in Prices |-> Queue(r)]'), best')
    BY <1>2, <1>5, <1>6, <1>8, BestOfLevels
  <2>4. [r \in Prices |-> Queue(r)]'
          = [[r \in Prices |-> Queue(r)] EXCEPT ![p] = Append([r \in Prices |-> Queue(r)][p], u)]
    BY <2>1 DEF Q2
  <2> QED
    BY <2>2, <2>3, <2>4, <1>2 DEF Abstract!Limit
<1> QED
  BY <1>4, <1>7, <1>8, <1>9 DEF Inv

\* What is left of the lists when order u has gone, from what LinkedRemove says.
LEMMA LeaveView ==
    ASSUME NEW Q, Linked(order_head, order_tail, prev, next, price, Q),
           NEW p \in Prices, NEW k \in 1..Len(Q[p]),
           Linked(order_head', order_tail', prev', next', price',
                  [Q EXCEPT ![p] = RemoveAt(Q[p], k)]),
           limits' = {r \in Prices : [Q EXCEPT ![p] = RemoveAt(Q[p], k)][r] # << >>},
           side' = side, BestInv'
    PROVE  Abstract!Next
<1> DEFINE Q2 == [Q EXCEPT ![p] = RemoveAt(Q[p], k)]
<1>1. Q \in [Prices -> Seq(Orders)]
  BY DEF Linked
<1>2. [r \in Prices |-> Queue(r)] = Q
  BY ViewIs
<1>3. [r \in Prices |-> Queue(r)]' = Q2
  BY ViewIsNext
<1>4. Abstract!IsBest(Abstract!Levels([r \in Prices |-> Queue(r)]'), best')
  <2> HIDE DEF Q2
  <2>1. /\ Linked(order_head', order_tail', prev', next', price', Q2)
        /\ limits' = {r \in Prices : Q2[r] # << >>}
    BY DEF Q2
  <2> QED
    BY <2>1, BestOfLevels
<1>5. [r \in Prices |-> Queue(r)]'
        = [[r \in Prices |-> Queue(r)] EXCEPT ![p] = Abstract!RemoveAt([r \in Prices |-> Queue(r)][p], k)]
  BY <1>2, <1>3 DEF Abstract!RemoveAt, RemoveAt
<1>6. Abstract!Leave(p, k)
  BY <1>4, <1>5 DEF Abstract!Leave
<1>7. k \in DOMAIN [r \in Prices |-> Queue(r)][p]
  BY <1>1, <1>2
<1> QED
  BY <1>6, <1>7 DEF Abstract!Next

\* remove, with other orders at the price.
LEMMA RemoveOneStep ==
    ASSUME Inv, NEW u \in Orders, RemoveOne(u)
    PROVE  Inv' /\ Abstract!Next
<1> DEFINE p == price[u]
<1>1. PICK Q : /\ Linked(order_head, order_tail, prev, next, price, Q)
               /\ limits = {r \in Prices : Q[r] # << >>}
  BY DEF Inv, ListInv
<1>2. /\ p # Nil /\ ~IsLast(u) /\ side' = side /\ tree' = tree /\ best' = best /\ limits' = limits
      /\ Unlinks(order_head, order_tail, prev, next, price,
                 order_head', order_tail', prev', next', price', p, u)
  BY DEF RemoveOne, Unlinks
<1>3. ListTypes(order_head, order_tail, prev, next, price)
  BY DEF Inv, ListInv
<1>4. /\ p \in Prices
      /\ \E k \in 1..Len(Q[p]) :
            /\ Q[p][k] = u
            /\ Linked(order_head', order_tail', prev', next', price',
                      [Q EXCEPT ![p] = RemoveAt(Q[p], k)])
      /\ ListTypes(order_head', order_tail', prev', next', price')
  <2> HIDE DEF p
  <2>1. Linked(order_head, order_tail, prev, next, price, Q)
    BY <1>1
  <2>2. Unlinks(order_head, order_tail, prev, next, price,
                order_head', order_tail', prev', next', price', p, u)
    BY <1>2
  <2> QED
    BY <2>1, <2>2, <1>3, LinkedRemove
<1>5. PICK k \in 1..Len(Q[p]) :
            /\ Q[p][k] = u
            /\ Linked(order_head', order_tail', prev', next', price',
                      [Q EXCEPT ![p] = RemoveAt(Q[p], k)])
  BY <1>4
<1> DEFINE Q2 == [Q EXCEPT ![p] = RemoveAt(Q[p], k)]
<1>6. limits' = {r \in Prices : Q2[r] # << >>}
  <2>1. Q \in [Prices -> Seq(Orders)] /\ Q[p] \in Seq(Orders)
    BY <1>1, <1>4 DEF Linked
  <2>2. /\ prev[u] = IF k = 1 THEN Null ELSE Q[p][k - 1]
        /\ next[u] = IF k = Len(Q[p]) THEN Null ELSE Q[p][k + 1]
    BY <1>1, <1>4, <1>5 DEF Linked, IsList
  <2>3. Len(Q[p]) # 1
    <3> SUFFICES ASSUME Len(Q[p]) = 1 PROVE FALSE
      OBVIOUS
    <3>1. k = 1 /\ k = Len(Q[p])
      BY <1>5
    <3> QED
      BY <3>1, <2>2, <1>2 DEF IsLast
  <2>4. Len(RemoveAt(Q[p], k)) = Len(Q[p]) - 1
    BY <2>1, RemoveAtProperties
  <2>5. RemoveAt(Q[p], k) # << >> /\ Q[p] # << >>
    <3>1. Len(Q[p]) \in Nat /\ Len(Q[p]) # 0
      BY <2>1
    <3>2. Len(RemoveAt(Q[p], k)) # 0
      BY <2>3, <2>4, <3>1
    <3> QED
      BY <3>1, <3>2
  <2>6. \A r \in Prices : Q2[r] = IF r = p THEN RemoveAt(Q[p], k) ELSE Q[r]
    BY <2>1
  <2> HIDE DEF Q2, p
  <2> QED
    BY <2>5, <2>6, <1>1, <1>2
<1>7. TreeInv'
  BY <1>2 DEF Inv, TreeInv
<1>8. ListInv'
  <2> HIDE DEF Q2
  <2>1. Linked(order_head', order_tail', prev', next', price', Q2)
    BY <1>5 DEF Q2
  <2> QED
    BY <2>1, <1>4, <1>6 DEF ListInv
<1>9. BestInv'
  BY <1>2, IsBestNext DEF Inv, BestInv
<1>10. Abstract!Next
  BY <1>1, <1>2, <1>4, <1>5, <1>6, <1>9, LeaveView
<1> QED
  BY <1>7, <1>8, <1>9, <1>10 DEF Inv

\* remove, of the last order at its price.
LEMMA RemoveLastStep ==
    ASSUME Inv, NEW u \in Orders, RemoveLast(u)
    PROVE  Inv' /\ Abstract!Next
<1> DEFINE p == price[u]
           t == Unlinked(tree, p)
<1>1. PICK B : IsTree(tree, limits, B)
  BY DEF Inv, TreeInv
<1>2. PICK Q : /\ Linked(order_head, order_tail, prev, next, price, Q)
               /\ limits = {r \in Prices : Q[r] # << >>}
  BY DEF Inv, ListInv
<1>3. /\ p # Nil /\ prev[u] = Null /\ next[u] = Null /\ side' = side
      /\ tree' = Freed(t, p) /\ best' = (IF best = p THEN FindBest(t, p) ELSE best)
      /\ limits' = limits \ {p}
      /\ order_head' = [order_head EXCEPT ![p] = Null]
      /\ order_tail' = [order_tail EXCEPT ![p] = Null]
      /\ prev' = prev /\ next' = next /\ price' = [price EXCEPT ![u] = Nil]
  BY DEF RemoveLast, IsLast
<1>4. ListTypes(order_head, order_tail, prev, next, price)
  BY DEF Inv, ListInv
<1>5. p \in Prices /\ Q[p] \in Seq(Orders) /\ Q \in [Prices -> Seq(Orders)]
  BY <1>2, <1>3, LinkedPlace DEF Linked
<1>6. Len(Q[p]) = 1 /\ Q[p][1] = u
  <2>1. PICK i \in 1..Len(Q[p]) :
              /\ Q[p][i] = u
              /\ prev[u] = IF i = 1 THEN Null ELSE Q[p][i - 1]
              /\ next[u] = IF i = Len(Q[p]) THEN Null ELSE Q[p][i + 1]
    BY <1>2, <1>3, LinkedPlace
  <2>2. \A j \in 1..Len(Q[p]) : Q[p][j] # Null
    BY <1>5, TreeNullAssumption
  <2>3. i # 1 => i - 1 \in 1..Len(Q[p])
    BY <1>5
  <2>4. i # Len(Q[p]) => i + 1 \in 1..Len(Q[p])
    BY <1>5
  <2>5. i = 1 /\ i = Len(Q[p])
    BY <2>1, <2>2, <2>3, <2>4, <1>3
  <2> QED
    BY <2>1, <2>5
<1>7. order_head[p] = u /\ order_tail[p] = u
  <2>1. Q[p] # << >>
    BY <1>5, <1>6
  <2> QED
    BY <2>1, <1>2, <1>5, <1>6 DEF Linked, IsList
\* With neither a neighbour before nor one after, DLL::remove would do the same.
<1>8. Unlinks(order_head, order_tail, prev, next, price,
              order_head', order_tail', prev', next', price', p, u)
  <2>1. prev = [o \in Orders |-> prev[o]] /\ next = [o \in Orders |-> next[o]]
    BY <1>4 DEF ListTypes
  <2>2. \A o \in Orders : /\ prev[o] = IF o = u THEN Null
                                       ELSE IF o = next[u] THEN prev[u] ELSE prev[o]
                          /\ next[o] = IF o = u THEN Null
                                       ELSE IF o = prev[u] THEN next[u] ELSE next[o]
    BY <1>3, TreeNullAssumption
  <2>3. /\ prev = [o \in Orders |-> IF o = u THEN Null
                                    ELSE IF o = next[u] THEN prev[u] ELSE prev[o]]
        /\ next = [o \in Orders |-> IF o = u THEN Null
                                    ELSE IF o = prev[u] THEN next[u] ELSE next[o]]
    BY <2>1, <2>2
  <2> QED
    BY <2>3, <1>3, <1>7 DEF Unlinks
<1>9. /\ \E k \in 1..Len(Q[p]) :
            /\ Q[p][k] = u
            /\ Linked(order_head', order_tail', prev', next', price',
                      [Q EXCEPT ![p] = RemoveAt(Q[p], k)])
      /\ ListTypes(order_head', order_tail', prev', next', price')
  <2> HIDE DEF p
  <2> QED
    BY <1>2, <1>4, <1>8, LinkedRemove
<1>10. PICK k \in 1..Len(Q[p]) :
            /\ Q[p][k] = u
            /\ Linked(order_head', order_tail', prev', next', price',
                      [Q EXCEPT ![p] = RemoveAt(Q[p], k)])
  BY <1>9
<1> DEFINE Q2 == [Q EXCEPT ![p] = RemoveAt(Q[p], k)]
<1>11. limits' = {r \in Prices : Q2[r] # << >>}
  <2>1. RemoveAt(Q[p], k) \in Seq(Orders) /\ Len(RemoveAt(Q[p], k)) = Len(Q[p]) - 1
    BY <1>5, RemoveAtProperties
  <2>2. RemoveAt(Q[p], k) = << >>
    BY <2>1, <1>6
  <2>3. \A r \in Prices : Q2[r] = IF r = p THEN RemoveAt(Q[p], k) ELSE Q[r]
    BY <1>5
  <2> HIDE DEF Q2, p
  <2> QED
    BY <2>2, <2>3, <1>2, <1>3
<1>12. p \in limits
  BY <1>2, <1>5, <1>6
<1>13. IsFiniteSet(limits) /\ Clean(tree, limits)
  BY DEF Inv, TreeInv
<1>14. TreeInv'
  <2>1. IsFiniteSet(limits')
    BY <1>3, <1>13, FS_Subset
  <2>2. (\E C : IsTree(tree', limits', C)) /\ Clean(tree', limits')
    BY <1>1, <1>3, <1>12, <1>13, RemoveTree
  <2> QED
    BY <2>1, <2>2 DEF TreeInv
<1>15. ListInv'
  <2> HIDE DEF Q2
  <2>1. Linked(order_head', order_tail', prev', next', price', Q2)
    BY <1>10 DEF Q2
  <2> QED
    BY <2>1, <1>9, <1>11 DEF ListInv
<1>16. BestInv'
  <2>1. side \in {"Sell", "Buy"} /\ Abstract!IsBest(limits, best)
    BY DEF Inv, BestInv
  <2>2. Abstract!IsBest(limits', best')
    <3>1. CASE best = p
      BY <2>1, <3>1, <1>1, <1>3, <1>12, <1>13, FindBestIsBest
    <3>2. CASE best # p
      BY <2>1, <3>2, <1>3, <1>12 DEF Abstract!IsBest
    <3> QED
      BY <3>1, <3>2
  <2> QED
    <3> HIDE DEF p, t
    <3>1. side' = side
      BY <1>3
    <3> QED
      BY <2>1, <2>2, <3>1, IsBestNext DEF BestInv
<1>17. Abstract!Next
  <2>1. side' = side /\ Linked(order_head, order_tail, prev, next, price, Q)
    BY <1>2, <1>3
  <2>2. /\ p \in Prices /\ k \in 1..Len(Q[p])
        /\ Linked(order_head', order_tail', prev', next', price',
                  [Q EXCEPT ![p] = RemoveAt(Q[p], k)])
        /\ limits' = {r \in Prices : [Q EXCEPT ![p] = RemoveAt(Q[p], k)][r] # << >>}
    BY <1>5, <1>10, <1>11
  <2> HIDE DEF p, Q2
  <2> QED
    BY <2>1, <2>2, <1>16, LeaveView
<1> QED
  BY <1>14, <1>15, <1>16, <1>17 DEF Inv

\* An empty side: no node, and no list.
LEMMA EmptySide ==
    ASSUME NEW t, NEW b, NEW ls, NEW head, NEW tail, NEW before, NEW after, NEW at,
           Empty(t, b, ls, head, tail, before, after, at)
    PROVE  /\ ls = {} /\ b = Nil /\ IsFiniteSet(ls)
           /\ IsTree(t, ls, [x \in {Nil} |-> {}]) /\ Clean(t, ls)
           /\ ListTypes(head, tail, before, after, at)
           /\ Linked(head, tail, before, after, at, [p \in Prices |-> << >>])
           /\ ls = {p \in Prices : [q \in Prices |-> << >>][p] # << >>}
<1>1. /\ t = EmptyTree /\ b = Nil /\ ls = {}
      /\ head = [q \in Prices |-> Null] /\ tail = [q \in Prices |-> Null]
      /\ before = [o \in Orders |-> Null] /\ after = [o \in Orders |-> Null]
      /\ at = [o \in Orders |-> Nil]
  BY DEF Empty
<1>2. IsTree(t, ls, [x \in {Nil} |-> {}])
  <2> DEFINE B == [x \in {Nil} |-> {}]
  <2>1. t \in Pointers /\ t.root = Nil
    BY <1>1 DEF Pointers, EmptyTree
  <2>2. B \in [ls \cup {Nil} -> SUBSET ls] /\ B[Nil] = {}
    BY <1>1
  <2> HIDE DEF B
  <2>3. Closed(t, ls) /\ Sorted(t, ls, B) /\ Parents(t, ls)
    BY <1>1, <2>1 DEF Closed, Sorted, Parents
  <2>4. Branches(t, ls, B)
    BY <1>1, <2>1, <2>2 DEF Branches
  <2> QED
    BY <1>1, <2>1, <2>3, <2>4 DEF IsTree, B
<1>3. Clean(t, ls)
  BY <1>1 DEF Clean, EmptyTree
<1>4. ListTypes(head, tail, before, after, at)
  BY <1>1 DEF ListTypes
<1>5. Linked(head, tail, before, after, at, [p \in Prices |-> << >>])
  <2> DEFINE Q == [p \in Prices |-> << >>]
  <2>1. << >> \in Seq(Orders) /\ Len(<< >>) = 0 /\ IsInjective(<< >>)
    BY DEF IsInjective
  <2>2. Q \in [Prices -> Seq(Orders)] /\ \A p \in Prices : Q[p] = << >>
    BY <2>1
  <2> HIDE DEF Q
  <2>3. \A p \in Prices : head[p] = Null /\ tail[p] = Null
    BY <1>1
  <2>4. \A p \in Prices : IsList(Q[p], head[p], tail[p], before, after)
    BY <2>1, <2>2, <2>3 DEF IsList
  <2>5. \A u \in Orders : at[u] = Nil /\ before[u] = Null /\ after[u] = Null
    BY <1>1
  <2>6. \A u \in Orders, p \in Prices : at[u] = p <=> \E i \in 1..Len(Q[p]) : Q[p][i] = u
    BY <2>1, <2>2, <2>5, NilProperties
  <2> QED
    BY <2>2, <2>4, <2>5, <2>6 DEF Linked, Q
<1>6. ls = {p \in Prices : [q \in Prices |-> << >>][p] # << >>}
  BY <1>1
<1> QED
  BY <1>1, <1>2, <1>3, <1>4, <1>5, <1>6, FS_EmptySet

\* The constructor.
LEMMA InitStep == Init => Inv /\ Abstract!Init
<1> SUFFICES ASSUME Init PROVE Inv /\ Abstract!Init
  OBVIOUS
<1> DEFINE Q == [p \in Prices |-> << >>]
<1>1. side \in {"Sell", "Buy"}
      /\ Empty(tree, best, limits, order_head, order_tail, prev, next, price)
  BY DEF Init
<1>2. /\ limits = {} /\ best = Nil /\ IsFiniteSet(limits)
      /\ IsTree(tree, limits, [x \in {Nil} |-> {}]) /\ Clean(tree, limits)
      /\ ListTypes(order_head, order_tail, prev, next, price)
      /\ Linked(order_head, order_tail, prev, next, price, Q)
      /\ limits = {p \in Prices : Q[p] # << >>}
  BY <1>1, EmptySide
<1>3. TreeInv /\ ListInv
  <2> HIDE DEF Q
  <2> QED
    BY <1>2 DEF TreeInv, ListInv
<1>4. BestInv
  BY <1>1, <1>2 DEF BestInv, Abstract!IsBest, Abstract!NoPrice, Nil
<1>5. [p \in Prices |-> Queue(p)] = Q
  BY <1>2, ViewIs
<1>6. Abstract!Init
  BY <1>1, <1>2, <1>5 DEF Abstract!Init, Abstract!NoPrice, Nil
<1> QED
  BY <1>3, <1>4, <1>6 DEF Inv

\* clear.
LEMMA ClearStep ==
    ASSUME Inv, Clear
    PROVE  Inv' /\ Abstract!Clear
<1> DEFINE Q == [p \in Prices |-> << >>]
<1>1. /\ side' = side /\ side \in {"Sell", "Buy"}
      /\ Empty(tree', best', limits', order_head', order_tail', prev', next', price')
  BY DEF Clear, Inv, BestInv
<1>2. /\ limits' = {} /\ best' = Nil /\ IsFiniteSet(limits')
      /\ IsTree(tree', limits', [x \in {Nil} |-> {}]) /\ Clean(tree', limits')
      /\ ListTypes(order_head', order_tail', prev', next', price')
      /\ Linked(order_head', order_tail', prev', next', price', Q)
      /\ limits' = {p \in Prices : Q[p] # << >>}
  BY <1>1, EmptySide
<1>3. TreeInv' /\ ListInv'
  <2> HIDE DEF Q
  <2> QED
    BY <1>2 DEF TreeInv, ListInv
<1>4. BestInv'
  <2>1. Abstract!IsBest(limits', best')
    BY <1>2 DEF Abstract!IsBest, Abstract!NoPrice, Nil
  <2> QED
    BY <2>1, <1>1, IsBestNext DEF BestInv
<1>5. [p \in Prices |-> Queue(p)]' = Q
  BY <1>2, ViewIsNext
<1>6. Abstract!Clear
  BY <1>1, <1>2, <1>5 DEF Abstract!Clear, Abstract!NoPrice, Nil
<1> QED
  BY <1>3, <1>4, <1>6 DEF Inv

\* A step that changes nothing.
LEMMA SideStutter ==
    ASSUME Inv, UNCHANGED treeVars
    PROVE  Inv' /\ UNCHANGED Abstract!sideVars
<1>1. /\ side' = side /\ tree' = tree /\ best' = best /\ limits' = limits /\ price' = price
      /\ order_head' = order_head /\ order_tail' = order_tail /\ prev' = prev /\ next' = next
  BY DEF treeVars, lists
<1>2. Inv'
  <2>1. TreeInv' /\ ListInv'
    BY <1>1 DEF Inv, TreeInv, ListInv
  <2>2. BestInv'
    BY <1>1, IsBestNext DEF Inv, BestInv
  <2> QED
    BY <2>1, <2>2 DEF Inv
<1>3. PICK Q : Linked(order_head, order_tail, prev, next, price, Q)
  BY DEF Inv, ListInv
<1>4. [p \in Prices |-> Queue(p)]' = Q
  BY <1>1, <1>3, ViewIsNext
<1>5. [p \in Prices |-> Queue(p)] = Q
  BY <1>3, ViewIs
<1> QED
  BY <1>1, <1>2, <1>4, <1>5 DEF Abstract!sideVars

\* Every step keeps the invariant, and is a step of BookSide or none.
LEMMA SideStep == Inv /\ [Next]_treeVars => Inv' /\ [Abstract!Next]_(Abstract!sideVars)
<1> SUFFICES ASSUME Inv, [Next]_treeVars PROVE Inv' /\ [Abstract!Next]_(Abstract!sideVars)
  OBVIOUS
<1>1. CASE UNCHANGED treeVars
  BY <1>1, SideStutter
<1>2. ASSUME NEW u \in Orders, NEW p \in Prices, LimitFirst(u, p) \/ LimitBehind(u, p)
      PROVE  Inv' /\ Abstract!Next
  BY <1>2, LimitFirstStep, LimitBehindStep DEF Abstract!Next
<1>3. ASSUME NEW u \in Orders, RemoveLast(u) \/ RemoveOne(u) PROVE Inv' /\ Abstract!Next
  BY <1>3, RemoveLastStep, RemoveOneStep
<1>4. CASE Clear
  BY <1>4, ClearStep DEF Abstract!Next
<1> QED
  BY <1>1, <1>2, <1>3, <1>4 DEF Next

\* The invariant has what SearchTree says.
LEMMA InvSearchTree == Inv => SearchTree
<1> SUFFICES ASSUME Inv PROVE SearchTree
  OBVIOUS
<1>1. PICK B : IsTree(tree, limits, B)
  BY DEF Inv, TreeInv
<1>2. \A x \in limits \cup {Nil} : Branch(tree)[x] = B[x]
  BY <1>1, BranchAgrees DEF Inv, TreeInv
<1>3. Branch(tree)[tree.root] = limits
  BY <1>1, <1>2 DEF IsTree, Closed, Branches
<1>4. ASSUME NEW p \in limits
      PROVE  /\ \A q \in Branch(tree)[tree.left[p]] : q < p
             /\ \A q \in Branch(tree)[tree.right[p]] : q > p
             /\ IF p = tree.root THEN tree.parent[p] = Nil
                ELSE tree.parent[p] \in limits
                       /\ p \in {tree.left[tree.parent[p]], tree.right[tree.parent[p]]}
  <2>1. /\ tree.left[p] \in limits \cup {Nil} /\ tree.right[p] \in limits \cup {Nil}
        /\ \A q \in B[tree.left[p]] : q < p /\ q \in limits
        /\ \A q \in B[tree.right[p]] : p < q /\ q \in limits
    BY <1>1, NodeProperties
  <2>2. \A q \in limits : q \in Nat
    BY <1>1, NodeProperties
  <2>3. /\ \A q \in Branch(tree)[tree.left[p]] : q < p
        /\ \A q \in Branch(tree)[tree.right[p]] : q > p
    BY <2>1, <2>2, <1>2
  <2>4. IF p = tree.root THEN tree.parent[p] = Nil
        ELSE tree.parent[p] \in limits
               /\ p \in {tree.left[tree.parent[p]], tree.right[tree.parent[p]]}
    BY <1>1, LinkProperties
  <2> QED
    BY <2>3, <2>4
<1> QED
  BY <1>3, <1>4 DEF SearchTree

-----------------------------------------------------------------------------
(* The theorems                                                            *)

LEMMA SideInvariance == Spec => []Inv
<1>1. Init => Inv
  BY InitStep
<1>2. Inv /\ [Next]_treeVars => Inv'
  BY SideStep
<1> QED
  BY <1>1, <1>2, PTL DEF Spec

\* Whatever limits are inserted and removed, in whatever order, those with two
\* branches included: BST::insert and BST::remove leave a search tree of exactly
\* the limits of the map, with parent pointers that agree with the links.
THEOREM SearchTreeCorrect == Spec => []SearchTree
  BY SideInvariance, InvSearchTree, PTL

\* LimitTree with its pointers does what BookSide promises to the book that uses
\* it: limit, remove and clear leave each price its orders in order of arrival,
\* and set_best and find_best leave best at the best price that has any.
THEOREM TreeImplementsSide == Spec => ImplementsSide
<1>1. Init => Abstract!Init
  BY InitStep
<1>2. Inv /\ [Next]_treeVars => [Abstract!Next]_(Abstract!sideVars)
  BY SideStep
<1> QED
  BY <1>1, <1>2, SideInvariance, PTL DEF Spec, ImplementsSide, Abstract!Spec
=============================================================================
