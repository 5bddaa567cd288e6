----------------------------- MODULE FoldProofs -----------------------------
(***************************************************************************)
(* What FoldLeft computes, for any operator: the value it has reached      *)
(* after each element of the sequence.                                     *)
(***************************************************************************)
EXTENDS Integers, Sequences, SequencesExt, CollectionProofs

CONSTANT Op(_, _)   \* the operator that is folded over a sequence

\* Op, folded over seq from its first element on.
Folded(base, seq) == FoldLeft(Op, base, seq)

\* g is the recursive function behind FoldLeft, on the subsets of 1..n.
IsFold(base, seq, n, g) ==
    g = [t \in SUBSET (1..n) |->
           IF t = {} THEN base ELSE Op(g[t \ {Max(t)}], seq[Max(t)])]

\* The values v that the fold reaches after each of the first n elements.
IsRun(base, seq, n, v) ==
    v[0] = base /\ \A i \in 1..n : v[i] = Op(v[i - 1], seq[i])

\* The largest of the elements that contain n and nothing larger.
LEMMA MaxUpTo ==
    ASSUME NEW n \in Nat, NEW t \in SUBSET (1..n), n \in t
    PROVE  Max(t) = n
<1>1. \A y \in t : y \in Int /\ n >= y
  OBVIOUS
<1>2. \A x \in t : (\A y \in t : x >= y) => x = n
  BY <1>1
<1> QED
  BY <1>1, <1>2 DEF Max

\* There is such a function for every n.
LEMMA FoldExists ==
    ASSUME NEW base, NEW seq
    PROVE  \A n \in Nat : \E g : IsFold(base, seq, n, g)
<1> DEFINE T == {n \in Nat : \E g : IsFold(base, seq, n, g)}
<1>1. 0 \in T
  <2> DEFINE g == [t \in SUBSET (1..0) |-> base]
  <2>1. \A t \in SUBSET (1..0) : t = {}
    OBVIOUS
  <2>2. g = [t \in SUBSET (1..0) |->
               IF t = {} THEN base ELSE Op(g[t \ {Max(t)}], seq[Max(t)])]
    BY <2>1
  <2> QED
    BY <2>2 DEF IsFold
<1>2. ASSUME NEW n \in Nat, n \in T PROVE n + 1 \in T
  <2>1. PICK g : g = [t \in SUBSET (1..n) |->
                        IF t = {} THEN base ELSE Op(g[t \ {Max(t)}], seq[Max(t)])]
    BY <1>2 DEF IsFold
  <2> DEFINE h == [t \in SUBSET (1..(n + 1)) |->
                     IF n + 1 \in t THEN Op(g[t \ {n + 1}], seq[n + 1]) ELSE g[t]]
             Val(t) == IF t = {} THEN base ELSE Op(h[t \ {Max(t)}], seq[Max(t)])
  <2>2. \A t \in SUBSET (1..n) : t \in SUBSET (1..(n + 1)) /\ n + 1 \notin t
    OBVIOUS
  <2>3. \A t \in SUBSET (1..n) : h[t] = g[t]
    BY <2>2
  <2> HIDE DEF h
  <2>4. ASSUME NEW t \in SUBSET (1..(n + 1)), n + 1 \notin t PROVE h[t] = Val(t)
    <3>1. t \in SUBSET (1..n)
      BY <2>4
    <3>2. g[t] = IF t = {} THEN base ELSE Op(g[t \ {Max(t)}], seq[Max(t)])
      BY <2>1, <3>1
    <3>3. t \ {Max(t)} \in SUBSET (1..n)
      BY <3>1
    <3> QED
      BY <3>1, <3>2, <3>3, <2>3
  <2>5. ASSUME NEW t \in SUBSET (1..(n + 1)), n + 1 \in t PROVE h[t] = Val(t)
    <3>1. Max(t) = n + 1
      BY <2>5, MaxUpTo
    <3>2. t \ {n + 1} \in SUBSET (1..n)
      OBVIOUS
    <3>3. h[t] = Op(g[t \ {n + 1}], seq[n + 1])
      BY <2>5 DEF h
    <3> QED
      BY <2>5, <3>1, <3>2, <3>3, <2>3
  <2>6. h = [t \in SUBSET (1..(n + 1)) |-> h[t]]
    BY DEF h
  <2>7. h = [t \in SUBSET (1..(n + 1)) |-> Val(t)]
    BY <2>4, <2>5, <2>6
  <2>8. IsFold(base, seq, n + 1, h)
    BY <2>7 DEF IsFold
  <2> QED
    BY <2>8
<1> HIDE DEF T
<1>3. \A n \in Nat : n \in T
  BY <1>1, <1>2, Induction
<1> QED
  BY <1>3 DEF T

\* FoldLeft is the last value of a run over the sequence.
LEMMA FoldedRun ==
    ASSUME NEW base, NEW seq, NEW n \in Nat, DOMAIN seq = 1..n
    PROVE  \E v : IsRun(base, seq, n, v) /\ Folded(base, seq) = v[n]
<1> DEFINE h == CHOOSE g : g = [t \in SUBSET (1..n) |->
                  IF t = {} THEN base ELSE Op(g[t \ {Max(t)}], seq[Max(t)])]
           v == [i \in 0..n |-> h[1..i]]
<1>0. PICK g : IsFold(base, seq, n, g)
  BY FoldExists
<1>1. IsFold(base, seq, n, h)
  BY <1>0 DEF IsFold
<1>2. Folded(base, seq) = h[1..n]
  BY DEF Folded, FoldLeft, MapThenFoldSet
<1>7. \A i \in 0..n : v[i] = h[1..i]
  OBVIOUS
<1> HIDE DEF h, v
<1>3. \A t \in SUBSET (1..n) : h[t] = IF t = {} THEN base ELSE Op(h[t \ {Max(t)}], seq[Max(t)])
  BY <1>1 DEF IsFold
<1>4. v[0] = base
  <2>1. 1..0 = {} /\ {} \in SUBSET (1..n) /\ 0 \in 0..n
    OBVIOUS
  <2>2. h[{}] = base
    BY <2>1, <1>3
  <2> QED
    BY <2>1, <2>2, <1>7
<1>5. ASSUME NEW i \in 1..n PROVE v[i] = Op(v[i - 1], seq[i])
  <2>1. 1..i \in SUBSET (1..n) /\ 1..i # {} /\ (1..i) \ {i} = 1..(i - 1)
    <3>1. \A j \in 1..i : j \in 1..n
      OBVIOUS
    <3>2. i \in 1..i
      OBVIOUS
    <3>3. \A j : j \in (1..i) \ {i} <=> j \in 1..(i - 1)
      OBVIOUS
    <3> QED
      BY <3>1, <3>2, <3>3
  <2>2. Max(1..i) = i
    <3>1. i \in Nat /\ i \in 1..i
      OBVIOUS
    <3> QED
      BY <3>1, MaxUpTo
  <2>3. h[1..i] = Op(h[1..(i - 1)], seq[i])
    BY <2>1, <2>2, <1>3
  <2>4. v[i] = h[1..i] /\ v[i - 1] = h[1..(i - 1)]
    BY <1>7
  <2> QED
    BY <2>3, <2>4
<1>6. IsRun(base, seq, n, v) /\ v[n] = h[1..n]
  BY <1>4, <1>5, <1>7 DEF IsRun
<1> QED
  BY <1>2, <1>6

\* Two runs from the same value over the same elements agree.
LEMMA RunsAgree ==
    ASSUME NEW base, NEW n \in Nat, NEW s, NEW r, \A i \in 1..n : s[i] = r[i],
           NEW v, NEW w, IsRun(base, s, n, v), IsRun(base, r, n, w)
    PROVE  v[n] = w[n]
<1> DEFINE T == {k \in Nat : k <= n => v[k] = w[k]}
<1>1. 0 \in T
  BY DEF IsRun
<1>2. ASSUME NEW k \in Nat, k \in T PROVE k + 1 \in T
  <2> SUFFICES ASSUME k + 1 <= n PROVE v[k + 1] = w[k + 1]
    OBVIOUS
  <2>1. k + 1 \in 1..n /\ (k + 1) - 1 = k /\ v[k] = w[k]
    BY <1>2
  <2>2. v[k + 1] = Op(v[k], s[k + 1]) /\ w[k + 1] = Op(w[k], r[k + 1])
    BY <2>1 DEF IsRun
  <2> QED
    BY <2>1, <2>2
<1> HIDE DEF T
<1>3. \A k \in Nat : k \in T
  BY <1>1, <1>2, Induction
<1> QED
  BY <1>3 DEF T

\* Nothing is folded over the empty sequence.
LEMMA FoldedEmpty ==
    ASSUME NEW base
    PROVE  Folded(base, << >>) = base
<1>1. DOMAIN << >> = 1..0
  OBVIOUS
<1>2. PICK v : IsRun(base, << >>, 0, v) /\ Folded(base, << >>) = v[0]
  BY <1>1, FoldedRun
<1> QED
  BY <1>2 DEF IsRun

\* The last element is folded last.
LEMMA FoldedAppend ==
    ASSUME NEW S, NEW s \in Seq(S), NEW x \in S, NEW base
    PROVE  Folded(base, Append(s, x)) = Op(Folded(base, s), x)
<1> DEFINE n == Len(s)
           r == Append(s, x)
<1>1. n \in Nat /\ DOMAIN s = 1..n
  OBVIOUS
<1>2. DOMAIN r = 1..(n + 1) /\ r[n + 1] = x /\ \A i \in 1..n : r[i] = s[i]
  OBVIOUS
<1> HIDE DEF r, n
<1>3. PICK v : IsRun(base, s, n, v) /\ Folded(base, s) = v[n]
  BY <1>1, FoldedRun
<1>4. PICK w : IsRun(base, r, n + 1, w) /\ Folded(base, r) = w[n + 1]
  BY <1>1, <1>2, FoldedRun
<1>5. IsRun(base, r, n, w)
  BY <1>1, <1>4 DEF IsRun
<1>6. v[n] = w[n]
  BY <1>1, <1>2, <1>3, <1>5, RunsAgree
<1>7. w[n + 1] = Op(w[(n + 1) - 1], r[n + 1])
  BY <1>1, <1>4 DEF IsRun
<1>8. (n + 1) - 1 = n
  BY <1>1
<1> QED
  BY <1>2, <1>3, <1>4, <1>6, <1>7, <1>8 DEF r

\* The first element is folded first.
LEMMA FoldedHead ==
    ASSUME NEW S, NEW s \in Seq(S), s # << >>, NEW base
    PROVE  Folded(base, s) = Folded(Op(base, Head(s)), Tail(s))
<1> DEFINE n == Len(s) - 1
           r == Tail(s)
<1>1. n \in Nat /\ DOMAIN s = 1..(n + 1) /\ Head(s) = s[1]
  OBVIOUS
<1>2. DOMAIN r = 1..n /\ \A i \in 1..n : r[i] = s[i + 1]
  OBVIOUS
<1> HIDE DEF r, n
<1>3. PICK v : IsRun(base, s, n + 1, v) /\ Folded(base, s) = v[n + 1]
  BY <1>1, FoldedRun
<1>4. PICK w : IsRun(Op(base, Head(s)), r, n, w) /\ Folded(Op(base, Head(s)), r) = w[n]
  BY <1>1, <1>2, FoldedRun
<1> DEFINE u == [i \in 0..n |-> v[i + 1]]
<1>5. u[0] = Op(base, Head(s))
  <2>1. 1 \in 1..(n + 1) /\ 1 - 1 = 0 /\ u[0] = v[1]
    BY <1>1
  <2> QED
    BY <2>1, <1>1, <1>3 DEF IsRun
<1>6. ASSUME NEW i \in 1..n PROVE u[i] = Op(u[i - 1], r[i])
  <2>1. i + 1 \in 1..(n + 1) /\ (i + 1) - 1 = i /\ u[i] = v[i + 1] /\ u[i - 1] = v[i]
    BY <1>1
  <2>2. v[i + 1] = Op(v[i], s[i + 1])
    BY <2>1, <1>3 DEF IsRun
  <2> QED
    BY <2>1, <2>2, <1>2
<1>7. u[n] = v[n + 1]
  BY <1>1
<1> HIDE DEF u
<1>8. IsRun(Op(base, Head(s)), r, n, u)
  BY <1>5, <1>6 DEF IsRun
<1>9. u[n] = w[n]
  BY <1>1, <1>4, <1>8, RunsAgree
<1> QED
  BY <1>3, <1>4, <1>7, <1>9 DEF r
=============================================================================
