----------------------------- MODULE LimitTree -----------------------------
(***************************************************************************)
(* One side of the book as it lies in memory: LimitTree with the binary    *)
(* search tree of its Limits and the doubly linked list of each Limit's    *)
(* Orders.  The venue's book and the receiver's have the same code.        *)
(*                                                                         *)
(* A Limit is named by its price and an Order by itself; a pointer is the  *)
(* name of what it points at.  The fields of an object that does not exist *)
(* are null, which is what its constructor will set them to.  Volumes and  *)
(* counts are in OrderBook.                                                *)
(***************************************************************************)
EXTENDS Integers, Sequences

CONSTANTS
    Orders,   \* the orders that may rest on the side
    Prices,   \* the prices they may rest at
    Null      \* nullptr, for an order

ASSUME TreePricesAssumption == Prices \subseteq Nat
ASSUME TreeNullAssumption   == Null \notin Orders

VARIABLES
    side,         \* the template parameter
    tree,         \* root, and per price Node::parent, left and right
    best,         \* LimitTree::best
    limits,       \* the prices in the map LimitTree::limits
    order_head,   \* per price, Limit::order_head
    order_tail,   \* per price, Limit::order_tail
    prev,         \* per order, Node::prev
    next,         \* per order, Node::next
    price         \* per order, the price it rests at

lists    == <<order_head, order_tail, prev, next>>
treeVars == <<side, tree, best, limits, lists, price>>

\* nullptr, for a limit; the price of an order that does not rest.
Nil == -1

-----------------------------------------------------------------------------
(* BST: the binary search tree                                             *)

EmptyTree ==
    [root   |-> Nil,
     parent |-> [p \in Prices |-> Nil],
     left   |-> [p \in Prices |-> Nil],
     right  |-> [p \in Prices |-> Nil]]

\* Where a walk along the pointers down ends that starts at node n.
WalkFrom(down, n) ==
    LET walk[p \in DOMAIN down] == IF down[p] = Nil THEN p ELSE walk[down[p]]
    IN  walk[n]

\* max and min
Rightmost(t, n) == WalkFrom(t.right, n)
Leftmost(t, n)  == WalkFrom(t.left, n)

\* The node whose child a new node with key n becomes.
Bottom(t, n) ==
    WalkFrom([p \in Prices |-> IF n < p THEN t.left[p] ELSE t.right[p]], t.root)

\* insert
Insert(t, n) ==
    LET p == Bottom(t, n)
    IN  IF t.root = Nil THEN [t EXCEPT !.root = n]
        ELSE IF n < p THEN [t EXCEPT !.left[p] = n, !.parent[n] = p]
                      ELSE [t EXCEPT !.right[p] = n, !.parent[n] = p]

\* The link that leads to node n, from the root or from its parent, leads to m.
Relink(t, n, m) ==
    IF t.root = n THEN [t EXCEPT !.root = m]
    ELSE IF t.left[t.parent[n]] = n THEN [t EXCEPT !.left[t.parent[n]] = m]
                                    ELSE [t EXCEPT !.right[t.parent[n]] = m]

\* remove, a node with one child m.
RemoveWithChild(t, n, m) == Relink([t EXCEPT !.parent[m] = t.parent[n]], n, m)

\* remove, a node whose right child r has no left branch: r moves up.
RemoveByRight(t, n) ==
    LET l == t.left[n]
        r == t.right[n]
    IN  Relink([t EXCEPT !.parent[r] = t.parent[n], !.left[r] = l, !.parent[l] = r], n, r)

\* Fault: the children of the least node are lost.
Fault_CutMinimum(t, m) == [t EXCEPT !.left[t.parent[m]] = Nil]

\* The least node of a right branch is taken out from under its parent.
CutMinimum(t, m) ==
    LET p == t.parent[m]
        r == t.right[m]
    IN  IF r = Nil THEN [t EXCEPT !.left[p] = Nil]
                   ELSE [t EXCEPT !.left[p] = r, !.parent[r] = p]

\* remove, a node with two branches: the least node of the right one moves up.
RemoveByMinimum(t, n) ==
    LET l == t.left[n]
        r == t.right[n]
        m == Leftmost(t, r)
    IN  Relink([CutMinimum(t, m) EXCEPT !.parent[m] = t.parent[n], !.left[m] = l,
                                        !.parent[l] = m, !.right[m] = r, !.parent[r] = m],
               n, m)

\* remove.  The node keeps the pointers it had.
Unlinked(t, n) ==
    LET l == t.left[n]
        r == t.right[n]
    IN  CASE l = Nil /\ r = Nil -> Relink(t, n, Nil)
          [] l # Nil /\ r = Nil -> RemoveWithChild(t, n, l)
          [] l = Nil /\ r # Nil -> RemoveWithChild(t, n, r)
          [] OTHER -> IF t.left[r] = Nil THEN RemoveByRight(t, n) ELSE RemoveByMinimum(t, n)

-----------------------------------------------------------------------------
(* The best limit                                                          *)

\* set_best
SetBest(p) ==
    IF best = Nil \/ (IF side = "Buy" THEN p > best ELSE p < best) THEN p ELSE best

\* Fault: the parent of the removed node is taken for the next best one.
Fault_FindBest(t, n) ==
    LET inner == IF side = "Buy" THEN t.left[n] ELSE t.right[n]
    IN  IF t.parent[n] = Nil THEN inner ELSE t.parent[n]

\* find_best, when t is the tree out of which the best limit n has been taken: it
\* goes on from the pointers that n still has.
FindBest(t, n) ==
    LET inner == IF side = "Buy" THEN t.left[n] ELSE t.right[n]
        from  == IF t.parent[n] = Nil THEN inner ELSE t.parent[n]
    IN  IF from = Nil THEN Nil
        ELSE IF side = "Buy" THEN Rightmost(t, from) ELSE Leftmost(t, from)

\* delete
Freed(t, n) == [t EXCEPT !.parent[n] = Nil, !.left[n] = Nil, !.right[n] = Nil]

-----------------------------------------------------------------------------
(* LimitTree                                                               *)

\* limit, first order at its price: a new Limit with order u as its only order.
LimitFirst(u, p) ==
    /\ price[u] = Nil /\ p \notin limits
    /\ tree' = Insert(tree, p)
    /\ best' = SetBest(p)
    /\ limits' = limits \cup {p}
    /\ order_head' = [order_head EXCEPT ![p] = u]
    /\ order_tail' = [order_tail EXCEPT ![p] = u]
    /\ price' = [price EXCEPT ![u] = p]
    /\ UNCHANGED <<side, prev, next>>

\* limit, at a price that has a Limit: DLL::append.
LimitBehind(u, p) ==
    /\ price[u] = Nil /\ p \in limits
    /\ next' = [next EXCEPT ![order_tail[p]] = u]
    /\ prev' = [prev EXCEPT ![u] = order_tail[p]]
    /\ order_tail' = [order_tail EXCEPT ![p] = u]
    /\ price' = [price EXCEPT ![u] = p]
    /\ UNCHANGED <<side, tree, best, limits, order_head>>

\* The test for the last order at its price.
IsLast(u) == prev[u] = Null /\ next[u] = Null

\* remove, last order at its price: the Limit goes too.
RemoveLast(u) ==
    LET p == price[u]
        t == Unlinked(tree, p)
    IN  /\ p # Nil /\ IsLast(u)
        /\ tree' = Freed(t, p)
        /\ best' = IF best = p THEN FindBest(t, p) ELSE best
        /\ limits' = limits \ {p}
        /\ order_head' = [order_head EXCEPT ![p] = Null]
        /\ order_tail' = [order_tail EXCEPT ![p] = Null]
        /\ price' = [price EXCEPT ![u] = Nil]
        /\ UNCHANGED <<side, prev, next>>

\* remove, with other orders at the price: DLL::remove.
RemoveOne(u) ==
    LET p == price[u]
    IN  /\ p # Nil /\ ~IsLast(u)
        /\ next' = [o \in Orders |-> IF o = u THEN Null
                                     ELSE IF o = prev[u] THEN next[u] ELSE next[o]]
        /\ prev' = [o \in Orders |-> IF o = u THEN Null
                                     ELSE IF o = next[u] THEN prev[u] ELSE prev[o]]
        /\ order_head' = IF order_head[p] = u THEN [order_head EXCEPT ![p] = next[u]]
                                              ELSE order_head
        /\ order_tail' = IF order_tail[p] = u THEN [order_tail EXCEPT ![p] = prev[u]]
                                              ELSE order_tail
        /\ price' = [price EXCEPT ![u] = Nil]
        /\ UNCHANGED <<side, tree, best, limits>>

\* Everything about the side except which one it is, before the first order.
Empty(t, b, ls, head, tail, p, n, at) ==
    /\ t = EmptyTree /\ b = Nil /\ ls = {}
    /\ head = [q \in Prices |-> Null] /\ tail = [q \in Prices |-> Null]
    /\ p = [o \in Orders |-> Null] /\ n = [o \in Orders |-> Null]
    /\ at = [o \in Orders |-> Nil]

\* clear, and the book's clear of its map of orders.
Clear ==
    /\ Empty(tree', best', limits', order_head', order_tail', prev', next', price')
    /\ side' = side

Init ==
    /\ side \in {"Sell", "Buy"}
    /\ Empty(tree, best, limits, order_head, order_tail, prev, next, price)

Next ==
    \/ \E u \in Orders, p \in Prices : LimitFirst(u, p) \/ LimitBehind(u, p)
    \/ \E u \in Orders : RemoveLast(u) \/ RemoveOne(u)
    \/ Clear

Spec == Init /\ [][Next]_treeVars

-----------------------------------------------------------------------------
(* Properties                                                              *)

\* In tree t, the nodes under each node, itself included.
Branch(t) ==
    LET nodes[p \in Prices \cup {Nil}] ==
            IF p = Nil THEN {} ELSE {p} \cup nodes[t.left[p]] \cup nodes[t.right[p]]
    IN  nodes

\* The nodes are a search tree of exactly the prices of the map, and each node's
\* parent pointer agrees with the link that leads to it: after any sequence of
\* insertions and removals, those of nodes with two branches included, no pointer
\* is left that leads to a Limit that has been deleted.
SearchTree ==
    /\ Branch(tree)[tree.root] = limits
    /\ \A p \in limits :
          /\ \A q \in Branch(tree)[tree.left[p]] : q < p
          /\ \A q \in Branch(tree)[tree.right[p]] : q > p
          /\ IF p = tree.root THEN tree.parent[p] = Nil
             ELSE tree.parent[p] \in limits
                    /\ p \in {tree.left[tree.parent[p]], tree.right[tree.parent[p]]}

\* The orders that the pointers after link, from order o on.
Chain(after, o) ==
    LET walk[u \in Orders \cup {Null}] == IF u = Null THEN << >> ELSE <<u>> \o walk[after[u]]
    IN  walk[o]

\* The orders that the list of price p links, from its head on.
Queue(p) == Chain(next, order_head[p])

\* What the user of a side sees of it.
Abstract == INSTANCE BookSide WITH queue <- [p \in Prices |-> Queue(p)]

\* The tree and the lists do what BookSide promises: each price has its orders in
\* order of arrival, whichever were taken out from where, and LimitTree::best is
\* the best of the prices that have any.
ImplementsSide == Abstract!Spec
=============================================================================
