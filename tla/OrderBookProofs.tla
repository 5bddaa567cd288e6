-------------------------- MODULE OrderBookProofs --------------------------
(***************************************************************************)
(* Proofs about the matching engine, for every choice of accounts, prices, *)
(* quantities and number of orders.                                        *)
(*                                                                         *)
(* The argument: lemmas on queues; the inductive invariant, CoreInv for    *)
(* all operations of the class and Inv for those that the venue uses; what *)
(* LimitTree::remove and LimitTree::limit do to the book (TreeRemoveBook,  *)
(* TreeLimitBook); one lemma per action; then the theorems.                *)
(*                                                                         *)
(* Then what the book implements and what it relies on.  It implements     *)
(* FeedSource: what a reader of the data feed may rely on.  The refinement *)
(* mapping is the substitution of OrderBook!Feed.  Each call maps to one   *)
(* message per step that sends one, and to a stutter otherwise; the proof  *)
(* needs besides Inv that what is left of an order is at most what a       *)
(* client asked for.  And it uses its two LimitTrees as BookSide allows: a *)
(* step changes a side by one of four moves, none, one order in, one order *)
(* out, all orders out; which best price goes with it follows from the     *)
(* invariant.                                                              *)
(* LimitTreeProofs shows that the pointers of the code implement BookSide, *)
(* so replacing the sets and sequences of OrderBook by them changes        *)
(* nothing.                                                                *)
(***************************************************************************)
EXTENDS OrderBook, CollectionProofs, SequenceTheorems, FiniteSetTheorems, TLAPS

\* Unlinking one order of a queue keeps the others, in their order.
LEMMA UnlinkProperties ==
    ASSUME NEW q \in Seq(UID), Ascending(q), NEW k \in 1..Len(q)
    PROVE  /\ Ascending(RemoveAt(q, k))
           /\ Range(RemoveAt(q, k)) = Range(q) \ {q[k]}
<1>1. UID \subseteq Nat
  BY DEF UID
<1> QED
  BY <1>1, RemoveAtAscending, RemoveAtRange

\* Linking a newer order at the tail of a queue keeps it in order.
LEMMA EnqueueProperties ==
    ASSUME NEW q \in Seq(UID), Ascending(q), NEW u \in UID, \A x \in Range(q) : x < u
    PROVE  /\ Append(q, u) \in Seq(UID)
           /\ Len(Append(q, u)) = Len(q) + 1
           /\ Ascending(Append(q, u))
           /\ Range(Append(q, u)) = Range(q) \cup {u}
<1>1. /\ Append(q, u) \in Seq(UID) /\ Len(Append(q, u)) = Len(q) + 1
      /\ \A i \in 1..Len(q) : Append(q, u)[i] = q[i]
      /\ Append(q, u)[Len(q) + 1] = u
  OBVIOUS
<1>2. Ascending(Append(q, u))
  <2> SUFFICES ASSUME NEW i \in 1..(Len(q) + 1), NEW j \in 1..(Len(q) + 1), i < j
               PROVE  Append(q, u)[i] < Append(q, u)[j]
    BY <1>1 DEF Ascending
  <2>1. i \in 1..Len(q) /\ Append(q, u)[i] = q[i] /\ q[i] \in Range(q)
    BY <1>1 DEF Range
  <2>2. CASE j = Len(q) + 1
    BY <2>1, <2>2, <1>1
  <2>3. CASE j # Len(q) + 1
    <3>1. j \in 1..Len(q) /\ Append(q, u)[j] = q[j]
      BY <2>3, <1>1
    <3> QED
      BY <2>1, <3>1 DEF Ascending
  <2> QED
    BY <2>2, <2>3
<1>3. Range(Append(q, u)) = Range(q) \cup {u}
  BY <1>1 DEF Range
<1> QED
  BY <1>1, <1>2, <1>3

\* A queue that holds an order and is not of length 1 holds another one.
LEMMA NotAlone ==
    ASSUME NEW q \in Seq(UID), NEW k \in 1..Len(q), Len(q) # 1
    PROVE  Len(q) > 1
  OBVIOUS

-----------------------------------------------------------------------------
(* The inductive invariant                                                 *)

\* The IDs in the book have been handed out: the next ID cannot collide, although
\* limit_sell and limit_buy keep the counter when the order fills at once.
IDsHandedOut == \A u \in DOMAIN orders : u < sequence

\* A call is at the point of the code that its phase says: an order that went
\* straight to the book does not cross it, and an order that is done has nothing
\* left.
CallConsistent ==
    /\ taker # NoTaker /\ taker.limit => taker.price \in Prices
    /\ taker.phase = "rest" => taker.limit /\ ~Crosses(taker.side, taker.price)
    /\ taker.phase = "filled" => taker.quantity = 0

\* The book on its own.
BookInv ==
    BookTypeOK /\ QueuesHoldOrders /\ TimePriority /\ BestPrice /\ CountsAgree

\* The invariant that every operation keeps, reduce and clear included.  IDsHandedOut
\* is what makes a new order the newest of its queue; CallConsistent carries the fact
\* that a limit order which rests does not cross from the call's first step to the
\* step that rests it.
CoreInv ==
    /\ TypeOK
    /\ BookInv
    /\ IDsHandedOut
    /\ NotCrossed
    /\ CallConsistent

\* The invariant that every step keeps which a handler of the venue causes: accounts
\* and feed, which reduce and clear do not tell, follow the book.
Inv ==
    /\ TypeOK
    /\ BookInv
    /\ IDsHandedOut
    /\ NotCrossed
    /\ AccountsHoldOrders
    /\ FeedMatchesBook
    /\ CallConsistent

\* Where an order is: its limit exists and its queue holds it.
LEMMA OrderInQueue ==
    ASSUME BookInv, NEW u \in DOMAIN orders
    PROVE  /\ orders[u].side \in Side /\ orders[u].price \in Prices
           /\ u \in Range(queue[orders[u].side][orders[u].price])
           /\ orders[u].price \in levels[orders[u].side]
<1>1. orders[u].side \in Side /\ orders[u].price \in Prices
  BY DEF BookInv, BookTypeOK, Order
<1>2. u \in Range(queue[orders[u].side][orders[u].price])
  BY <1>1 DEF BookInv, QueuesHoldOrders, OrdersAt
<1>3. queue[orders[u].side][orders[u].price] # << >>
  BY <1>2 DEF Range
<1> QED
  BY <1>1, <1>2, <1>3 DEF BookInv, QueuesHoldOrders

\* Position finds the place of an order in its queue.
LEMMA PositionProperties ==
    ASSUME BookInv, NEW u \in DOMAIN orders
    PROVE  LET s == orders[u].side
               p == orders[u].price
           IN  /\ Position(s, p, u) \in 1..Len(queue[s][p])
               /\ queue[s][p][Position(s, p, u)] = u
<1> DEFINE s == orders[u].side
           p == orders[u].price
           q == queue[s][p]
<1>1. q \in Seq(UID) /\ u \in Range(q)
  BY OrderInQueue DEF BookInv, BookTypeOK
<1>2. \E i \in DOMAIN q : q[i] = u
  BY <1>1 DEF Range
<1> QED
  BY <1>1, <1>2 DEF Position

\* LimitTree::remove leaves a consistent book without the order.
LEMMA TreeRemoveBook ==
    ASSUME BookInv, NEW u \in DOMAIN orders, TreeRemove(u)
    PROVE  /\ BookInv'
           /\ DOMAIN orders' = DOMAIN orders \ {u}
           /\ \A v \in DOMAIN orders' : orders'[v] = orders[v]
           /\ \A s \in Side : levels'[s] \subseteq levels[s]
<1> DEFINE s == orders[u].side
           p == orders[u].price
           q == queue[s][p]
           k == Position(s, p, u)
<1> USE PricesAssumption
<1>1. s \in Side /\ p \in Prices /\ u \in Range(q) /\ p \in levels[s]
  BY OrderInQueue
<1>2. k \in 1..Len(q) /\ q[k] = u
  BY PositionProperties
<1>3. /\ DOMAIN orders' = DOMAIN orders \ {u}
      /\ \A v \in DOMAIN orders' : orders'[v] = orders[v]
  BY DEF TreeRemove, Restrict
<1>4. /\ DOMAIN orders' \subseteq UID
      /\ \A v \in DOMAIN orders' : orders'[v] \in Order
  BY <1>3 DEF BookInv, BookTypeOK
<1>5. q \in Seq(UID) /\ Ascending(q)
  BY <1>1 DEF BookInv, BookTypeOK, TimePriority, Ascending
<1>6. \A t \in Side, r \in Prices :
        OrdersAt(t, r)' = IF t = s /\ r = p THEN OrdersAt(t, r) \ {u} ELSE OrdersAt(t, r)
  BY <1>3 DEF OrdersAt
<1>7. \A t \in Side : OrdersOn(t)' = IF t = s THEN OrdersOn(t) \ {u} ELSE OrdersOn(t)
  BY <1>3 DEF OrdersOn
<1>8. /\ count' \in [Side -> Nat] /\ volume' \in [Side -> Int]
      /\ \A t \in Side : IsFiniteSet(OrdersOn(t))' /\ count'[t] = Cardinality(OrdersOn(t))'
  <2>1. u \in OrdersOn(s) /\ IsFiniteSet(OrdersOn(s)) /\ count[s] = Cardinality(OrdersOn(s))
    BY <1>1 DEF OrdersOn, BookInv, CountsAgree
  <2>2. /\ IsFiniteSet(OrdersOn(s) \ {u})
        /\ Cardinality(OrdersOn(s) \ {u}) = Cardinality(OrdersOn(s)) - 1
        /\ Cardinality(OrdersOn(s) \ {u}) \in Nat
    BY <2>1, FS_RemoveElement, FS_CardinalityType
  <2>3. count' = [count EXCEPT ![s] = @ + -1] /\ volume' = [volume EXCEPT ![s] = @ + -orders[u].quantity]
    BY DEF TreeRemove, TreeTotals
  <2>4. orders[u].quantity \in Int /\ count \in [Side -> Nat] /\ volume \in [Side -> Int]
    BY DEF BookInv, BookTypeOK, Order
  <2>5. count' \in [Side -> Nat] /\ volume' \in [Side -> Int]
    BY <2>1, <2>2, <2>3, <2>4, <1>1
  <2>6. \A t \in Side : IsFiniteSet(OrdersOn(t)') /\ count'[t] = Cardinality(OrdersOn(t)')
    BY <2>1, <2>2, <2>3, <2>4, <1>1, <1>7 DEF BookInv, CountsAgree
  <2> QED
    BY <2>5, <2>6
<1>9. CASE RemoveLimit(s, p)
  <2>1. /\ Len(q) = 1
        /\ levels' = [levels EXCEPT ![s] = @ \ {p}]
        /\ queue' = [queue EXCEPT ![s][p] = << >>]
        /\ limitCount' = [limitCount EXCEPT ![s][p] = 0]
        /\ limitVolume' = [limitVolume EXCEPT ![s][p] = 0]
    BY <1>9 DEF RemoveLimit
  <2>2. Range(q) = {u}
    BY <2>1, <1>2, <1>5 DEF Range
  <2>3. OrdersAt(s, p) = {u}
    BY <2>2, <1>1 DEF BookInv, QueuesHoldOrders
  <2>4. /\ best' \in [Side -> Prices \cup {NoPrice}]
        /\ \A t \in Side : IsBest(t, levels'[t], best'[t])
    <3>1. CASE best[s] # p
      <4>1. best' = best
        BY <1>9, <3>1 DEF RemoveLimit
      <4> QED
        BY <4>1, <3>1, <2>1, <1>1 DEF BookInv, BookTypeOK, BestPrice, IsBest, NoPrice
    <3>2. CASE best[s] = p
      <4>1. PICK b \in Prices \cup {NoPrice} :
              IsBest(s, levels[s] \ {p}, b) /\ best' = [best EXCEPT ![s] = b]
        BY <1>9, <3>2 DEF RemoveLimit
      <4> QED
        BY <4>1, <2>1, <1>1 DEF BookInv, BookTypeOK, BestPrice
    <3> QED
      BY <3>1, <3>2
  <2>5. BookTypeOK'
    <3>1. levels' \in [Side -> SUBSET Prices]
      BY <2>1, <1>1 DEF BookInv, BookTypeOK
    <3>2. queue' \in [Side -> [Prices -> Seq(UID)]]
      BY <2>1, <1>1 DEF BookInv, BookTypeOK
    <3>3. limitCount' \in [Side -> [Prices -> Nat]] /\ limitVolume' \in [Side -> [Prices -> Int]]
      BY <2>1, <1>1 DEF BookInv, BookTypeOK
    <3> QED
      BY <3>1, <3>2, <3>3, <2>4, <1>4, <1>8 DEF BookTypeOK
  <2>6. QueuesHoldOrders'
    <3> SUFFICES ASSUME NEW t \in Side, NEW r \in Prices
                 PROVE  /\ Range(queue'[t][r]) = OrdersAt(t, r)'
                        /\ r \in levels'[t] <=> queue'[t][r] # << >>
      BY DEF QueuesHoldOrders
    <3>1. CASE t = s /\ r = p
      <4>1. queue'[t][r] = << >> /\ OrdersAt(t, r)' = {} /\ r \notin levels'[t]
        BY <3>1, <2>1, <2>3, <1>1, <1>6 DEF BookInv, BookTypeOK
      <4>2. Range(<< >>) = {}
        BY DEF Range
      <4> QED
        BY <4>1, <4>2
    <3>2. CASE ~(t = s /\ r = p)
      <4>1. /\ queue'[t][r] = queue[t][r] /\ OrdersAt(t, r)' = OrdersAt(t, r)
            /\ r \in levels'[t] <=> r \in levels[t]
        BY <3>2, <2>1, <1>1, <1>6 DEF BookInv, BookTypeOK
      <4> QED
        BY <4>1 DEF BookInv, QueuesHoldOrders
    <3> QED
      BY <3>1, <3>2
  <2>7. TimePriority'
    BY <2>1, <1>1 DEF BookInv, BookTypeOK, TimePriority
  <2>8. CountsAgree'
    BY <2>1, <1>1, <1>8 DEF BookInv, BookTypeOK, CountsAgree
  <2>9. \A t \in Side : levels'[t] \subseteq levels[t]
    BY <2>1, <1>1 DEF BookInv, BookTypeOK
  <2> QED
    BY <2>4, <2>5, <2>6, <2>7, <2>8, <2>9, <1>3 DEF BookInv, BestPrice
<1>10. CASE RemoveFromLimit(s, p, u)
  <2>1. /\ Len(q) # 1
        /\ levels' = levels /\ best' = best
        /\ queue' = [queue EXCEPT ![s][p] = RemoveAt(q, k)]
        /\ limitCount' = [limitCount EXCEPT ![s][p] = @ + -1]
        /\ limitVolume' = [limitVolume EXCEPT ![s][p] = @ + -orders[u].quantity]
    BY <1>10, <1>1 DEF RemoveFromLimit, LimitTotals, BookInv, BookTypeOK
  <2>2. /\ RemoveAt(q, k) \in Seq(UID)
        /\ Len(RemoveAt(q, k)) = Len(q) - 1
        /\ Ascending(RemoveAt(q, k))
        /\ Range(RemoveAt(q, k)) = Range(q) \ {u}
    BY <1>2, <1>5, RemoveAtProperties, UnlinkProperties
  <2>3. Len(q) > 1 /\ limitCount[s][p] = Len(q) /\ orders[u].quantity \in Int
    <3>1. orders[u].quantity \in Int
      BY DEF BookInv, BookTypeOK, Order
    <3>2. limitCount[s][p] = Len(q)
      BY <1>1 DEF BookInv, CountsAgree
    <3>3. Len(q) > 1
      BY <2>1, <1>2, <1>5, NotAlone
    <3> QED
      BY <3>1, <3>2, <3>3
  <2>4. BookTypeOK'
    <3>1. limitCount' \in [Side -> [Prices -> Nat]]
      BY <2>1, <2>3, <1>1 DEF BookInv, BookTypeOK
    <3>2. limitVolume' \in [Side -> [Prices -> Int]]
      <4>1. limitVolume \in [Side -> [Prices -> Int]]
        BY DEF BookInv, BookTypeOK
      <4>2. limitVolume[s][p] \in Int
        BY <4>1, <1>1
      <4>3. limitVolume[s][p] + -orders[u].quantity \in Int
        BY <4>2, <2>3
      <4> QED
        BY <4>1, <4>3, <2>1, <1>1
    <3>3. queue' \in [Side -> [Prices -> Seq(UID)]]
      BY <2>1, <2>2, <1>1 DEF BookInv, BookTypeOK
    <3> QED
      BY <3>1, <3>2, <3>3, <2>1, <1>4, <1>8 DEF BookInv, BookTypeOK
  <2> HIDE DEF q, k
  <2>5. \A t \in Side, r \in Prices :
           queue'[t][r] = IF t = s /\ r = p THEN RemoveAt(q, k) ELSE queue[t][r]
    BY <2>1, <1>1 DEF BookInv, BookTypeOK
  <2>6. QueuesHoldOrders'
    <3> SUFFICES ASSUME NEW t \in Side, NEW r \in Prices
                 PROVE  /\ Range(queue'[t][r]) = OrdersAt(t, r)'
                        /\ r \in levels'[t] <=> queue'[t][r] # << >>
      BY DEF QueuesHoldOrders
    <3>1. CASE t = s /\ r = p
      <4>1. queue'[t][r] = RemoveAt(q, k) /\ OrdersAt(t, r)' = OrdersAt(s, p) \ {u}
        BY <3>1, <2>5, <1>6
      <4>2. Range(q) = OrdersAt(s, p)
        BY <1>1 DEF q, BookInv, QueuesHoldOrders
      <4>3. RemoveAt(q, k) # << >>
        BY <2>2, <2>3, <1>5
      <4> QED
        BY <4>1, <4>2, <4>3, <3>1, <2>1, <2>2, <1>1
    <3>2. CASE ~(t = s /\ r = p)
      BY <3>2, <2>1, <2>5, <1>6 DEF BookInv, QueuesHoldOrders
    <3> QED
      BY <3>1, <3>2
  <2>7. TimePriority'
    <3> SUFFICES ASSUME NEW t \in Side, NEW r \in Prices PROVE Ascending(queue'[t][r])
      BY DEF TimePriority, Ascending
    <3>1. CASE t = s /\ r = p
      BY <3>1, <2>2, <2>5
    <3>2. CASE ~(t = s /\ r = p)
      <4>1. queue'[t][r] = queue[t][r]
        BY <3>2, <2>5
      <4> QED
        BY <4>1 DEF BookInv, TimePriority, Ascending
    <3> QED
      BY <3>1, <3>2
  <2>8. CountsAgree'
    <3>1. \A t \in Side, r \in Prices :
             limitCount'[t][r] = IF t = s /\ r = p THEN Len(q) - 1 ELSE limitCount[t][r]
      BY <2>1, <2>3, <1>1, <1>5 DEF BookInv, BookTypeOK
    <3>2. \A t \in Side, r \in Prices : limitCount'[t][r] = Len(queue'[t][r])
      BY <3>1, <2>2, <2>5 DEF BookInv, CountsAgree
    <3> QED
      BY <3>2, <1>8 DEF CountsAgree
  <2>9. BestPrice'
    BY <2>1 DEF BookInv, BestPrice
  <2> QED
    BY <2>1, <2>4, <2>6, <2>7, <2>8, <2>9, <1>3 DEF BookInv
<1> QED
  BY <1>3, <1>9, <1>10 DEF TreeRemove

\* set_best keeps the best of the limits when one is added.
LEMMA BestOfMore ==
    ASSUME NEW s \in Side, NEW P \in SUBSET Prices, NEW b, IsBest(s, P, b), NEW p \in Prices
    PROVE  LET m == IF b = NoPrice \/ Better(s, p, b) THEN p ELSE b
           IN  IsBest(s, P \cup {p}, m) /\ m \in Prices
<1> USE PricesAssumption
<1>1. CASE P = {}
  BY <1>1 DEF IsBest, Better, NoPrice
<1>2. CASE P # {}
  <2>1. b \in Prices /\ b # NoPrice /\ \A r \in P : ~Better(s, r, b)
    <3>1. b \in P /\ \A r \in P : ~Better(s, r, b)
      BY <1>2 DEF IsBest
    <3> QED
      BY <3>1 DEF NoPrice
  <2>2. CASE Better(s, p, b)
    <3>1. \A r \in P : ~Better(s, r, p)
      BY <2>1, <2>2 DEF Better
    <3>2. ~Better(s, p, p)
      BY DEF Better
    <3> QED
      BY <3>1, <3>2, <2>1, <2>2 DEF IsBest
  <2>3. CASE ~Better(s, p, b)
    BY <2>1, <2>3, <1>2 DEF IsBest
  <2> QED
    BY <2>2, <2>3
<1> QED
  BY <1>1, <1>2

\* LimitTree::limit leaves a consistent book with the order in it, last in time.
LEMMA TreeLimitBook ==
    ASSUME BookInv, IDsHandedOut, sequence \in UID, NEW o \in Order,
           TreeLimit(sequence, o),
           orders' = [v \in DOMAIN orders \cup {sequence} |->
                         IF v = sequence THEN o ELSE orders[v]]
    PROVE  /\ BookInv'
           /\ \A t \in Side : levels'[t] = IF t = o.side THEN levels[t] \cup {o.price}
                                                        ELSE levels[t]
<1> DEFINE s == o.side
           p == o.price
           q == queue[s][p]
           u == sequence
<1> USE PricesAssumption
<1>1. s \in Side /\ p \in Prices /\ o.quantity \in Nat
  BY DEF Order
<1>2. u \in UID /\ u \notin DOMAIN orders /\ \A v \in DOMAIN orders : v < u
  BY DEF IDsHandedOut, UID
<1>3. /\ DOMAIN orders' = DOMAIN orders \cup {u} /\ orders'[u] = o
      /\ \A v \in DOMAIN orders : orders'[v] = orders[v]
  BY <1>2
<1>4. /\ DOMAIN orders' \subseteq UID
      /\ \A v \in DOMAIN orders' : orders'[v] \in Order
  BY <1>2, <1>3 DEF BookInv, BookTypeOK
<1>5. /\ q \in Seq(UID) /\ Ascending(q) /\ Range(q) = OrdersAt(s, p)
      /\ \A x \in Range(q) : x < u
  <2>1. q \in Seq(UID) /\ Ascending(q)
    BY <1>1 DEF BookInv, BookTypeOK, TimePriority, Ascending
  <2>2. Range(q) = OrdersAt(s, p)
    BY <1>1 DEF BookInv, QueuesHoldOrders
  <2>3. \A x \in OrdersAt(s, p) : x < u
    BY <1>2 DEF OrdersAt
  <2> QED
    BY <2>1, <2>2, <2>3
<1>6. \A t \in Side, r \in Prices :
        OrdersAt(t, r)' = IF t = s /\ r = p THEN OrdersAt(t, r) \cup {u} ELSE OrdersAt(t, r)
  BY <1>2, <1>3 DEF OrdersAt
<1>7. \A t \in Side : OrdersOn(t)' = IF t = s THEN OrdersOn(t) \cup {u} ELSE OrdersOn(t)
  BY <1>2, <1>3 DEF OrdersOn
<1>8. /\ count' \in [Side -> Nat] /\ volume' \in [Side -> Int]
      /\ \A t \in Side : IsFiniteSet(OrdersOn(t))' /\ count'[t] = Cardinality(OrdersOn(t))'
  <2>1. u \notin OrdersOn(s) /\ IsFiniteSet(OrdersOn(s)) /\ count[s] = Cardinality(OrdersOn(s))
    BY <1>1, <1>2 DEF OrdersOn, BookInv, CountsAgree
  <2>2. /\ IsFiniteSet(OrdersOn(s) \cup {u})
        /\ Cardinality(OrdersOn(s) \cup {u}) = Cardinality(OrdersOn(s)) + 1
    BY <2>1, FS_AddElement
  <2>3. count' = [count EXCEPT ![s] = @ + 1] /\ volume' = [volume EXCEPT ![s] = @ + o.quantity]
    BY DEF TreeLimit, TreeTotals
  <2>4. count \in [Side -> Nat] /\ volume \in [Side -> Int]
    BY DEF BookInv, BookTypeOK
  <2>5. count' \in [Side -> Nat] /\ volume' \in [Side -> Int]
    BY <2>3, <2>4, <1>1
  <2>6. \A t \in Side : IsFiniteSet(OrdersOn(t)') /\ count'[t] = Cardinality(OrdersOn(t)')
    BY <2>1, <2>2, <2>3, <2>4, <1>1, <1>7 DEF BookInv, CountsAgree
  <2> QED
    BY <2>5, <2>6
<1>9. CASE p \notin levels[s]
  <2>1. /\ levels' = [levels EXCEPT ![s] = @ \cup {p}]
        /\ best' = [best EXCEPT ![s] = SetBest(s, p)]
        /\ queue' = [queue EXCEPT ![s][p] = <<u>>]
        /\ limitCount' = [limitCount EXCEPT ![s][p] = 1]
        /\ limitVolume' = [limitVolume EXCEPT ![s][p] = o.quantity]
    BY <1>9 DEF TreeLimit, NewLimit
  <2>2. q = << >>
    BY <1>1, <1>9 DEF BookInv, QueuesHoldOrders
  <2>3. /\ best' \in [Side -> Prices \cup {NoPrice}]
        /\ \A t \in Side : IsBest(t, levels'[t], best'[t])
    <3>1. best \in [Side -> Prices \cup {NoPrice}] /\ levels \in [Side -> SUBSET Prices]
      BY DEF BookInv, BookTypeOK
    <3>2. IsBest(s, levels[s], best[s])
      BY <1>1 DEF BookInv, BestPrice
    <3>3. IsBest(s, levels[s] \cup {p}, SetBest(s, p)) /\ SetBest(s, p) \in Prices
      <4>1. levels[s] \subseteq Prices /\ best[s] \in Prices \cup {NoPrice}
        BY <3>1, <1>1
      <4> QED
        BY <4>1, <3>2, <1>1, BestOfMore DEF SetBest
    <3> QED
      BY <3>1, <3>3, <2>1, <1>1 DEF BookInv, BestPrice
  <2>4. BookTypeOK'
    <3>1. levels' \in [Side -> SUBSET Prices]
      BY <2>1, <1>1 DEF BookInv, BookTypeOK
    <3>2. queue' \in [Side -> [Prices -> Seq(UID)]]
      BY <2>1, <1>1, <1>2 DEF BookInv, BookTypeOK
    <3>3. limitCount' \in [Side -> [Prices -> Nat]] /\ limitVolume' \in [Side -> [Prices -> Int]]
      BY <2>1, <1>1 DEF BookInv, BookTypeOK
    <3> QED
      BY <3>1, <3>2, <3>3, <2>3, <1>4, <1>8 DEF BookTypeOK
  <2>5. \A t \in Side, r \in Prices :
           /\ queue'[t][r] = IF t = s /\ r = p THEN <<u>> ELSE queue[t][r]
           /\ r \in levels'[t] <=> (t = s /\ r = p) \/ r \in levels[t]
    BY <2>1, <1>1 DEF BookInv, BookTypeOK
  <2>6. QueuesHoldOrders'
    <3>1. Range(<<u>>) = {u} /\ Range(<< >>) = {} /\ <<u>> # << >>
      BY DEF Range
    <3>2. OrdersAt(s, p) = {}
      BY <3>1, <2>2, <1>5
    <3> SUFFICES ASSUME NEW t \in Side, NEW r \in Prices
                 PROVE  /\ Range(queue'[t][r]) = OrdersAt(t, r)'
                        /\ r \in levels'[t] <=> queue'[t][r] # << >>
      BY DEF QueuesHoldOrders
    <3>3. CASE t = s /\ r = p
      BY <3>1, <3>2, <3>3, <2>5, <1>6
    <3>4. CASE ~(t = s /\ r = p)
      BY <3>4, <2>5, <1>6 DEF BookInv, QueuesHoldOrders
    <3> QED
      BY <3>3, <3>4
  <2>7. TimePriority'
    BY <2>5 DEF BookInv, TimePriority
  <2>8. CountsAgree'
    <3>1. \A t \in Side, r \in Prices :
             limitCount'[t][r] = IF t = s /\ r = p THEN 1 ELSE limitCount[t][r]
      BY <2>1, <1>1 DEF BookInv, BookTypeOK
    <3>2. Len(<<u>>) = 1
      OBVIOUS
    <3>3. ASSUME NEW t \in Side, NEW r \in Prices PROVE limitCount'[t][r] = Len(queue'[t][r])
      <4>1. CASE t = s /\ r = p
        BY <4>1, <3>1, <3>2, <2>5
      <4>2. CASE ~(t = s /\ r = p)
        <5>1. limitCount[t][r] = Len(queue[t][r])
          BY DEF BookInv, CountsAgree
        <5>2. limitCount'[t][r] = limitCount[t][r] /\ queue'[t][r] = queue[t][r]
          BY <4>2, <3>1, <2>5
        <5> QED
          BY <5>1, <5>2
      <4> QED
        BY <4>1, <4>2
    <3> QED
      BY <3>3, <1>8 DEF CountsAgree
  <2>9. \A t \in Side : levels'[t] = IF t = s THEN levels[t] \cup {p} ELSE levels[t]
    BY <2>1, <1>1 DEF BookInv, BookTypeOK
  <2> QED
    BY <2>3, <2>4, <2>6, <2>7, <2>8, <2>9 DEF BookInv, BestPrice
<1>10. CASE p \in levels[s]
  <2>1. /\ levels' = levels /\ best' = best
        /\ queue' = [queue EXCEPT ![s][p] = Append(q, u)]
        /\ limitCount' = [limitCount EXCEPT ![s][p] = @ + 1]
        /\ limitVolume' = [limitVolume EXCEPT ![s][p] = @ + o.quantity]
    BY <1>10, <1>1 DEF TreeLimit, LimitTotals, Enqueue, BookInv, BookTypeOK
  <2>2. /\ Append(q, u) \in Seq(UID) /\ Len(Append(q, u)) = Len(q) + 1
        /\ Ascending(Append(q, u)) /\ Range(Append(q, u)) = Range(q) \cup {u}
    BY <1>2, <1>5, EnqueueProperties
  <2>3. limitCount[s][p] = Len(q)
    BY <1>1 DEF BookInv, CountsAgree
  <2>4. BookTypeOK'
    <3>1. limitCount' \in [Side -> [Prices -> Nat]]
      <4>1. limitCount \in [Side -> [Prices -> Nat]]
        BY DEF BookInv, BookTypeOK
      <4>2. limitCount[s][p] \in Nat
        BY <4>1, <1>1
      <4>3. limitCount[s][p] + 1 \in Nat
        BY <4>2
      <4> QED
        BY <4>1, <4>3, <2>1, <1>1
    <3>2. limitVolume' \in [Side -> [Prices -> Int]]
      <4>1. limitVolume \in [Side -> [Prices -> Int]]
        BY DEF BookInv, BookTypeOK
      <4>2. limitVolume[s][p] \in Int
        BY <4>1, <1>1
      <4>3. limitVolume[s][p] + o.quantity \in Int
        BY <4>2, <1>1
      <4> QED
        BY <4>1, <4>3, <2>1, <1>1
    <3>3. queue' \in [Side -> [Prices -> Seq(UID)]]
      BY <2>1, <2>2, <1>1 DEF BookInv, BookTypeOK
    <3> QED
      BY <3>1, <3>2, <3>3, <2>1, <1>4, <1>8 DEF BookInv, BookTypeOK
  <2> HIDE DEF q
  <2>5. \A t \in Side, r \in Prices :
           queue'[t][r] = IF t = s /\ r = p THEN Append(q, u) ELSE queue[t][r]
    BY <2>1, <1>1 DEF BookInv, BookTypeOK
  <2>6. QueuesHoldOrders'
    <3>1. Append(q, u) # << >>
      BY <1>5
    <3> SUFFICES ASSUME NEW t \in Side, NEW r \in Prices
                 PROVE  /\ Range(queue'[t][r]) = OrdersAt(t, r)'
                        /\ r \in levels'[t] <=> queue'[t][r] # << >>
      BY DEF QueuesHoldOrders
    <3>2. CASE t = s /\ r = p
      <4>1. queue'[t][r] = Append(q, u)
        BY <3>2, <2>5
      <4>2. OrdersAt(t, r)' = Range(q) \cup {u}
        BY <3>2, <1>5, <1>6
      <4> QED
        BY <4>1, <4>2, <3>1, <3>2, <2>1, <2>2, <1>10
    <3>3. CASE ~(t = s /\ r = p)
      BY <3>3, <2>1, <2>5, <1>6 DEF BookInv, QueuesHoldOrders
    <3> QED
      BY <3>2, <3>3
  <2>7. TimePriority'
    <3> SUFFICES ASSUME NEW t \in Side, NEW r \in Prices PROVE Ascending(queue'[t][r])
      BY DEF TimePriority, Ascending
    <3>1. CASE t = s /\ r = p
      BY <3>1, <2>2, <2>5
    <3>2. CASE ~(t = s /\ r = p)
      <4>1. queue'[t][r] = queue[t][r]
        BY <3>2, <2>5
      <4> QED
        BY <4>1 DEF BookInv, TimePriority, Ascending
    <3> QED
      BY <3>1, <3>2
  <2>8. CountsAgree'
    <3>1. \A t \in Side, r \in Prices :
             limitCount'[t][r] = IF t = s /\ r = p THEN Len(q) + 1 ELSE limitCount[t][r]
      <4>1. limitCount \in [Side -> [Prices -> Nat]]
        BY DEF BookInv, BookTypeOK
      <4> QED
        BY <4>1, <2>1, <2>3, <1>1
    <3>2. ASSUME NEW t \in Side, NEW r \in Prices PROVE limitCount'[t][r] = Len(queue'[t][r])
      <4>1. CASE t = s /\ r = p
        BY <4>1, <3>1, <2>2, <2>5
      <4>2. CASE ~(t = s /\ r = p)
        <5>1. limitCount[t][r] = Len(queue[t][r])
          BY DEF BookInv, CountsAgree
        <5>2. limitCount'[t][r] = limitCount[t][r] /\ queue'[t][r] = queue[t][r]
          BY <4>2, <3>1, <2>5
        <5> QED
          BY <5>1, <5>2
      <4> QED
        BY <4>1, <4>2
    <3> QED
      BY <3>2, <1>8 DEF CountsAgree
  <2>9. BestPrice'
    BY <2>1 DEF BookInv, BestPrice
  <2>10. \A t \in Side : levels'[t] = IF t = s THEN levels[t] \cup {p} ELSE levels[t]
    BY <2>1, <1>10
  <2> QED
    BY <2>4, <2>6, <2>7, <2>8, <2>9, <2>10 DEF BookInv
<1> QED
  BY <1>9, <1>10

\* A partial execution changes a quantity and nothing of the book's structure.
LEMMA ShrinkBook ==
    ASSUME BookInv, NEW u \in DOMAIN orders, NEW n \in Nat, n <= orders[u].quantity,
           orders' = [orders EXCEPT ![u].quantity = @ - n],
           LimitTotals(orders[u].side, orders[u].price, 0, -n),
           TreeTotals(orders[u].side, 0, -n),
           UNCHANGED <<levels, queue, best>>
    PROVE  BookInv'
<1>1. orders[u] \in Order /\ orders[u].side \in Side /\ orders[u].price \in Prices
  BY DEF BookInv, BookTypeOK, Order
<1>2. DOMAIN orders' = DOMAIN orders /\ \A v \in DOMAIN orders : v # u => orders'[v] = orders[v]
  OBVIOUS
<1>3. /\ orders'[u] \in Order
      /\ orders'[u].side = orders[u].side /\ orders'[u].price = orders[u].price
  BY <1>1 DEF Order
<1>4. \A v \in DOMAIN orders :
        orders'[v].side = orders[v].side /\ orders'[v].price = orders[v].price
  BY <1>2, <1>3
<1>5. limitCount' = limitCount /\ count' = count
  <2>1. limitCount \in [Side -> [Prices -> Nat]] /\ count \in [Side -> Nat]
    BY DEF BookInv, BookTypeOK
  <2>2. /\ limitCount' = [limitCount EXCEPT ![orders[u].side][orders[u].price] = @ + 0]
        /\ count' = [count EXCEPT ![orders[u].side] = @ + 0]
    BY DEF LimitTotals, TreeTotals
  <2>3. limitCount[orders[u].side][orders[u].price] \in Nat /\ count[orders[u].side] \in Nat
    BY <2>1, <1>1
  <2>4. /\ limitCount[orders[u].side][orders[u].price] + 0 = limitCount[orders[u].side][orders[u].price]
        /\ count[orders[u].side] + 0 = count[orders[u].side]
    BY <2>3
  <2>5. count' = count
    BY <2>1, <2>2, <2>4
  <2>6. limitCount' = limitCount
    BY <2>1, <2>2, <2>4
  <2> QED
    BY <2>5, <2>6
<1>6. limitVolume' \in [Side -> [Prices -> Int]] /\ volume' \in [Side -> Int]
  BY <1>1 DEF LimitTotals, TreeTotals, BookInv, BookTypeOK
<1>7. BookTypeOK'
  BY <1>2, <1>3, <1>5, <1>6 DEF BookInv, BookTypeOK
<1>8. (\A t, r : OrdersAt(t, r)' = OrdersAt(t, r)) /\ (\A t : OrdersOn(t)' = OrdersOn(t))
  BY <1>2, <1>4 DEF OrdersAt, OrdersOn
<1>9. QueuesHoldOrders' /\ TimePriority' /\ BestPrice'
  BY <1>8 DEF BookInv, QueuesHoldOrders, TimePriority, BestPrice
<1>10. CountsAgree'
  BY <1>5, <1>8 DEF BookInv, CountsAgree
<1> QED
  BY <1>7, <1>9, <1>10 DEF BookInv

\* Best limits that do not cross mean that no limits cross, and back.
LEMMA LimitsApart ==
    ASSUME NEW B \in SUBSET Prices, NEW S \in SUBSET Prices, NEW b, NEW a,
           IsBest("Buy", B, b), IsBest("Sell", S, a), b = NoPrice \/ a = NoPrice \/ b < a
    PROVE  \A x \in B, y \in S : x < y
<1> USE PricesAssumption
<1> SUFFICES ASSUME NEW x \in B, NEW y \in S PROVE x < y
  OBVIOUS
<1>1. b \in B /\ a \in S /\ ~(x > b) /\ ~(y < a)
  BY DEF IsBest, Better
<1>2. b < a
  BY <1>1 DEF NoPrice
<1> QED
  BY <1>1, <1>2

\* The converse, for limits that already lie apart.
LEMMA BestApart ==
    ASSUME NEW B \in SUBSET Prices, NEW S \in SUBSET Prices, NEW b, NEW a,
           IsBest("Buy", B, b), IsBest("Sell", S, a), \A x \in B, y \in S : x < y
    PROVE  b = NoPrice \/ a = NoPrice \/ b < a
  BY DEF IsBest

\* A price that does not reach the best limit of a side reaches no limit of it.
LEMMA BelowSells ==
    ASSUME NEW S \in SUBSET Prices, NEW a, IsBest("Sell", S, a), NEW p \in Prices,
           a # NoPrice => ~(p >= a)
    PROVE  \A y \in S : p < y
<1> USE PricesAssumption
<1> SUFFICES ASSUME NEW y \in S PROVE p < y
  OBVIOUS
<1>1. a \in S /\ ~(y < a)
  BY DEF IsBest, Better
<1>2. ~(p >= a)
  BY <1>1 DEF NoPrice
<1> QED
  BY <1>1, <1>2

\* The same for a selling order.
LEMMA AboveBuys ==
    ASSUME NEW B \in SUBSET Prices, NEW b, IsBest("Buy", B, b), NEW p \in Prices,
           b # NoPrice => ~(p <= b)
    PROVE  \A x \in B : x < p
<1> USE PricesAssumption
<1> SUFFICES ASSUME NEW x \in B PROVE x < p
  OBVIOUS
<1>1. b \in B /\ ~(x > b)
  BY DEF IsBest, Better
<1>2. ~(p <= b)
  BY <1>1 DEF NoPrice
<1> QED
  BY <1>1, <1>2

-----------------------------------------------------------------------------
(* Every step preserves the invariant of the book.                         *)

\* The empty book of the constructor satisfies the invariant.
LEMMA InitInv == Init => Inv
<1> SUFFICES ASSUME Init PROVE Inv
  OBVIOUS
<1> USE DEF Init
<1>1. DOMAIN orders = {} /\ DOMAIN published = {}
  OBVIOUS
<1>2. BookTypeOK
  BY <1>1 DEF BookTypeOK, NoPrice
<1>3. TypeOK
  BY <1>2 DEF TypeOK, AccountsTypeOK, UID
<1>4. \A s, p : OrdersAt(s, p) = {} /\ OrdersOn(s) = {}
  BY <1>1 DEF OrdersAt, OrdersOn
<1>5. QueuesHoldOrders /\ TimePriority
  BY <1>4 DEF QueuesHoldOrders, TimePriority, Range
<1>6. BestPrice /\ NotCrossed
  BY DEF BestPrice, IsBest, NotCrossed, Side
<1>7. CountsAgree
  BY <1>4, FS_EmptySet DEF CountsAgree
<1>8. IDsHandedOut /\ AccountsHoldOrders
  BY <1>1 DEF IDsHandedOut, AccountsHoldOrders
<1>9. FeedMatchesBook
  BY <1>1 DEF FeedMatchesBook
<1>10. CallConsistent
  BY DEF CallConsistent, NoTaker
<1> QED
  BY <1>2, <1>3, <1>5, <1>6, <1>7, <1>8, <1>9, <1>10 DEF Inv, BookInv

LEMMA InvCore == Inv => CoreInv
  BY DEF Inv, CoreInv

\* A step that leaves the book and the accounts alone only has to account for the call.
LEMMA CallOnly ==
    ASSUME CoreInv, UNCHANGED <<orders, tree, sequence, accounts>>,
           taker' = NoTaker \/ taker' \in Taker, CallConsistent'
    PROVE  CoreInv'
<1> USE DEF CoreInv, tree, accounts
<1>1. TypeOK'
  BY DEF TypeOK, BookTypeOK, AccountsTypeOK
<1>2. BookInv'
  <2>1. (\A t, r : OrdersAt(t, r)' = OrdersAt(t, r)) /\ (\A t : OrdersOn(t)' = OrdersOn(t))
    BY DEF OrdersAt, OrdersOn
  <2>2. BookTypeOK'
    BY <1>1 DEF TypeOK
  <2>3. QueuesHoldOrders' /\ TimePriority' /\ BestPrice'
    BY <2>1 DEF BookInv, QueuesHoldOrders, TimePriority, BestPrice
  <2>4. CountsAgree'
    BY <2>1 DEF BookInv, CountsAgree
  <2> QED
    BY <2>2, <2>3, <2>4 DEF BookInv
<1>3. IDsHandedOut' /\ NotCrossed'
  BY DEF IDsHandedOut, NotCrossed
<1> QED
  BY <1>1, <1>2, <1>3

\* limit_sell and limit_buy: the branch on `crosses' records what it found.
LEMMA LimitOrderInv ==
    ASSUME CoreInv, NEW a \in Accounts, NEW s \in Side, NEW q \in Quantities, NEW p \in Prices,
           LimitOrder(a, s, q, p)
    PROVE  CoreInv'
<1> USE PricesAssumption, QuantitiesAssumption
<1>1. taker' \in Taker
  BY DEF LimitOrder, Taker
<1>2. best' = best
  BY DEF LimitOrder, tree
<1>3. CallConsistent'
  BY <1>2 DEF LimitOrder, CallConsistent, Crosses
<1> QED
  BY <1>1, <1>3, CallOnly DEF LimitOrder

\* market_sell and market_buy: the call starts.
LEMMA MarketOrderInv ==
    ASSUME CoreInv, NEW a \in Accounts, NEW s \in Side, NEW q \in Quantities,
           MarketOrder(a, s, q)
    PROVE  CoreInv'
<1> USE QuantitiesAssumption
<1>1. taker' \in Taker
  BY DEF MarketOrder, Taker
<1>2. CallConsistent'
  BY DEF MarketOrder, CallConsistent
<1> QED
  BY <1>1, <1>2, CallOnly DEF MarketOrder

\* The calls that end without resting.
LEMMA ReturnInv ==
    ASSUME CoreInv, ReturnFilled \/ ReturnUnfilled
    PROVE  CoreInv'
<1>1. CallConsistent'
  BY DEF ReturnFilled, ReturnUnfilled, CallConsistent, NoTaker
<1> QED
  BY <1>1, CallOnly DEF ReturnFilled, ReturnUnfilled

\* The order that LimitTree::market picks is the oldest at the best price.
LEMMA MatchProperties ==
    ASSUME CoreInv, taker.phase = "market", CanContinue
    PROVE  /\ taker \in Taker
           /\ Match \in DOMAIN orders
           /\ orders[Match].side = Opposite(taker.side)
           /\ orders[Match].price = best[Opposite(taker.side)]
           /\ \A v \in OrdersOn(orders[Match].side) :
                 /\ ~Better(orders[Match].side, orders[v].price, orders[Match].price)
                 /\ orders[v].price = orders[Match].price => Match <= v
<1> DEFINE o == Opposite(taker.side)
           b == best[o]
           q == queue[o][b]
<1> USE PricesAssumption
<1>1. taker \in Taker
  BY DEF CoreInv, TypeOK, NoTaker
<1>2. o \in Side
  BY DEF Opposite, Side
<1>3. b \in levels[o] /\ b \in Prices /\ \A r \in levels[o] : ~Better(o, r, b)
  BY <1>2 DEF CanContinue, CoreInv, BookInv, BookTypeOK, BestPrice, IsBest
<1>4. q \in Seq(UID) /\ q # << >> /\ Range(q) = OrdersAt(o, b) /\ Ascending(q)
  BY <1>2, <1>3 DEF CoreInv, BookInv, BookTypeOK, QueuesHoldOrders, TimePriority, Ascending
<1>5. Match = q[1] /\ 1 \in DOMAIN q /\ Len(q) \in Nat
  BY <1>4 DEF Match
<1>6. Match \in OrdersAt(o, b)
  BY <1>4, <1>5 DEF Range
<1>7. \A v \in OrdersAt(o, b) : Match <= v
  <2> SUFFICES ASSUME NEW v \in Range(q) PROVE q[1] <= v
    BY <1>4, <1>5
  <2> HIDE DEF q
  <2>1. PICK i \in 1..Len(q) : v = q[i]
    BY <1>4 DEF Range
  <2>2. q[1] \in Nat /\ q[i] \in Nat
    BY <1>4, <1>5 DEF UID
  <2>3. i = 1 \/ q[1] < q[i]
    BY <1>4, <1>5 DEF Ascending
  <2> QED
    BY <2>1, <2>2, <2>3
<1>8. \A v \in OrdersOn(o) : orders[v].price \in levels[o]
  BY OrderInQueue DEF CoreInv, OrdersOn
<1> QED
  BY <1>1, <1>3, <1>6, <1>7, <1>8 DEF OrdersAt, OrdersOn

\* Adding to the values of a function at two places, which may be one.
LEMMA TwoChanges ==
    ASSUME NEW f \in [Accounts -> Int], NEW t \in Accounts, NEW m \in Accounts,
           NEW x \in Int, NEW y \in Int,
           NEW h, h = [[f EXCEPT ![t] = @ + x] EXCEPT ![m] = @ + y]
    PROVE  /\ h \in [Accounts -> Int]
           /\ \A a \in Accounts : h[a] = f[a] + ((IF a = t THEN x ELSE 0) + (IF a = m THEN y ELSE 0))
<1> DEFINE g == [f EXCEPT ![t] = @ + x]
<1>1. g \in [Accounts -> Int] /\ h = [g EXCEPT ![m] = @ + y]
  OBVIOUS
<1>2. ASSUME NEW a \in Accounts
      PROVE  g[a] = (IF a = t THEN f[a] + x ELSE f[a]) /\ f[a] \in Int
  OBVIOUS
<1> HIDE DEF g
<1>3. ASSUME NEW a \in Accounts
      PROVE  h[a] = f[a] + ((IF a = t THEN x ELSE 0) + (IF a = m THEN y ELSE 0))
  <2>1. h[a] = IF a = m THEN g[a] + y ELSE g[a]
    BY <1>1
  <2> QED
    BY <2>1, <1>2
<1>4. h \in [Accounts -> Int]
  BY <1>1
<1> QED
  BY <1>3, <1>4

\* The change of an account in a trade of n shares between the taker and the resting
\* order u.
Delta(a, u, n) == (IF a = taker.account THEN Signed(taker.side, n) ELSE 0)
                + (IF a = orders[u].account THEN Signed(orders[u].side, n) ELSE 0)

\* Both sides have settled a trade of n shares at the price of the resting order u.
Traded(u, n) ==
    /\ shares'  = [a \in Accounts |-> shares[a] + Delta(a, u, n)]
    /\ capital' = [a \in Accounts |-> capital[a] - orders[u].price * Delta(a, u, n)]

\* The fills of MatchPartly.
FillsPartly(u) == Settle(LimitPartial(MarketFill(Positions, u), u))

\* The fills of MatchWhole.
FillsWhole(u) ==
    Settle(LimitFill(IF orders[u].quantity = taker.quantity THEN MarketFill(Positions, u)
                                                            ELSE MarketPartial(Positions, u), u))

\* Whichever of the four fill methods of Account settle a trade, they move the same
\* number of shares at the same price.
LEMMA FillsTrade ==
    ASSUME AccountsTypeOK, NEW u, orders[u] \in Order, taker \in Taker, NEW n,
           (n = taker.quantity /\ FillsPartly(u)) \/ (n = orders[u].quantity /\ FillsWhole(u))
    PROVE  Traded(u, n)
<1> DEFINE t == taker.account
           m == orders[u].account
           p == orders[u].price
           x == Signed(taker.side, n)
           y == Signed(orders[u].side, n)
<1>1. shares \in [Accounts -> Int] /\ capital \in [Accounts -> Int]
  BY DEF AccountsTypeOK
<1>2. t \in Accounts /\ m \in Accounts /\ p \in Prices /\ n \in Nat
  BY DEF Taker, Order
<1>3. p \in Int /\ x \in Int /\ y \in Int
  <2>1. p \in Nat
    BY <1>2, PricesAssumption
  <2>2. x \in Int /\ y \in Int
    BY <1>2 DEF Signed
  <2> QED
    BY <2>1, <2>2
<1>4. /\ shares' = [[shares EXCEPT ![t] = @ + x] EXCEPT ![m] = @ + y]
      /\ capital' = [[capital EXCEPT ![t] = @ - p * x] EXCEPT ![m] = @ - p * y]
  <2>1. CASE n = taker.quantity /\ FillsPartly(u)
    BY <2>1 DEF FillsPartly, Settle, LimitPartial, MarketFill, Positions, Fill
  <2>2. CASE n = orders[u].quantity /\ FillsWhole(u)
    <3>1. CASE n = taker.quantity
      BY <2>2, <3>1 DEF FillsWhole, Settle, LimitFill, MarketFill, Positions, Fill
    <3>2. CASE n # taker.quantity
      BY <2>2, <3>2 DEF FillsWhole, Settle, LimitFill, MarketPartial, Positions, Fill
    <3> QED
      BY <3>1, <3>2
  <2> QED
    BY <2>1, <2>2
<1>5. \A a : Delta(a, u, n) = (IF a = t THEN x ELSE 0) + (IF a = m THEN y ELSE 0)
  BY DEF Delta
<1> HIDE DEF t, m, p, x, y
<1>6. shares' = [a \in Accounts |-> shares[a] + Delta(a, u, n)]
  <2>1. /\ shares' = [[shares EXCEPT ![t] = @ + x] EXCEPT ![m] = @ + y]
        /\ shares \in [Accounts -> Int]
        /\ x \in Int /\ y \in Int /\ t \in Accounts /\ m \in Accounts
    BY <1>1, <1>2, <1>3, <1>4
  <2>2. /\ shares' \in [Accounts -> Int]
        /\ \A a \in Accounts :
              shares'[a] = shares[a] + ((IF a = t THEN x ELSE 0) + (IF a = m THEN y ELSE 0))
    BY <2>1, TwoChanges
  <2> QED
    BY <2>2, <1>5
<1>7. capital' = [a \in Accounts |-> capital[a] - p * Delta(a, u, n)]
  <2> DEFINE v == -(p * x)
             w == -(p * y)
  <2>1. v \in Int /\ w \in Int /\ p * 0 = 0
        /\ (\A i \in Int : i - p * x = i + v) /\ (\A i \in Int : i - p * y = i + w)
    BY <1>3
  <2>2. p * (x + y) = p * x + p * y
    BY <1>3
  <2>3. capital' = [[capital EXCEPT ![t] = @ + v] EXCEPT ![m] = @ + w]
    <3>1. capital[t] - p * x = capital[t] + v
      BY <2>1, <1>1, <1>2
    <3>2. [capital EXCEPT ![t] = @ - p * x] = [capital EXCEPT ![t] = @ + v]
      BY <3>1
    <3> DEFINE g == [capital EXCEPT ![t] = @ + v]
    <3>3. g \in [Accounts -> Int]
      BY <2>1, <1>1, <1>2
    <3>4. capital' = [g EXCEPT ![m] = @ - p * y]
      BY <3>2, <1>4
    <3> HIDE DEF g
    <3>5. g[m] - p * y = g[m] + w
      BY <2>1, <3>3, <1>2
    <3>6. capital' = [g EXCEPT ![m] = @ + w]
      BY <3>4, <3>5
    <3> QED
      BY <3>6 DEF g
  <2> HIDE DEF v, w
  <2>4. /\ capital' \in [Accounts -> Int]
        /\ \A a \in Accounts :
              capital'[a] = capital[a] + ((IF a = t THEN v ELSE 0) + (IF a = m THEN w ELSE 0))
    <3>1. /\ capital' = [[capital EXCEPT ![t] = @ + v] EXCEPT ![m] = @ + w]
          /\ capital \in [Accounts -> Int]
          /\ v \in Int /\ w \in Int /\ t \in Accounts /\ m \in Accounts
      BY <2>1, <2>3, <1>1, <1>2
    <3> QED
      BY <3>1, TwoChanges
  <2>5. ASSUME NEW a \in Accounts
        PROVE  capital[a] + ((IF a = t THEN v ELSE 0) + (IF a = m THEN w ELSE 0))
                 = capital[a] - p * Delta(a, u, n)
    <3>1. capital[a] \in Int
      BY <1>1
    <3>2. CASE a = t /\ a = m
      <4>1. Delta(a, u, n) = x + y
        BY <3>2, <1>3, <1>5
      <4>2. p * Delta(a, u, n) = p * x + p * y
        BY <4>1, <2>2
      <4> QED
        BY <4>2, <3>1, <3>2, <1>3 DEF v, w
    <3>3. CASE a = t /\ a # m
      <4>1. Delta(a, u, n) = x
        BY <3>3, <1>3, <1>5
      <4> QED
        BY <4>1, <3>1, <3>3, <2>1
    <3>4. CASE a # t /\ a = m
      <4>1. Delta(a, u, n) = y
        BY <3>4, <1>3, <1>5
      <4> QED
        BY <4>1, <3>1, <3>4, <2>1
    <3>5. CASE a # t /\ a # m
      <4>1. Delta(a, u, n) = 0
        BY <3>5, <1>5
      <4> QED
        BY <4>1, <3>1, <3>5, <2>1
    <3> QED
      BY <3>2, <3>3, <3>4, <3>5
  <2> QED
    BY <2>4, <2>5
<1> QED
  BY <1>6, <1>7 DEF Traded, p

\* The fills of a trade keep the types of the accounts.
LEMMA TradeType ==
    ASSUME AccountsTypeOK, NEW u, NEW n \in Nat, orders[u] \in Order, Traded(u, n)
    PROVE  shares' \in [Accounts -> Int] /\ capital' \in [Accounts -> Int]
<1>1. \A t : Signed(t, n) \in Int
  BY DEF Signed
<1>2. \A a : Delta(a, u, n) \in Int
  BY <1>1 DEF Delta
<1>3. orders[u].price \in Int
  <2>1. orders[u].price \in Prices
    BY DEF Order
  <2>2. orders[u].price \in Nat
    BY <2>1, PricesAssumption
  <2> QED
    BY <2>2
<1>4. /\ shares' = [a \in Accounts |-> shares[a] + Delta(a, u, n)]
      /\ capital' = [a \in Accounts |-> capital[a] - orders[u].price * Delta(a, u, n)]
  BY DEF Traded
<1>5. \A a : orders[u].price * Delta(a, u, n) \in Int
  BY <1>2, <1>3
<1> QED
  BY <1>2, <1>4, <1>5 DEF AccountsTypeOK

\* Taking an order out of the book: what cancels and fills have in common.
LEMMA RemoveInv ==
    ASSUME CoreInv, NEW u \in DOMAIN orders, TreeRemove(u), AccountCancel(u)
    PROVE  /\ BookInv' /\ NotCrossed'
           /\ DOMAIN orders' = DOMAIN orders \ {u}
           /\ \A v \in DOMAIN orders' : orders'[v] = orders[v]
           /\ active' \in [Accounts -> SUBSET UID]
<1>1. /\ BookInv'
      /\ DOMAIN orders' = DOMAIN orders \ {u}
      /\ \A v \in DOMAIN orders' : orders'[v] = orders[v]
      /\ \A s \in Side : levels'[s] \subseteq levels[s]
  BY TreeRemoveBook DEF CoreInv
<1>2. NotCrossed'
  <2>1. /\ levels["Buy"] \in SUBSET Prices /\ levels["Sell"] \in SUBSET Prices
        /\ levels'["Buy"] \in SUBSET Prices /\ levels'["Sell"] \in SUBSET Prices
    BY <1>1 DEF CoreInv, BookInv, BookTypeOK, Side
  <2>2. /\ IsBest("Buy", levels["Buy"], best["Buy"]) /\ IsBest("Sell", levels["Sell"], best["Sell"])
        /\ IsBest("Buy", levels'["Buy"], best'["Buy"]) /\ IsBest("Sell", levels'["Sell"], best'["Sell"])
    BY <1>1 DEF CoreInv, BookInv, BestPrice, Side
  <2>3. \A b \in levels["Buy"], a \in levels["Sell"] : b < a
    <3>1. best["Buy"] = NoPrice \/ best["Sell"] = NoPrice \/ best["Buy"] < best["Sell"]
      BY DEF CoreInv, NotCrossed
    <3> QED
      BY <3>1, <2>1, <2>2, LimitsApart
  <2>4. \A b \in levels'["Buy"], a \in levels'["Sell"] : b < a
    BY <2>3, <1>1 DEF Side
  <2> QED
    BY <2>1, <2>2, <2>4, BestApart DEF NotCrossed
<1>3. orders[u].account \in Accounts
  BY DEF CoreInv, TypeOK, BookTypeOK, Order
<1>4. active' \in [Accounts -> SUBSET UID]
  BY <1>3 DEF AccountCancel, CoreInv, TypeOK, AccountsTypeOK
<1> QED
  BY <1>1, <1>2, <1>4

\* LimitOrderBook::cancel.
LEMMA CancelInv ==
    ASSUME CoreInv, NEW u \in DOMAIN orders, Cancel(u)
    PROVE  CoreInv'
<1>1. TreeRemove(u) /\ AccountCancel(u) /\ DeleteOrderMessage(u)
      /\ UNCHANGED <<sequence, taker, shares, capital>> /\ Idle
  BY DEF Cancel
<1>2. /\ BookInv' /\ NotCrossed'
      /\ DOMAIN orders' = DOMAIN orders \ {u}
      /\ \A v \in DOMAIN orders' : orders'[v] = orders[v]
      /\ active' \in [Accounts -> SUBSET UID]
  BY <1>1, RemoveInv
<1>3. TypeOK'
  BY <1>1, <1>2 DEF CoreInv, TypeOK, BookInv, AccountsTypeOK
<1>4. IDsHandedOut'
  BY <1>1, <1>2 DEF CoreInv, IDsHandedOut
<1>5. CallConsistent'
  BY <1>1 DEF Idle, CoreInv, CallConsistent
<1> QED
  BY <1>2, <1>3, <1>4, <1>5 DEF CoreInv

\* LimitTree::market executes a resting order whole.
LEMMA MatchWholeInv ==
    ASSUME CoreInv, MatchWhole
    PROVE  CoreInv'
<1> DEFINE u == Match
           n == orders[u].quantity
<1>1. /\ taker.phase = "market" /\ CanContinue /\ n <= taker.quantity
      /\ FillsWhole(u) /\ AccountCancel(u) /\ TradeMessage(u, n) /\ TreeRemove(u)
      /\ taker' = TakerAfter(n) /\ sequence' = sequence
  BY DEF MatchWhole, Exhausts, FillsWhole
<1>2. taker \in Taker /\ u \in DOMAIN orders
  BY <1>1, MatchProperties
<1>3. orders[u] \in Order /\ n \in Nat
  BY <1>2 DEF CoreInv, TypeOK, BookTypeOK, Order
<1> HIDE DEF u
<1>4. /\ BookInv' /\ NotCrossed'
      /\ DOMAIN orders' = DOMAIN orders \ {u}
      /\ \A v \in DOMAIN orders' : orders'[v] = orders[v]
      /\ active' \in [Accounts -> SUBSET UID]
  BY <1>1, <1>2, RemoveInv
<1>5. shares' \in [Accounts -> Int] /\ capital' \in [Accounts -> Int]
  <2>1. AccountsTypeOK
    BY DEF CoreInv, TypeOK
  <2>2. Traded(u, n)
    BY <2>1, <1>1, <1>2, <1>3, FillsTrade
  <2> QED
    BY <2>1, <2>2, <1>3, TradeType
<1>6. /\ taker' \in Taker
      /\ taker'.limit = taker.limit /\ taker'.price = taker.price
      /\ taker'.phase = IF n = taker.quantity THEN "filled" ELSE "market"
      /\ taker'.quantity = taker.quantity - n
  <2>1. taker' = [taker EXCEPT !.quantity = @ - n,
                               !.phase = IF n = taker.quantity THEN "filled" ELSE "market"]
    BY <1>1 DEF TakerAfter
  <2>2. taker.quantity - n \in Nat
    BY <1>1, <1>2, <1>3 DEF Taker
  <2> HIDE DEF n
  <2> QED
    BY <2>1, <2>2, <1>2 DEF Taker
<1>7. TypeOK'
  BY <1>1, <1>4, <1>5, <1>6 DEF CoreInv, TypeOK, BookInv, AccountsTypeOK
<1>8. IDsHandedOut'
  BY <1>1, <1>4 DEF CoreInv, IDsHandedOut
<1>9. CallConsistent'
  <2>1. taker # NoTaker
    BY <1>1 DEF NoTaker
  <2>2. taker.quantity \in Nat /\ (taker.limit => taker.price \in Prices)
    BY <2>1, <1>2 DEF CoreInv, CallConsistent, Taker
  <2> QED
    BY <2>2, <1>3, <1>6 DEF CallConsistent
<1> QED
  BY <1>4, <1>7, <1>8, <1>9 DEF CoreInv

\* LimitTree::market executes a part of a resting order, which keeps its place.
LEMMA MatchPartlyInv ==
    ASSUME CoreInv, MatchPartly
    PROVE  CoreInv'
<1> DEFINE u == Match
           n == taker.quantity
<1>1. /\ taker.phase = "market" /\ CanContinue /\ ~(orders[u].quantity <= n)
      /\ FillsPartly(u) /\ TradeMessage(u, n)
      /\ orders' = [orders EXCEPT ![u].quantity = @ - n]
      /\ LimitTotals(orders[u].side, orders[u].price, 0, -n)
      /\ TreeTotals(orders[u].side, 0, -n)
      /\ taker' = TakerAfter(n)
      /\ UNCHANGED <<levels, queue, best, sequence, active>>
  BY DEF MatchPartly, Exhausts, FillsPartly
<1>2. taker \in Taker /\ u \in DOMAIN orders
  BY <1>1, MatchProperties
<1>3. orders[u] \in Order /\ n \in Nat /\ orders[u].quantity \in Nat
  BY <1>2 DEF CoreInv, TypeOK, BookTypeOK, Order, Taker
<1> HIDE DEF u
<1>4. BookInv'
  <2>1. BookInv /\ n <= orders[u].quantity /\ UNCHANGED <<levels, queue, best>>
    BY <1>1, <1>3 DEF CoreInv
  <2> HIDE DEF n
  <2> QED
    BY <2>1, <1>1, <1>2, <1>3, ShrinkBook
<1>5. shares' \in [Accounts -> Int] /\ capital' \in [Accounts -> Int]
  <2>1. AccountsTypeOK
    BY DEF CoreInv, TypeOK
  <2>2. Traded(u, n)
    BY <2>1, <1>1, <1>2, <1>3, FillsTrade
  <2> QED
    BY <2>1, <2>2, <1>3, TradeType
<1>6. /\ taker' \in Taker
      /\ taker'.limit = taker.limit /\ taker'.price = taker.price
      /\ taker'.phase = "filled" /\ taker'.quantity = 0
  <2>1. taker.quantity - n = 0
    BY <1>3
  <2>2. taker' = [taker EXCEPT !.quantity = 0, !.phase = "filled"]
    BY <2>1, <1>1 DEF TakerAfter
  <2> QED
    BY <2>2, <1>2 DEF Taker
<1>7. TypeOK'
  BY <1>1, <1>4, <1>5, <1>6 DEF CoreInv, TypeOK, BookInv, AccountsTypeOK
<1>8. /\ DOMAIN orders' = DOMAIN orders
      /\ \A v \in DOMAIN orders : v # u => orders'[v] = orders[v]
      /\ orders'[u].side = orders[u].side /\ orders'[u].price = orders[u].price
      /\ orders'[u].account = orders[u].account
      /\ orders'[u].quantity = orders[u].quantity - n
  BY <1>1, <1>2, <1>3 DEF Order
<1>9. IDsHandedOut' /\ NotCrossed'
  BY <1>1, <1>8 DEF CoreInv, IDsHandedOut, NotCrossed
<1>10. CallConsistent'
  <2>1. taker # NoTaker
    BY <1>1 DEF NoTaker
  <2>2. taker.limit => taker.price \in Prices
    BY <2>1, <1>2 DEF CoreInv, CallConsistent, Taker
  <2> QED
    BY <2>2, <1>6 DEF CallConsistent
<1> QED
  BY <1>4, <1>7, <1>9, <1>10 DEF CoreInv

\* What rests in the book does not cross it: the loop has used up everything
\* that the order could be matched with.
LEMMA RestingDoesNotCross ==
    ASSUME CoreInv, taker \in Taker, taker.limit,
           taker.phase = "rest" \/ (taker.phase = "market" /\ ~CanContinue)
    PROVE  ~Crosses(taker.side, taker.price)
<1>1. CASE taker.phase = "rest"
  BY <1>1 DEF CoreInv, CallConsistent
<1>2. CASE ~CanContinue
  BY <1>2 DEF CanContinue, CanMatch, Crosses, Opposite
<1> QED
  BY <1>1, <1>2

\* The order rests: it is the newest of its limit and the book is not crossed.
LEMMA ReturnRestingInv ==
    ASSUME CoreInv, ReturnResting
    PROVE  CoreInv'
<1> DEFINE o == [side |-> taker.side, quantity |-> taker.quantity,
                 price |-> taker.price, account |-> taker.account]
           u == sequence
<1>1. /\ ~Idle /\ taker.limit
      /\ taker.phase = "rest" \/ (taker.phase = "market" /\ ~CanContinue)
      /\ orders' = [v \in DOMAIN orders \cup {u} |-> IF v = u THEN o ELSE orders[v]]
      /\ TreeLimit(u, o)
      /\ sequence' = u + 1 /\ taker' = NoTaker /\ UNCHANGED <<shares, capital>>
  BY DEF ReturnResting
<1>2. taker \in Taker /\ taker # NoTaker
  BY <1>1 DEF CoreInv, TypeOK, Idle, NoTaker
<1>3. o \in Order /\ u \in UID /\ u \notin DOMAIN orders
  BY <1>1, <1>2 DEF CoreInv, CallConsistent, Taker, Order, TypeOK, IDsHandedOut, UID
<1>4. ~Crosses(o.side, o.price)
  BY <1>1, <1>2, RestingDoesNotCross
<1>5. o.side \in Side /\ o.price \in Prices /\ o.quantity \in Nat /\ o.account \in Accounts
  BY <1>3 DEF Order
<1> HIDE DEF o
<1>6. /\ BookInv'
      /\ \A t \in Side : levels'[t] = IF t = o.side THEN levels[t] \cup {o.price} ELSE levels[t]
  BY <1>1, <1>3, TreeLimitBook DEF CoreInv
<1>7. active' = [active EXCEPT ![o.account] = @ \cup {u}] /\ AddOrderMessage(u, o.side, o.price, o.quantity)
  BY <1>1 DEF TreeLimit, AccountLimit
<1>8. TypeOK'
  <2>1. active' \in [Accounts -> SUBSET UID]
    BY <1>3, <1>5, <1>7 DEF CoreInv, TypeOK, AccountsTypeOK
  <2>2. sequence' \in UID
    BY <1>1, <1>3 DEF UID
  <2> QED
    BY <2>1, <2>2, <1>1, <1>6 DEF CoreInv, TypeOK, AccountsTypeOK, BookInv
<1>9. /\ DOMAIN orders' = DOMAIN orders \cup {u} /\ orders'[u] = o
      /\ \A v \in DOMAIN orders : orders'[v] = orders[v]
  BY <1>1, <1>3
<1>10. IDsHandedOut'
  BY <1>1, <1>3, <1>9 DEF CoreInv, TypeOK, BookTypeOK, IDsHandedOut, UID
<1>11. NotCrossed'
  <2>1. /\ levels["Buy"] \in SUBSET Prices /\ levels["Sell"] \in SUBSET Prices
        /\ levels'["Buy"] \in SUBSET Prices /\ levels'["Sell"] \in SUBSET Prices
    BY <1>6 DEF CoreInv, BookInv, BookTypeOK, Side
  <2>2. /\ IsBest("Buy", levels["Buy"], best["Buy"]) /\ IsBest("Sell", levels["Sell"], best["Sell"])
        /\ IsBest("Buy", levels'["Buy"], best'["Buy"]) /\ IsBest("Sell", levels'["Sell"], best'["Sell"])
    BY <1>6 DEF CoreInv, BookInv, BestPrice, Side
  <2>3. \A b \in levels["Buy"], a \in levels["Sell"] : b < a
    <3>1. best["Buy"] = NoPrice \/ best["Sell"] = NoPrice \/ best["Buy"] < best["Sell"]
      BY DEF CoreInv, NotCrossed
    <3> QED
      BY <3>1, <2>1, <2>2, LimitsApart
  <2>4. \A b \in levels'["Buy"], a \in levels'["Sell"] : b < a
    <3>1. CASE o.side = "Sell"
      <4>1. best["Buy"] # NoPrice => ~(o.price <= best["Buy"])
        BY <3>1, <1>4 DEF Crosses, Opposite
      <4>2. \A b \in levels["Buy"] : b < o.price
        BY <4>1, <2>1, <2>2, <1>5, AboveBuys
      <4>3. levels'["Buy"] = levels["Buy"] /\ levels'["Sell"] = levels["Sell"] \cup {o.price}
        BY <3>1, <1>6 DEF Side
      <4> QED
        BY <4>2, <4>3, <2>3
    <3>2. CASE o.side = "Buy"
      <4>1. best["Sell"] # NoPrice => ~(o.price >= best["Sell"])
        BY <3>2, <1>4 DEF Crosses, Opposite
      <4>2. \A a \in levels["Sell"] : o.price < a
        BY <4>1, <2>1, <2>2, <1>5, BelowSells
      <4>3. levels'["Sell"] = levels["Sell"] /\ levels'["Buy"] = levels["Buy"] \cup {o.price}
        BY <3>2, <1>6 DEF Side
      <4> QED
        BY <4>2, <4>3, <2>3
    <3> QED
      BY <3>1, <3>2, <1>5 DEF Side
  <2> QED
    BY <2>1, <2>2, <2>4, BestApart DEF NotCrossed
<1>12. CallConsistent'
  BY <1>1 DEF CallConsistent, NoTaker
<1> QED
  BY <1>6, <1>8, <1>10, <1>11, <1>12 DEF CoreInv

\* Every step of a call keeps the invariant of the book.
LEMMA NextCore == CoreInv /\ [Next]_vars => CoreInv'
<1> SUFFICES ASSUME CoreInv, [Next]_vars PROVE CoreInv'
  OBVIOUS
<1>1. ASSUME NEW a \in Accounts, NEW s \in Side, NEW q \in Quantities, MarketOrder(a, s, q)
      PROVE  CoreInv'
  BY <1>1, MarketOrderInv
<1>2. ASSUME NEW a \in Accounts, NEW s \in Side, NEW q \in Quantities, NEW p \in Prices,
             LimitOrder(a, s, q, p)
      PROVE  CoreInv'
  BY <1>2, LimitOrderInv
<1>3. ASSUME NEW u \in DOMAIN orders, Cancel(u) PROVE CoreInv'
  BY <1>3, CancelInv
<1>4. CASE MatchPartly
  BY <1>4, MatchPartlyInv
<1>5. CASE MatchWhole
  BY <1>5, MatchWholeInv
<1>6. CASE ReturnFilled \/ ReturnUnfilled
  BY <1>6, ReturnInv
<1>7. CASE ReturnResting
  BY <1>7, ReturnRestingInv
<1>8. CASE UNCHANGED vars
  <2>1. CallConsistent'
    BY <1>8 DEF vars, tree, accounts, CoreInv, CallConsistent, Crosses
  <2>2. UNCHANGED <<orders, tree, sequence, accounts>> /\ taker' = taker
    BY <1>8 DEF vars
  <2> QED
    BY <2>1, <2>2, CallOnly DEF CoreInv, TypeOK
<1> QED
  BY <1>1, <1>2, <1>3, <1>4, <1>5, <1>6, <1>7, <1>8 DEF Next, Continue

-----------------------------------------------------------------------------
(* The accounts and the feed follow the book.                              *)

\* An order that leaves the book leaves its account, and the feed says so.
LEMMA RemoveFollows ==
    ASSUME Inv, NEW u \in DOMAIN orders, TreeRemove(u), AccountCancel(u),
           published' = Restrict(published, DOMAIN published \ {u})
    PROVE  AccountsHoldOrders' /\ FeedMatchesBook'
<1>1. DOMAIN orders' = DOMAIN orders \ {u} /\ \A v \in DOMAIN orders' : orders'[v] = orders[v]
  BY TreeRemoveBook DEF Inv
<1>2. AccountsHoldOrders'
  <2> SUFFICES ASSUME NEW a \in Accounts
               PROVE  active'[a] = {v \in DOMAIN orders' : orders'[v].account = a}
    BY DEF AccountsHoldOrders
  <2>1. active[a] = {v \in DOMAIN orders : orders[v].account = a}
    BY DEF Inv, AccountsHoldOrders
  <2>2. active'[a] = IF a = orders[u].account THEN active[a] \ {u} ELSE active[a]
    BY DEF AccountCancel, Inv, TypeOK, AccountsTypeOK
  <2> QED
    BY <2>1, <2>2, <1>1
<1>3. FeedMatchesBook'
  BY <1>1 DEF Inv, FeedMatchesBook, Restrict
<1> QED
  BY <1>2, <1>3

\* A trade for a part of an order takes that part off it everywhere.
LEMMA PartFollows ==
    ASSUME Inv, MatchPartly
    PROVE  AccountsHoldOrders' /\ FeedMatchesBook'
<1> DEFINE u == Match
           n == taker.quantity
<1>1. /\ taker.phase = "market" /\ CanContinue /\ ~(orders[u].quantity <= n)
      /\ TradeMessage(u, n) /\ active' = active
      /\ orders' = [orders EXCEPT ![u].quantity = @ - n]
  BY DEF MatchPartly, Exhausts, FillsPartly
<1>2. taker \in Taker /\ u \in DOMAIN orders
  BY <1>1, InvCore, MatchProperties
<1>3. orders[u] \in Order /\ n \in Nat /\ orders[u].quantity \in Nat
  BY <1>2 DEF Inv, TypeOK, BookTypeOK, Order, Taker
<1> HIDE DEF u
<1>4. /\ DOMAIN orders' = DOMAIN orders
      /\ \A v \in DOMAIN orders : v # u => orders'[v] = orders[v]
      /\ orders'[u].side = orders[u].side /\ orders'[u].price = orders[u].price
      /\ orders'[u].account = orders[u].account
      /\ orders'[u].quantity = orders[u].quantity - n
  BY <1>1, <1>2, <1>3 DEF Order
<1>5. AccountsHoldOrders'
  <2>1. \A v \in DOMAIN orders : orders'[v].account = orders[v].account
    BY <1>4
  <2> QED
    BY <2>1, <1>1, <1>4 DEF Inv, AccountsHoldOrders
<1>6. FeedMatchesBook'
  <2>1. /\ DOMAIN published = DOMAIN orders
        /\ \A v \in DOMAIN orders : published[v] =
              [side |-> orders[v].side, price |-> orders[v].price, quantity |-> orders[v].quantity]
        /\ published = [v \in DOMAIN orders |-> published[v]]
    BY DEF Inv, FeedMatchesBook
  <2>2. published[u].quantity # n
    BY <2>1, <1>1, <1>2, <1>3
  <2>3. published' = [published EXCEPT ![u].quantity = @ - n]
    BY <2>2, <1>1 DEF TradeMessage
  <2>4. ASSUME NEW v \in DOMAIN orders
        PROVE  published'[v] = [side |-> orders'[v].side, price |-> orders'[v].price,
                                quantity |-> orders'[v].quantity]
    <3>1. CASE v = u
      BY <3>1, <2>1, <2>3, <1>4
    <3>2. CASE v # u
      BY <3>2, <2>1, <2>3, <1>4
    <3> QED
      BY <3>1, <3>2
  <2> QED
    BY <2>1, <2>3, <2>4, <1>4 DEF FeedMatchesBook
<1> QED
  BY <1>5, <1>6

\* An order that rests is in its account, and the feed announces it.
LEMMA RestingFollows ==
    ASSUME Inv, ReturnResting
    PROVE  AccountsHoldOrders' /\ FeedMatchesBook'
<1> DEFINE o == [side |-> taker.side, quantity |-> taker.quantity,
                 price |-> taker.price, account |-> taker.account]
           u == sequence
<1>1. orders' = [v \in DOMAIN orders \cup {u} |-> IF v = u THEN o ELSE orders[v]] /\ TreeLimit(u, o)
  BY DEF ReturnResting
<1>2. u \notin DOMAIN orders
  BY DEF Inv, TypeOK, IDsHandedOut, UID
<1> HIDE DEF o
<1>3. /\ active' = [active EXCEPT ![o.account] = @ \cup {u}]
      /\ AddOrderMessage(u, o.side, o.price, o.quantity)
  BY <1>1 DEF TreeLimit, AccountLimit
<1>4. /\ DOMAIN orders' = DOMAIN orders \cup {u} /\ orders'[u] = o
      /\ \A v \in DOMAIN orders : orders'[v] = orders[v]
  BY <1>1, <1>2
<1>5. AccountsHoldOrders'
  <2> SUFFICES ASSUME NEW a \in Accounts
               PROVE  active'[a] = {v \in DOMAIN orders' : orders'[v].account = a}
    BY DEF AccountsHoldOrders
  <2>1. active[a] = {v \in DOMAIN orders : orders[v].account = a}
    BY DEF Inv, AccountsHoldOrders
  <2>2. active'[a] = IF a = o.account THEN active[a] \cup {u} ELSE active[a]
    BY <1>3 DEF Inv, TypeOK, AccountsTypeOK
  <2> QED
    BY <2>1, <2>2, <1>2, <1>4
<1>6. FeedMatchesBook'
  BY <1>2, <1>3, <1>4 DEF Inv, FeedMatchesBook, AddOrderMessage
<1> QED
  BY <1>5, <1>6

\* Every step that a handler of the venue causes keeps the invariant.
LEMMA NextInv == Inv /\ [Next]_vars => Inv'
<1> SUFFICES ASSUME Inv, [Next]_vars PROVE AccountsHoldOrders' /\ FeedMatchesBook'
  BY InvCore, NextCore DEF Inv, CoreInv
<1>1. ASSUME UNCHANGED <<orders, accounts, published>>
      PROVE  AccountsHoldOrders' /\ FeedMatchesBook'
  BY <1>1 DEF accounts, Inv, AccountsHoldOrders, FeedMatchesBook
<1>2. ASSUME NEW a \in Accounts, NEW s \in Side, NEW q \in Quantities,
             MarketOrder(a, s, q) \/ \E p \in Prices : LimitOrder(a, s, q, p)
      PROVE  UNCHANGED <<orders, accounts, published>>
  BY <1>2 DEF MarketOrder, LimitOrder
<1>3. ASSUME NEW u \in DOMAIN orders, Cancel(u)
      PROVE  AccountsHoldOrders' /\ FeedMatchesBook'
  BY <1>3, RemoveFollows DEF Cancel, DeleteOrderMessage
<1>4. CASE MatchPartly
  BY <1>4, PartFollows
<1>5. CASE MatchWhole
  <2> DEFINE u == Match
             n == orders[u].quantity
  <2>1. /\ taker.phase = "market" /\ CanContinue
        /\ AccountCancel(u) /\ TradeMessage(u, n) /\ TreeRemove(u)
    BY <1>5 DEF MatchWhole
  <2>2. u \in DOMAIN orders
    BY <2>1, InvCore, MatchProperties
  <2> HIDE DEF u
  <2>3. published' = Restrict(published, DOMAIN published \ {u})
    BY <2>1, <2>2 DEF TradeMessage, Inv, FeedMatchesBook
  <2> QED
    BY <2>1, <2>2, <2>3, RemoveFollows
<1>6. CASE ReturnFilled \/ ReturnUnfilled
  BY <1>1, <1>6 DEF ReturnFilled, ReturnUnfilled
<1>7. CASE ReturnResting
  BY <1>7, RestingFollows
<1>8. CASE UNCHANGED vars
  BY <1>1, <1>8 DEF vars
<1> QED
  BY <1>1, <1>2, <1>3, <1>4, <1>5, <1>6, <1>7, <1>8 DEF Next, Continue

-----------------------------------------------------------------------------
(* reduce and clear, which no handler calls                                *)

\* reduce: the order shrinks, or goes.
LEMMA ReduceCore ==
    ASSUME CoreInv, NEW u \in DOMAIN orders, NEW q \in Quantities, Reduce(u, q)
    PROVE  CoreInv'
<1>1. CASE Cancel(u)
  BY <1>1, CancelInv
<1>2. CASE ~Cancel(u)
  <2>1. /\ Idle /\ q < orders[u].quantity
        /\ orders' = [orders EXCEPT ![u].quantity = @ - q]
        /\ LimitTotals(orders[u].side, orders[u].price, 0, -q)
        /\ TreeTotals(orders[u].side, 0, -q)
        /\ UNCHANGED <<levels, queue, best, sequence, taker, accounts>>
    BY <1>2 DEF Reduce
  <2>2. q \in Nat /\ orders[u].quantity \in Nat
    BY QuantitiesAssumption DEF CoreInv, TypeOK, BookTypeOK, Order
  <2>3. q <= orders[u].quantity /\ UNCHANGED <<levels, queue, best>>
    BY <2>1, <2>2
  <2>4. BookInv'
    BY <2>1, <2>2, <2>3, ShrinkBook DEF CoreInv
  <2>5. TypeOK'
    BY <2>1, <2>4 DEF CoreInv, TypeOK, BookInv, AccountsTypeOK, accounts
  <2>6. IDsHandedOut' /\ NotCrossed'
    BY <2>1 DEF CoreInv, IDsHandedOut, NotCrossed
  <2>7. CallConsistent'
    BY <2>1 DEF CoreInv, CallConsistent, Crosses
  <2> QED
    BY <2>4, <2>5, <2>6, <2>7 DEF CoreInv
<1> QED
  BY <1>1, <1>2

\* clear: the book is as the constructor left it.
LEMMA ClearCore ==
    ASSUME CoreInv, Clear
    PROVE  CoreInv'
<1> USE DEF Clear
<1>1. DOMAIN orders' = {}
  OBVIOUS
<1>2. BookTypeOK'
  BY <1>1 DEF BookTypeOK, NoPrice
<1>3. TypeOK'
  BY <1>2 DEF CoreInv, TypeOK, AccountsTypeOK, accounts, UID
<1>4. \A s, p : OrdersAt(s, p)' = {} /\ OrdersOn(s)' = {}
  BY <1>1 DEF OrdersAt, OrdersOn
<1>5. QueuesHoldOrders' /\ TimePriority'
  BY <1>4 DEF QueuesHoldOrders, TimePriority, Range
<1>6. BestPrice' /\ NotCrossed'
  BY DEF BestPrice, IsBest, NotCrossed, Side
<1>7. CountsAgree'
  BY <1>4, FS_EmptySet DEF CountsAgree
<1>8. IDsHandedOut'
  BY <1>1 DEF IDsHandedOut
<1>9. CallConsistent'
  BY DEF CoreInv, CallConsistent, Idle
<1> QED
  BY <1>2, <1>3, <1>5, <1>6, <1>7, <1>8, <1>9 DEF CoreInv, BookInv

\* Every operation keeps the invariant of the book.
LEMMA ApiNextCore == CoreInv /\ [ApiNext]_vars => CoreInv'
<1> SUFFICES ASSUME CoreInv, [ApiNext]_vars PROVE CoreInv'
  OBVIOUS
<1>1. CASE [Next]_vars
  BY <1>1, NextCore
<1>2. ASSUME NEW u \in DOMAIN orders, NEW q \in Quantities, Reduce(u, q) PROVE CoreInv'
  BY <1>2, ReduceCore
<1>3. CASE Clear
  BY <1>3, ClearCore
<1> QED
  BY <1>1, <1>2, <1>3 DEF ApiNext

-----------------------------------------------------------------------------
(* Theorems                                                                *)

\* The invariant holds in every behaviour of the book, whatever the accounts,
\* prices, quantities and number of orders.
THEOREM Invariance == Spec => []Inv
<1>1. Init => Inv
  BY InitInv
<1>2. Inv /\ [Next]_vars => Inv'
  BY NextInv
<1> QED
  BY <1>1, <1>2, PTL DEF Spec

\* The same for the book's own part, with the operations that no handler calls.
THEOREM ApiInvariance == ApiSpec => []CoreInv
<1>1. Init => CoreInv
  BY InitInv, InvCore
<1>2. CoreInv /\ [ApiNext]_vars => CoreInv'
  BY ApiNextCore
<1> QED
  BY <1>1, <1>2, PTL DEF ApiSpec

\* What the handlers of the venue do with LimitOrderBook is a part of what its
\* interface allows: the theorems about ApiSpec hold of Spec.
LEMMA HandlersWithinApi == Spec => ApiSpec
<1>1. [Next]_vars => [ApiNext]_vars
  BY DEF ApiNext
<1> QED
  BY <1>1, PTL DEF Spec, ApiSpec

\* Every variable of the book, the accounts and the call keeps its type, whichever
\* operations of LimitOrderBook are called.
THEOREM TypeCorrect == ApiSpec => []TypeOK
<1>1. CoreInv => TypeOK
  BY DEF CoreInv
<1> QED
  BY <1>1, ApiInvariance, PTL

\* The ID map, the limits and their queues agree, and the queues are in order of
\* arrival, after any sequence of calls of LimitOrderBook, reduce and clear included.
THEOREM QueuesCorrect == ApiSpec => [](QueuesHoldOrders /\ TimePriority)
<1>1. CoreInv => QueuesHoldOrders /\ TimePriority
  BY DEF CoreInv, BookInv
<1> QED
  BY <1>1, ApiInvariance, PTL

\* LimitTree::best is the best price of its side, and the two sides never cross,
\* after any sequence of calls of LimitOrderBook.
THEOREM NeverCrossed == ApiSpec => [](BestPrice /\ NotCrossed)
<1>1. CoreInv => BestPrice /\ NotCrossed
  BY DEF CoreInv, BookInv
<1> QED
  BY <1>1, ApiInvariance, PTL

\* Account::orders is the set of the account's resting orders.
THEOREM AccountsCorrect == Spec => []AccountsHoldOrders
<1>1. Inv => AccountsHoldOrders
  BY DEF Inv
<1> QED
  BY <1>1, Invariance, PTL

\* The messages sent to the feed determine the resting orders.
THEOREM FeedComplete == Spec => []FeedMatchesBook
<1>1. Inv => FeedMatchesBook
  BY DEF Inv
<1> QED
  BY <1>1, Invariance, PTL

-----------------------------------------------------------------------------
(* Priority: what a step may never do.                                     *)

\* Of the steps of a running call only the two that match execute an order, and
\* they execute the order at the head of the best limit.
LEMMA OnlyMatchExecuted ==
    ASSUME CoreInv, Next, ~Idle, NEW u \in DOMAIN orders, Executed(u)
    PROVE  taker.phase = "market" /\ CanContinue /\ u = Match
<1>1. ASSUME NEW v \in DOMAIN orders, v \in DOMAIN orders', orders'[v] = orders[v]
      PROVE  ~Executed(v)
  <2>1. orders[v].quantity \in Nat
    BY DEF CoreInv, TypeOK, BookTypeOK, Order
  <2> QED
    BY <2>1, <1>1 DEF Executed
<1>2. CASE MatchPartly
  BY <1>1, <1>2 DEF MatchPartly
<1>3. CASE MatchWhole
  <2>1. orders' = Restrict(orders, DOMAIN orders \ {Match})
    BY <1>3 DEF MatchWhole, TreeRemove
  <2> QED
    BY <2>1, <1>1, <1>3 DEF MatchWhole, Restrict
<1>4. CASE ReturnFilled \/ ReturnUnfilled
  BY <1>1, <1>4 DEF ReturnFilled, ReturnUnfilled
<1>5. CASE ReturnResting
  <2>1. sequence \notin DOMAIN orders
    BY DEF CoreInv, TypeOK, IDsHandedOut, UID
  <2> QED
    BY <2>1, <1>1, <1>5 DEF ReturnResting
<1>6. ~(\E a \in Accounts, s \in Side, q \in Quantities :
          MarketOrder(a, s, q) \/ \E p \in Prices : LimitOrder(a, s, q, p))
  BY DEF MarketOrder, LimitOrder
<1>7. ~(\E v \in DOMAIN orders : Cancel(v))
  BY DEF Cancel
<1> QED
  BY <1>2, <1>3, <1>4, <1>5, <1>6, <1>7 DEF Next, Continue

\* Every execution takes the best price first and, at one price, the oldest
\* order first: the contract of LimitTree::market.
THEOREM Priority == Spec => PriceTimePriority
<1> DEFINE Step == ~Idle => \A u \in DOMAIN orders : Executed(u) =>
                      \A v \in OrdersOn(orders[u].side) :
                          /\ ~Better(orders[u].side, orders[v].price, orders[u].price)
                          /\ orders[v].price = orders[u].price => u <= v
<1>1. Inv /\ Next => Step
  <2> SUFFICES ASSUME Inv, Next, ~Idle, NEW u \in DOMAIN orders, Executed(u),
                      NEW v \in OrdersOn(orders[u].side)
               PROVE  /\ ~Better(orders[u].side, orders[v].price, orders[u].price)
                      /\ orders[v].price = orders[u].price => u <= v
    OBVIOUS
  <2>1. taker.phase = "market" /\ CanContinue /\ u = Match
    BY InvCore, OnlyMatchExecuted
  <2> QED
    BY <2>1, InvCore, MatchProperties
<1>2. Inv /\ [Next]_vars => [Step]_vars
  BY <1>1
<1> QED
  BY <1>2, Invariance, PTL DEF Spec, PriceTimePriority

\* No limit order is executed at a worse price than its limit, whatever prices the
\* orders carry and whichever operations of LimitOrderBook are called, with the one
\* exception of a buy at 0, the sentinel of can_match.
THEOREM LimitPrices == ApiSpec => LimitPriceRespected
<1> DEFINE Step == ~Idle /\ taker.limit => WithinLimit \/ (taker.side = "Buy" /\ taker.price = 0)
<1>1. CoreInv /\ ApiNext => Step
  <2> SUFFICES ASSUME CoreInv, ApiNext, ~Idle, taker.limit,
                      ~(taker.side = "Buy" /\ taker.price = 0),
                      NEW u \in DOMAIN orders, Executed(u)
               PROVE  IF taker.side = "Buy" THEN orders[u].price <= taker.price
                                            ELSE orders[u].price >= taker.price
    BY DEF WithinLimit
  <2>0. Next
    BY DEF ApiNext, Reduce, Clear, Cancel
  <2>1. taker.phase = "market" /\ CanContinue /\ u = Match
    BY <2>0, OnlyMatchExecuted
  <2>2. orders[u].price = best[Opposite(taker.side)] /\ taker \in Taker
    BY <2>1, MatchProperties
  <2>3. taker.price \in Prices
    BY <2>1 DEF CoreInv, CallConsistent, NoTaker
  <2>4. orders[u].price \in Nat /\ taker.price \in Nat
    BY <2>3, PricesAssumption DEF CoreInv, TypeOK, BookTypeOK, Order
  <2> QED
    BY <2>1, <2>2, <2>4 DEF CanContinue, CanMatch, Opposite, Taker, Side
<1>2. CoreInv /\ [ApiNext]_vars => [Step]_vars
  BY <1>1
<1> QED
  BY <1>2, ApiInvariance, PTL DEF ApiSpec, LimitPriceRespected

-----------------------------------------------------------------------------
(* Volumes: the counters that LimitTree and Limit keep are sums.           *)

\* The orders of a side and of a limit are finitely many, with natural quantities.
LEMMA OutstandingOrders ==
    ASSUME BookInv
    PROVE  /\ \A u \in DOMAIN orders : Outstanding[u] = orders[u].quantity /\ Outstanding[u] \in Nat
           /\ \A s \in Side : IsFiniteSet(OrdersOn(s)) /\ OrdersOn(s) \subseteq DOMAIN orders
           /\ \A s \in Side, p \in Prices : IsFiniteSet(OrdersAt(s, p)) /\ OrdersAt(s, p) \subseteq DOMAIN orders
<1>1. \A u \in DOMAIN orders : Outstanding[u] = orders[u].quantity /\ Outstanding[u] \in Nat
  BY DEF BookInv, BookTypeOK, Order, Outstanding
<1>2. \A s \in Side : IsFiniteSet(OrdersOn(s)) /\ OrdersOn(s) \subseteq DOMAIN orders
  BY DEF BookInv, CountsAgree, OrdersOn
<1>3. ASSUME NEW s \in Side, NEW p \in Prices
      PROVE  IsFiniteSet(OrdersAt(s, p)) /\ OrdersAt(s, p) \subseteq DOMAIN orders
  <2>1. OrdersAt(s, p) \subseteq OrdersOn(s) /\ OrdersAt(s, p) \subseteq DOMAIN orders
    BY DEF OrdersAt, OrdersOn
  <2> QED
    BY <2>1, <1>2, FS_Subset
<1> QED
  BY <1>1, <1>2, <1>3

\* The sum of a set of orders that a step leaves alone.
LEMMA SameOrdersSameSum ==
    ASSUME NEW S, IsFiniteSet(S), S \subseteq DOMAIN orders, S \subseteq DOMAIN orders',
           \A v \in S : orders'[v] = orders[v]
    PROVE  SumOver(Outstanding', S) = SumOver(Outstanding, S)
<1>1. \A v \in S : Outstanding'[v] = Outstanding[v]
  BY DEF Outstanding
<1> QED
  BY <1>1, SumOverAgrees

\* LimitTree::remove takes the order's quantity out of its limit and its side.
LEMMA TreeRemoveVolumes ==
    ASSUME BookInv, VolumesAgree, NEW u \in DOMAIN orders, TreeRemove(u)
    PROVE  VolumesAgree'
<1> DEFINE s == orders[u].side
           p == orders[u].price
           n == orders[u].quantity
<1>1. s \in Side /\ p \in Prices /\ n \in Nat
  BY DEF BookInv, BookTypeOK, Order
<1>2. /\ DOMAIN orders' = DOMAIN orders \ {u}
      /\ \A v \in DOMAIN orders' : orders'[v] = orders[v]
  BY DEF TreeRemove, Restrict
<1>3. \A t \in Side : OrdersOn(t)' = IF t = s THEN OrdersOn(t) \ {u} ELSE OrdersOn(t)
  BY <1>2 DEF OrdersOn
<1>4. \A t \in Side, r \in Prices :
        OrdersAt(t, r)' = IF t = s /\ r = p THEN OrdersAt(t, r) \ {u} ELSE OrdersAt(t, r)
  BY <1>2 DEF OrdersAt
<1>5. u \in OrdersOn(s) /\ u \in OrdersAt(s, p)
  BY DEF OrdersOn, OrdersAt
<1>6. ASSUME NEW S, IsFiniteSet(S), S \subseteq DOMAIN orders, u \in S
      PROVE  SumOver(Outstanding', S \ {u}) = SumOver(Outstanding, S) - n
  <2>1. \A v \in S : Outstanding[v] \in Int
    BY <1>6, OutstandingOrders
  <2>2. IsFiniteSet(S \ {u})
    BY <1>6, FS_Subset
  <2>3. SumOver(Outstanding, S) = Outstanding[u] + SumOver(Outstanding, S \ {u})
    BY <1>6, <2>1, SumOverTake
  <2>4. SumOver(Outstanding', S \ {u}) = SumOver(Outstanding, S \ {u})
    BY <1>2, <1>6, <2>2, SameOrdersSameSum
  <2>5. SumOver(Outstanding, S \ {u}) \in Int
    BY <2>1, <2>2, SumOverInt
  <2>6. Outstanding[u] = n
    BY OutstandingOrders
  <2> QED
    BY <2>3, <2>4, <2>5, <2>6, <1>1
<1>7. \A t \in Side : volume'[t] = SumOver(Outstanding', OrdersOn(t)')
  <2> SUFFICES ASSUME NEW t \in Side PROVE volume'[t] = SumOver(Outstanding', OrdersOn(t)')
    OBVIOUS
  <2>1. volume' = [volume EXCEPT ![s] = @ + -n] /\ volume \in [Side -> Int]
    BY DEF TreeRemove, TreeTotals, BookInv, BookTypeOK
  <2>2. volume[t] = SumOver(Outstanding, OrdersOn(t))
    BY DEF VolumesAgree
  <2>3. CASE t = s
    <3>1. SumOver(Outstanding', OrdersOn(t)') = SumOver(Outstanding, OrdersOn(t)) - n
      BY <2>3, <1>3, <1>5, <1>6, OutstandingOrders
    <3> QED
      BY <3>1, <2>1, <2>2, <2>3, <1>1
  <2>4. CASE t # s
    <3>1. OrdersOn(t)' = OrdersOn(t) /\ u \notin OrdersOn(t)
      BY <2>4, <1>3 DEF OrdersOn
    <3>2. SumOver(Outstanding', OrdersOn(t)) = SumOver(Outstanding, OrdersOn(t))
      BY <3>1, <1>2, OutstandingOrders, SameOrdersSameSum
    <3> QED
      BY <3>1, <3>2, <2>1, <2>2, <2>4, <1>1
  <2> QED
    BY <2>3, <2>4
<1>8. \A t \in Side, r \in Prices : limitVolume'[t][r] = SumOver(Outstanding', OrdersAt(t, r)')
  <2> SUFFICES ASSUME NEW t \in Side, NEW r \in Prices
               PROVE  limitVolume'[t][r] = SumOver(Outstanding', OrdersAt(t, r)')
    OBVIOUS
  <2>1. limitVolume \in [Side -> [Prices -> Int]]
    BY DEF BookInv, BookTypeOK
  <2>2. limitVolume[t][r] = SumOver(Outstanding, OrdersAt(t, r))
    BY DEF VolumesAgree
  <2>3. CASE t = s /\ r = p
    <3>1. CASE RemoveLimit(s, p)
      <4>1. Len(queue[s][p]) = 1 /\ limitVolume' = [limitVolume EXCEPT ![s][p] = 0]
        BY <3>1 DEF RemoveLimit
      <4>2. /\ queue[s][p] \in Seq(UID) /\ u \in Range(queue[s][p])
            /\ Range(queue[s][p]) = OrdersAt(s, p)
        BY <1>1, OrderInQueue DEF BookInv, BookTypeOK, QueuesHoldOrders
      <4>3. OrdersAt(s, p) = {u}
        BY <4>1, <4>2 DEF Range
      <4>4. OrdersAt(t, r)' = {}
        BY <4>3, <2>3, <1>4, <1>1
      <4>5. SumOver(Outstanding', {}) = 0
        BY FS_EmptySet, SumOverFirst
      <4> QED
        BY <4>1, <4>4, <4>5, <2>1, <2>3, <1>1
    <3>2. CASE RemoveFromLimit(s, p, u)
      <4>1. limitVolume' = [limitVolume EXCEPT ![s][p] = @ + -n]
        BY <3>2 DEF RemoveFromLimit, LimitTotals
      <4>2. SumOver(Outstanding', OrdersAt(t, r)') = SumOver(Outstanding, OrdersAt(t, r)) - n
        BY <2>3, <1>1, <1>4, <1>5, <1>6, OutstandingOrders
      <4>3. limitVolume'[t][r] = limitVolume[t][r] + -n
        BY <4>1, <2>1, <2>3
      <4>4. limitVolume[t][r] \in Int
        BY <2>1
      <4> QED
        BY <4>2, <4>3, <4>4, <2>2, <1>1
    <3> QED
      BY <3>1, <3>2 DEF TreeRemove
  <2>4. CASE ~(t = s /\ r = p)
    <3>1. OrdersAt(t, r)' = OrdersAt(t, r) /\ u \notin OrdersAt(t, r)
      BY <2>4, <1>4 DEF OrdersAt
    <3>2. SumOver(Outstanding', OrdersAt(t, r)) = SumOver(Outstanding, OrdersAt(t, r))
      BY <3>1, <1>2, OutstandingOrders, SameOrdersSameSum
    <3>3. limitVolume'[t][r] = limitVolume[t][r]
      <4>1. RemoveLimit(s, p) \/ RemoveFromLimit(s, p, u)
        BY DEF TreeRemove
      <4> QED
        BY <4>1, <2>1, <2>4, <1>1 DEF RemoveLimit, RemoveFromLimit, LimitTotals
    <3> QED
      BY <3>1, <3>2, <3>3, <2>2
  <2> QED
    BY <2>3, <2>4
<1> QED
  BY <1>7, <1>8 DEF VolumesAgree

\* LimitTree::limit adds the order's quantity to its limit and its side.
LEMMA TreeLimitVolumes ==
    ASSUME BookInv, VolumesAgree, sequence \notin DOMAIN orders, NEW o \in Order,
           TreeLimit(sequence, o),
           orders' = [v \in DOMAIN orders \cup {sequence} |->
                         IF v = sequence THEN o ELSE orders[v]]
    PROVE  VolumesAgree'
<1> DEFINE s == o.side
           p == o.price
           n == o.quantity
           u == sequence
<1>1. s \in Side /\ p \in Prices /\ n \in Nat
  BY DEF Order
<1>2. /\ DOMAIN orders' = DOMAIN orders \cup {u} /\ orders'[u] = o
      /\ \A v \in DOMAIN orders : orders'[v] = orders[v]
  OBVIOUS
<1>3. \A t \in Side : OrdersOn(t)' = IF t = s THEN OrdersOn(t) \cup {u} ELSE OrdersOn(t)
  BY <1>2 DEF OrdersOn
<1>4. \A t \in Side, r \in Prices :
        OrdersAt(t, r)' = IF t = s /\ r = p THEN OrdersAt(t, r) \cup {u} ELSE OrdersAt(t, r)
  BY <1>2 DEF OrdersAt
<1>5. ASSUME NEW S, IsFiniteSet(S), S \subseteq DOMAIN orders
      PROVE  /\ SumOver(Outstanding', S) = SumOver(Outstanding, S)
             /\ SumOver(Outstanding', S \cup {u}) = SumOver(Outstanding, S) + n
             /\ SumOver(Outstanding, S) \in Int
  <2>1. \A v \in S : Outstanding[v] \in Int
    BY <1>5, OutstandingOrders
  <2>2. SumOver(Outstanding', S) = SumOver(Outstanding, S)
    BY <1>2, <1>5, SameOrdersSameSum
  <2>3. SumOver(Outstanding, S) \in Int
    BY <1>5, <2>1, SumOverInt
  <2>4. Outstanding'[u] = n /\ \A v \in S : Outstanding'[v] = Outstanding[v]
    BY <1>2, <1>5 DEF Outstanding
  <2>5. SumOver(Outstanding', S \cup {u}) = Outstanding'[u] + SumOver(Outstanding', S)
    <3>1. u \notin S /\ \A v \in S \cup {u} : Outstanding'[v] \in Int
      BY <1>1, <1>5, <2>1, <2>4
    <3> QED
      BY <3>1, <1>5, SumOverAdd
  <2> QED
    BY <2>2, <2>3, <2>4, <2>5, <1>1
<1>6. \A t \in Side : volume'[t] = SumOver(Outstanding', OrdersOn(t)')
  <2> SUFFICES ASSUME NEW t \in Side PROVE volume'[t] = SumOver(Outstanding', OrdersOn(t)')
    OBVIOUS
  <2>1. volume' = [volume EXCEPT ![s] = @ + n] /\ volume \in [Side -> Int]
    BY DEF TreeLimit, TreeTotals, BookInv, BookTypeOK
  <2>2. volume[t] = SumOver(Outstanding, OrdersOn(t))
    BY DEF VolumesAgree
  <2>3. IsFiniteSet(OrdersOn(t)) /\ OrdersOn(t) \subseteq DOMAIN orders
    BY OutstandingOrders
  <2> QED
    BY <2>1, <2>2, <2>3, <1>3, <1>5
<1>7. \A t \in Side, r \in Prices : limitVolume'[t][r] = SumOver(Outstanding', OrdersAt(t, r)')
  <2> SUFFICES ASSUME NEW t \in Side, NEW r \in Prices
               PROVE  limitVolume'[t][r] = SumOver(Outstanding', OrdersAt(t, r)')
    OBVIOUS
  <2>1. limitVolume \in [Side -> [Prices -> Int]]
    BY DEF BookInv, BookTypeOK
  <2>2. limitVolume[t][r] = SumOver(Outstanding, OrdersAt(t, r))
    BY DEF VolumesAgree
  <2>3. IsFiniteSet(OrdersAt(t, r)) /\ OrdersAt(t, r) \subseteq DOMAIN orders
    BY OutstandingOrders
  <2>4. CASE t = s /\ r = p
    <3>1. limitVolume'[t][r] = limitVolume[t][r] + n
      <4>1. CASE p \in levels[s]
        <5>1. limitVolume' = [limitVolume EXCEPT ![s][p] = @ + n]
          BY <4>1 DEF TreeLimit, LimitTotals
        <5> QED
          BY <5>1, <2>1, <2>4
      <4>2. CASE p \notin levels[s]
        <5>1. limitVolume' = [limitVolume EXCEPT ![s][p] = n]
          BY <4>2 DEF TreeLimit, NewLimit
        <5>2. queue[s][p] = << >> /\ Range(queue[s][p]) = OrdersAt(s, p)
          BY <4>2, <1>1 DEF BookInv, QueuesHoldOrders
        <5>3. OrdersAt(s, p) = {}
          BY <5>2 DEF Range
        <5>4. SumOver(Outstanding, {}) = 0
          BY FS_EmptySet, SumOverFirst
        <5>5. limitVolume[t][r] = 0
          BY <5>3, <5>4, <2>2, <2>4
        <5>6. limitVolume'[t][r] = n
          BY <5>1, <2>1, <2>4
        <5> QED
          BY <5>5, <5>6, <1>1
      <4> QED
        BY <4>1, <4>2
    <3> QED
      BY <3>1, <2>2, <2>3, <2>4, <1>1, <1>4, <1>5
  <2>5. CASE ~(t = s /\ r = p)
    <3>1. OrdersAt(t, r)' = OrdersAt(t, r)
      BY <2>5, <1>4
    <3>2. limitVolume'[t][r] = limitVolume[t][r]
      <4>1. \/ limitVolume' = [limitVolume EXCEPT ![s][p] = n]
            \/ limitVolume' = [limitVolume EXCEPT ![s][p] = @ + n]
        BY DEF TreeLimit, NewLimit, LimitTotals
      <4> QED
        BY <4>1, <2>1, <2>5, <1>1
    <3> QED
      BY <3>1, <3>2, <2>2, <2>3, <1>5
  <2> QED
    BY <2>4, <2>5
<1> QED
  BY <1>6, <1>7 DEF VolumesAgree

\* A partial execution takes what was traded out of the order's limit and side.
LEMMA ShrinkVolumes ==
    ASSUME BookInv, VolumesAgree, NEW u \in DOMAIN orders, NEW n \in Nat,
           orders' = [orders EXCEPT ![u].quantity = @ - n],
           LimitTotals(orders[u].side, orders[u].price, 0, -n),
           TreeTotals(orders[u].side, 0, -n)
    PROVE  VolumesAgree'
<1> DEFINE s == orders[u].side
           p == orders[u].price
<1>1. orders[u] \in Order /\ s \in Side /\ p \in Prices
  BY DEF BookInv, BookTypeOK, Order
<1>2. /\ DOMAIN orders' = DOMAIN orders
      /\ \A v \in DOMAIN orders : v # u => orders'[v] = orders[v]
      /\ orders'[u].side = s /\ orders'[u].price = p
      /\ orders'[u].quantity = orders[u].quantity - n
  BY <1>1 DEF Order
<1>3. (\A t, r : OrdersAt(t, r)' = OrdersAt(t, r)) /\ (\A t : OrdersOn(t)' = OrdersOn(t))
  <2>1. \A v \in DOMAIN orders :
           orders'[v].side = orders[v].side /\ orders'[v].price = orders[v].price
    BY <1>2
  <2> QED
    BY <2>1, <1>2 DEF OrdersAt, OrdersOn
<1>4. Outstanding'[u] = Outstanding[u] + -n /\ \A v \in DOMAIN orders : v # u => Outstanding'[v] = Outstanding[v]
  <2>1. orders[u].quantity \in Nat
    BY <1>1 DEF Order
  <2> QED
    BY <2>1, <1>2 DEF Outstanding
<1>5. ASSUME NEW S, IsFiniteSet(S), S \subseteq DOMAIN orders
      PROVE  SumOver(Outstanding', S) = IF u \in S THEN SumOver(Outstanding, S) + -n
                                                   ELSE SumOver(Outstanding, S)
  <2>1. \A v \in S : Outstanding[v] \in Int
    BY <1>5, OutstandingOrders
  <2>2. CASE u \in S
    <3>1. -n \in Int /\ \A v \in S : v # u => Outstanding'[v] = Outstanding[v]
      BY <1>4, <1>5
    <3> QED
      BY <3>1, <2>1, <2>2, <1>4, <1>5, SumOverChange
  <2>3. CASE u \notin S
    <3>1. \A v \in S : Outstanding'[v] = Outstanding[v]
      BY <2>3, <1>4, <1>5
    <3> QED
      BY <3>1, <2>3, <1>5, SumOverAgrees
  <2> QED
    BY <2>2, <2>3
<1>6. \A t \in Side : volume'[t] = SumOver(Outstanding', OrdersOn(t)')
  <2> SUFFICES ASSUME NEW t \in Side PROVE volume'[t] = SumOver(Outstanding', OrdersOn(t)')
    OBVIOUS
  <2>1. volume' = [volume EXCEPT ![s] = @ + -n] /\ volume \in [Side -> Int]
    BY DEF TreeTotals, BookInv, BookTypeOK
  <2>2. volume[t] = SumOver(Outstanding, OrdersOn(t))
    BY DEF VolumesAgree
  <2>3. /\ IsFiniteSet(OrdersOn(t)) /\ OrdersOn(t) \subseteq DOMAIN orders
        /\ u \in OrdersOn(t) <=> t = s
    BY OutstandingOrders DEF OrdersOn
  <2> QED
    BY <2>1, <2>2, <2>3, <1>3, <1>5
<1>7. \A t \in Side, r \in Prices : limitVolume'[t][r] = SumOver(Outstanding', OrdersAt(t, r)')
  <2> SUFFICES ASSUME NEW t \in Side, NEW r \in Prices
               PROVE  limitVolume'[t][r] = SumOver(Outstanding', OrdersAt(t, r)')
    OBVIOUS
  <2>1. limitVolume' = [limitVolume EXCEPT ![s][p] = @ + -n] /\ limitVolume \in [Side -> [Prices -> Int]]
    BY DEF LimitTotals, BookInv, BookTypeOK
  <2>2. limitVolume[t][r] = SumOver(Outstanding, OrdersAt(t, r))
    BY DEF VolumesAgree
  <2>3. /\ IsFiniteSet(OrdersAt(t, r)) /\ OrdersAt(t, r) \subseteq DOMAIN orders
        /\ u \in OrdersAt(t, r) <=> (t = s /\ r = p)
    BY OutstandingOrders DEF OrdersAt
  <2>4. limitVolume'[t][r] = IF t = s /\ r = p THEN limitVolume[t][r] + -n ELSE limitVolume[t][r]
    BY <2>1, <1>1
  <2> QED
    BY <2>2, <2>3, <2>4, <1>3, <1>5
<1> QED
  BY <1>6, <1>7 DEF VolumesAgree

\* Every operation keeps the volumes sums.
LEMMA NextVolumes == CoreInv /\ VolumesAgree /\ [ApiNext]_vars => VolumesAgree'
<1> SUFFICES ASSUME CoreInv, VolumesAgree, [ApiNext]_vars PROVE VolumesAgree'
  OBVIOUS
<1>1. BookInv
  BY DEF CoreInv
<1>2. ASSUME orders' = orders, tree' = tree PROVE VolumesAgree'
  <2>1. volume' = volume /\ limitVolume' = limitVolume /\ Outstanding' = Outstanding
    BY <1>2 DEF tree, Outstanding
  <2>2. (\A t, r : OrdersAt(t, r)' = OrdersAt(t, r)) /\ (\A t : OrdersOn(t)' = OrdersOn(t))
    BY <1>2 DEF OrdersAt, OrdersOn
  <2> QED
    BY <2>1, <2>2 DEF VolumesAgree
<1>3. ASSUME NEW u \in DOMAIN orders, Cancel(u) PROVE VolumesAgree'
  BY <1>1, <1>3, TreeRemoveVolumes DEF Cancel
<1>4. CASE MatchPartly
  <2> DEFINE u == Match
             n == taker.quantity
  <2>1. /\ taker.phase = "market" /\ CanContinue
        /\ orders' = [orders EXCEPT ![u].quantity = @ - n]
        /\ LimitTotals(orders[u].side, orders[u].price, 0, -n)
        /\ TreeTotals(orders[u].side, 0, -n)
    BY <1>4 DEF MatchPartly
  <2>2. u \in DOMAIN orders /\ n \in Nat
    BY <2>1, MatchProperties DEF Taker
  <2> HIDE DEF u, n
  <2> QED
    BY <2>1, <2>2, <1>1, ShrinkVolumes
<1>5. CASE MatchWhole
  <2>1. TreeRemove(Match) /\ Match \in DOMAIN orders
    BY <1>5, MatchProperties DEF MatchWhole
  <2> QED
    BY <2>1, <1>1, TreeRemoveVolumes
<1>6. CASE ReturnResting
  <2> DEFINE o == [side |-> taker.side, quantity |-> taker.quantity,
                   price |-> taker.price, account |-> taker.account]
  <2>1. /\ ~Idle /\ taker.limit /\ TreeLimit(sequence, o)
        /\ orders' = [v \in DOMAIN orders \cup {sequence} |->
                        IF v = sequence THEN o ELSE orders[v]]
    BY <1>6 DEF ReturnResting
  <2>2. taker \in Taker /\ taker # NoTaker
    BY <2>1 DEF CoreInv, TypeOK, Idle, NoTaker
  <2>3. o \in Order /\ sequence \notin DOMAIN orders
    BY <2>1, <2>2 DEF CoreInv, CallConsistent, Taker, Order, TypeOK, IDsHandedOut, UID
  <2> HIDE DEF o
  <2> QED
    BY <2>1, <2>3, <1>1, TreeLimitVolumes
<1>7. ASSUME NEW a \in Accounts, NEW s \in Side, NEW q \in Quantities,
             MarketOrder(a, s, q) \/ \E p \in Prices : LimitOrder(a, s, q, p)
      PROVE  VolumesAgree'
  BY <1>2, <1>7 DEF MarketOrder, LimitOrder
<1>8. CASE ReturnFilled \/ ReturnUnfilled
  BY <1>2, <1>8 DEF ReturnFilled, ReturnUnfilled
<1>9. CASE UNCHANGED vars
  BY <1>2, <1>9 DEF vars
<1>10. ASSUME NEW u \in DOMAIN orders, NEW q \in Quantities, Reduce(u, q) PROVE VolumesAgree'
  <2>1. CASE Cancel(u)
    BY <1>3, <2>1
  <2>2. CASE ~Cancel(u)
    <3>1. /\ orders' = [orders EXCEPT ![u].quantity = @ - q]
          /\ LimitTotals(orders[u].side, orders[u].price, 0, -q)
          /\ TreeTotals(orders[u].side, 0, -q)
      BY <1>10, <2>2 DEF Reduce
    <3>2. q \in Nat
      BY QuantitiesAssumption
    <3> QED
      BY <3>1, <3>2, <1>1, ShrinkVolumes
  <2> QED
    BY <2>1, <2>2
<1>11. CASE Clear
  <2>1. \A s, p : OrdersAt(s, p)' = {} /\ OrdersOn(s)' = {}
    BY <1>11 DEF Clear, OrdersAt, OrdersOn
  <2>2. SumOver(Outstanding', {}) = 0
    BY FS_EmptySet, SumOverFirst
  <2> QED
    BY <1>11, <2>1, <2>2 DEF Clear, VolumesAgree
<1> QED
  BY <1>3, <1>4, <1>5, <1>6, <1>7, <1>8, <1>9, <1>10, <1>11 DEF ApiNext, Next, Continue

\* Limit::count, LimitTree::count, Limit::volume and LimitTree::volume are the
\* numbers of the orders they stand for and the sums of their quantities, after
\* any sequence of placements, executions, cancels, reductions and clears.
THEOREM TotalsCorrect == ApiSpec => []TotalsAgree
<1>1. Init => VolumesAgree
  <2> SUFFICES ASSUME Init PROVE VolumesAgree
    OBVIOUS
  <2>1. \A s, p : OrdersAt(s, p) = {} /\ OrdersOn(s) = {}
    BY DEF Init, OrdersAt, OrdersOn
  <2>2. SumOver(Outstanding, {}) = 0
    BY FS_EmptySet, SumOverFirst
  <2> QED
    BY <2>1, <2>2 DEF Init, VolumesAgree
<1>2. CoreInv /\ VolumesAgree /\ [ApiNext]_vars => VolumesAgree'
  BY NextVolumes
<1>3. CoreInv /\ VolumesAgree => TotalsAgree
  BY DEF CoreInv, BookInv, TotalsAgree
<1> QED
  BY <1>1, <1>2, <1>3, ApiInvariance, PTL DEF ApiSpec

-----------------------------------------------------------------------------
(* Conservation: the four fill methods move shares and capital.            *)

\* The change of account a when t gains d and m loses it.
Moved(a, t, m, d) == (IF a = t THEN d ELSE 0) + (IF a = m THEN -d ELSE 0)

\* What one account gains and another one loses leaves the total as it was, also
\* when the two are one account.
LEMMA MoveKeepsSum ==
    ASSUME NEW f \in [Accounts -> Int], NEW t \in Accounts, NEW m \in Accounts, NEW d \in Int,
           NEW e, \A a \in Accounts : e[a] = f[a] + Moved(a, t, m, d)
    PROVE  SumOver(e, Accounts) = SumOver(f, Accounts)
<1> DEFINE g == [f EXCEPT ![t] = @ + d]
<1>1. g \in [Accounts -> Int] /\ g[t] = f[t] + d /\ \A a \in Accounts : a # t => g[a] = f[a]
  OBVIOUS
<1> HIDE DEF g
<1>2. SumOver(g, Accounts) = SumOver(f, Accounts) + d
  BY <1>1, AccountsAssumption, SumOverChange
<1>3. e[m] = g[m] + -d /\ \A a \in Accounts : a # m => e[a] = g[a]
  <2>1. ASSUME NEW a \in Accounts
        PROVE  e[a] = g[a] + (IF a = m THEN -d ELSE 0) /\ f[a] \in Int /\ g[a] \in Int
    <3>1. f[a] \in Int /\ g[a] \in Int
      BY <1>1
    <3>2. e[a] = f[a] + Moved(a, t, m, d)
      OBVIOUS
    <3>3. CASE a = t
      <4>1. g[a] = f[a] + d
        BY <3>3, <1>1
      <4> QED
        BY <3>1, <3>2, <3>3, <4>1 DEF Moved
    <3>4. CASE a # t
      <4>1. g[a] = f[a]
        BY <3>4, <1>1
      <4> QED
        BY <3>1, <3>2, <3>4, <4>1 DEF Moved
    <3> QED
      BY <3>3, <3>4
  <2>2. e[m] = g[m] + -d
    BY <2>1
  <2>3. ASSUME NEW a \in Accounts, a # m PROVE e[a] = g[a]
    <3>1. e[a] = g[a] + 0 /\ g[a] \in Int
      BY <2>1, <2>3
    <3> QED
      BY <3>1
  <2> QED
    BY <2>2, <2>3
<1>4. SumOver(e, Accounts) = SumOver(g, Accounts) + -d
  <2>1. -d \in Int /\ \A a \in Accounts : g[a] \in Int
    BY <1>1
  <2> QED
    BY <2>1, <1>3, AccountsAssumption, SumOverChange
<1>5. SumOver(f, Accounts) \in Int
  <2>1. \A a \in Accounts : f[a] \in Int
    OBVIOUS
  <2> QED
    BY <2>1, AccountsAssumption, SumOverInt
<1> QED
  BY <1>2, <1>4, <1>5

\* The fills of a trade between opposite sides keep both totals.
LEMMA TradeConserves ==
    ASSUME AccountsTypeOK, NEW u, NEW n \in Nat, orders[u] \in Order, taker \in Taker,
           orders[u].side = Opposite(taker.side), Traded(u, n)
    PROVE  /\ SumOver(shares', Accounts) = SumOver(shares, Accounts)
           /\ SumOver(capital', Accounts) = SumOver(capital, Accounts)
<1> DEFINE t == taker.account
           m == orders[u].account
           d == Signed(taker.side, n)
           k == orders[u].price
<1>1. t \in Accounts /\ m \in Accounts
  BY DEF Taker, Order
<1>2. k \in Nat /\ d \in Int
  <2>1. k \in Prices
    BY DEF Order
  <2>2. Signed(taker.side, n) \in Int
    BY DEF Signed
  <2> QED
    BY <2>1, <2>2, PricesAssumption
<1>3. Signed(orders[u].side, n) = -d
  <2>1. taker.side \in {"Sell", "Buy"}
    BY DEF Taker, Side
  <2> QED
    BY <2>1 DEF Signed, Opposite
<1>4. /\ shares' = [a \in Accounts |-> shares[a] + Moved(a, t, m, d)]
      /\ capital' = [a \in Accounts |-> capital[a] - k * Moved(a, t, m, d)]
  BY <1>3 DEF Traded, Delta, Moved
<1>5. shares \in [Accounts -> Int] /\ capital \in [Accounts -> Int]
  BY DEF AccountsTypeOK
<1> HIDE DEF t, m, d, k
<1>6. SumOver(shares', Accounts) = SumOver(shares, Accounts)
  <2>1. \A a \in Accounts : shares'[a] = shares[a] + Moved(a, t, m, d)
    BY <1>4
  <2> QED
    BY <2>1, <1>1, <1>2, <1>5, MoveKeepsSum
<1>7. SumOver(capital', Accounts) = SumOver(capital, Accounts)
  <2> DEFINE c == -(k * d)
  <2>1. c \in Int /\ k * 0 = 0 /\ k * d = -c /\ k * (-d) = c
    BY <1>2
  <2> HIDE DEF c
  <2>2. ASSUME NEW a \in Accounts PROVE capital'[a] = capital[a] + Moved(a, t, m, c)
    <3>1. capital'[a] = capital[a] - k * Moved(a, t, m, d) /\ capital[a] \in Int
      BY <1>4, <1>5
    <3>2. CASE a = t /\ a = m
      <4>1. Moved(a, t, m, d) = 0 /\ Moved(a, t, m, c) = 0
        BY <3>2, <2>1, <1>2 DEF Moved
      <4> QED
        BY <4>1, <3>1, <2>1
    <3>3. CASE a = t /\ a # m
      <4>1. Moved(a, t, m, d) = d /\ Moved(a, t, m, c) = c
        BY <3>3, <2>1, <1>2 DEF Moved
      <4> QED
        BY <4>1, <3>1, <2>1
    <3>4. CASE a # t /\ a = m
      <4>1. Moved(a, t, m, d) = -d /\ Moved(a, t, m, c) = -c
        BY <3>4, <2>1, <1>2 DEF Moved
      <4> QED
        BY <4>1, <3>1, <2>1
    <3>5. CASE a # t /\ a # m
      <4>1. Moved(a, t, m, d) = 0 /\ Moved(a, t, m, c) = 0
        BY <3>5 DEF Moved
      <4> QED
        BY <4>1, <3>1, <2>1
    <3> QED
      BY <3>2, <3>3, <3>4, <3>5
  <2> QED
    BY <2>1, <2>2, <1>1, <1>5, MoveKeepsSum
<1> QED
  BY <1>6, <1>7

\* Every step keeps the totals of shares and capital.
LEMMA NextConserves == Inv /\ Conservation /\ [Next]_vars => Conservation'
<1> SUFFICES ASSUME Inv, Conservation, [Next]_vars PROVE Conservation'
  OBVIOUS
<1>1. ASSUME shares' = shares, capital' = capital PROVE Conservation'
  BY <1>1 DEF Conservation
<1>2. ASSUME NEW n \in Nat, taker.phase = "market", CanContinue,
             \/ n = taker.quantity /\ FillsPartly(Match)
             \/ n = orders[Match].quantity /\ FillsWhole(Match)
      PROVE  Conservation'
  <2>1. /\ taker \in Taker /\ Match \in DOMAIN orders
        /\ orders[Match].side = Opposite(taker.side)
    BY <1>2, InvCore, MatchProperties
  <2>2. orders[Match] \in Order /\ AccountsTypeOK
    BY <2>1 DEF Inv, TypeOK, BookTypeOK
  <2>3. Traded(Match, n)
    BY <2>1, <2>2, <1>2, FillsTrade
  <2> QED
    BY <2>1, <2>2, <2>3, <1>2, TradeConserves DEF Conservation
<1>3. CASE MatchPartly
  <2>1. taker.quantity \in Nat
    BY <1>3, InvCore, MatchProperties DEF MatchPartly, Taker
  <2> QED
    BY <2>1, <1>2, <1>3 DEF MatchPartly, FillsPartly
<1>4. CASE MatchWhole
  <2>1. orders[Match].quantity \in Nat
    BY <1>4, InvCore, MatchProperties DEF MatchWhole, Inv, TypeOK, BookTypeOK, Order
  <2> QED
    BY <2>1, <1>2, <1>4 DEF MatchWhole, FillsWhole
<1>5. ASSUME NEW a \in Accounts, NEW s \in Side, NEW q \in Quantities,
             MarketOrder(a, s, q) \/ \E p \in Prices : LimitOrder(a, s, q, p)
      PROVE  Conservation'
  BY <1>1, <1>5 DEF MarketOrder, LimitOrder, accounts
<1>6. ASSUME NEW u \in DOMAIN orders, Cancel(u) PROVE Conservation'
  BY <1>1, <1>6 DEF Cancel
<1>7. CASE ReturnFilled \/ ReturnUnfilled \/ ReturnResting
  BY <1>1, <1>7 DEF ReturnFilled, ReturnUnfilled, ReturnResting, accounts
<1>8. CASE UNCHANGED vars
  BY <1>1, <1>8 DEF vars, accounts
<1> QED
  BY <1>3, <1>4, <1>5, <1>6, <1>7, <1>8 DEF Next, Continue

\* Trading makes and loses no shares and no capital, over all accounts, whichever
\* of the fill methods of Account settle a trade, and in trades with oneself.
THEOREM ConservationCorrect == Spec => []Conservation
<1>1. Init => Conservation
  <2> DEFINE zero == [a \in Accounts |-> 0]
  <2>1. SumOver(zero, Accounts) = 0
    <3> DEFINE T == {n \in Nat : \A S \in SUBSET Accounts : Cardinality(S) = n => SumOver(zero, S) = 0}
    <3>1. \A S \in SUBSET Accounts : IsFiniteSet(S) /\ Cardinality(S) \in Nat
      BY AccountsAssumption, FS_Subset, FS_CardinalityType
    <3>2. 0 \in T
      BY <3>1, FS_EmptySet, SumOverFirst
    <3>3. ASSUME NEW n \in Nat, n \in T PROVE n + 1 \in T
      <4> SUFFICES ASSUME NEW S \in SUBSET Accounts, Cardinality(S) = n + 1
                   PROVE  SumOver(zero, S) = 0
        OBVIOUS
      <4>1. S # {}
        BY FS_EmptySet
      <4>2. First(S) \in S /\ Cardinality(S \ {First(S)}) = n
        BY <4>1, <3>1, FirstProperties
      <4>3. SumOver(zero, S \ {First(S)}) = 0
        BY <4>2, <3>3
      <4>4. SumOver(zero, S) = zero[First(S)] + SumOver(zero, S \ {First(S)})
        BY <4>1, <3>1, SumOverFirst
      <4> QED
        BY <4>2, <4>3, <4>4
    <3> HIDE DEF T
    <3>4. \A n \in Nat : n \in T
      BY <3>2, <3>3, Induction
    <3> QED
      BY <3>1, <3>4 DEF T
  <2> QED
    BY <2>1 DEF Init, Conservation
<1>2. Inv /\ Conservation /\ [Next]_vars => Conservation'
  BY NextConserves
<1> QED
  BY <1>1, <1>2, Invariance, PTL DEF Spec
-----------------------------------------------------------------------------
(* The feed                                                                *)

\* What is left of the order being executed is a remainder of its quantity.
TakerRemains == ~Idle => taker.quantity \in Remainders

\* A trade of no more than a remainder leaves a remainder.
LEMMA RemaindersShrink ==
    ASSUME NEW q \in Remainders, NEW n \in Nat, n <= q
    PROVE  q - n \in Remainders
<1>1. PICK r \in Quantities : q \in 0..r
  BY DEF Remainders
<1>2. r \in Nat
  BY QuantitiesAssumption
<1>3. q - n \in 0..r
  BY <1>1, <1>2
<1> QED
  BY <1>3 DEF Remainders

\* A whole order is a remainder of itself.
LEMMA QuantityRemains ==
    ASSUME NEW q \in Quantities
    PROVE  q \in Remainders
<1>1. q \in 0..q
  BY QuantitiesAssumption
<1> QED
  BY <1>1 DEF Remainders

\* What LimitTree::market leaves of its order after one match is a remainder.
LEMMA TakerAfterRemains ==
    ASSUME taker \in Taker, TakerRemains, ~Idle, NEW n \in Nat, n <= taker.quantity,
           taker' = TakerAfter(n)
    PROVE  TakerRemains'
<1>1. taker'.quantity = taker.quantity - n
  BY DEF TakerAfter, Taker
<1>2. taker.quantity - n \in Remainders
  BY RemaindersShrink DEF TakerRemains
<1> QED
  BY <1>1, <1>2 DEF TakerRemains

\* Every step of the book keeps the order being executed a remainder.
LEMMA NextRemains == Inv /\ TakerRemains /\ [Next]_vars => TakerRemains'
<1> SUFFICES ASSUME Inv, TakerRemains, [Next]_vars PROVE TakerRemains'
  OBVIOUS
<1>1. ASSUME NEW a \in Accounts, NEW s \in Side, NEW q \in Quantities, MarketOrder(a, s, q)
      PROVE  TakerRemains'
  BY <1>1, QuantityRemains DEF MarketOrder, TakerRemains
<1>2. ASSUME NEW a \in Accounts, NEW s \in Side, NEW q \in Quantities, NEW p \in Prices,
             LimitOrder(a, s, q, p)
      PROVE  TakerRemains'
  BY <1>2, QuantityRemains DEF LimitOrder, TakerRemains
<1>3. ASSUME NEW u \in DOMAIN orders, Cancel(u) PROVE TakerRemains'
  BY <1>3 DEF Cancel, TakerRemains, Idle
<1>4. CASE MatchPartly
  <2>1. taker.phase = "market" /\ CanContinue /\ taker' = TakerAfter(taker.quantity)
    BY <1>4 DEF MatchPartly
  <2>2. taker \in Taker /\ taker.quantity \in Nat
    BY <2>1, InvCore, MatchProperties DEF Taker
  <2> QED
    BY <2>1, <2>2, TakerAfterRemains DEF Idle
<1>5. CASE MatchWhole
  <2>1. /\ taker.phase = "market" /\ CanContinue /\ taker' = TakerAfter(orders[Match].quantity)
        /\ orders[Match].quantity <= taker.quantity
    BY <1>5 DEF MatchWhole, Exhausts
  <2>2. taker \in Taker /\ Match \in DOMAIN orders
    BY <2>1, InvCore, MatchProperties
  <2>3. orders[Match].quantity \in Nat
    BY <2>2 DEF Inv, TypeOK, BookTypeOK, Order
  <2> QED
    BY <2>1, <2>2, <2>3, TakerAfterRemains DEF Idle
<1>6. CASE ReturnFilled \/ ReturnUnfilled \/ ReturnResting
  BY <1>6 DEF ReturnFilled, ReturnUnfilled, ReturnResting, NoTaker, TakerRemains, Idle
<1>7. CASE UNCHANGED vars
  BY <1>7 DEF vars, TakerRemains, Idle
<1> QED
  BY <1>1, <1>2, <1>3, <1>4, <1>5, <1>6, <1>7 DEF Next, Continue

-----------------------------------------------------------------------------
(* Each action maps to a message, or to a stutter.                         *)

\* What the feed says of a resting order.
LEMMA PublishedOrder ==
    ASSUME Inv
    PROVE  /\ DOMAIN published = DOMAIN orders
           /\ \A u \in DOMAIN orders : /\ published[u].side = orders[u].side
                                       /\ published[u].price = orders[u].price
                                       /\ published[u].quantity = orders[u].quantity
  BY DEF Inv, FeedMatchesBook

\* The order that is executed comes first for a reader of the feed too.
LEMMA MatchBefore ==
    ASSUME Inv, taker.phase = "market", CanContinue, NEW v \in DOMAIN published,
           published[v].side = published[Match].side
    PROVE  Feed!Before(Match, v)
<1>1. /\ Match \in DOMAIN orders
      /\ \A w \in OrdersOn(orders[Match].side) :
            /\ ~Better(orders[Match].side, orders[w].price, orders[Match].price)
            /\ orders[w].price = orders[Match].price => Match <= w
  BY InvCore, MatchProperties
<1>2. v \in DOMAIN orders /\ orders[v].side = orders[Match].side
  BY <1>1, PublishedOrder
<1>3. v \in OrdersOn(orders[Match].side)
  BY <1>2 DEF OrdersOn
<1>4. orders[v].price \in Nat /\ orders[Match].price \in Nat
  BY <1>1, <1>2, PricesAssumption DEF Inv, TypeOK, BookTypeOK, Order
<1>5. /\ published[v].price = orders[v].price /\ published[Match].price = orders[Match].price
      /\ published[Match].side = orders[Match].side
  BY <1>1, <1>2, PublishedOrder
<1>6. /\ ~Better(orders[Match].side, orders[v].price, orders[Match].price)
      /\ orders[v].price = orders[Match].price => Match <= v
  BY <1>1, <1>3
<1> QED
  BY <1>4, <1>5, <1>6 DEF Feed!Before, Better

\* An iteration of the match loop is a Trade message.
LEMMA TradeStep ==
    ASSUME Inv, taker.phase = "market", CanContinue, NEW n \in Nat,
           n <= orders[Match].quantity, TradeMessage(Match, n), sequence' = sequence
    PROVE  Feed!Next
<1>1. Match \in DOMAIN orders
  BY InvCore, MatchProperties
<1>2. Match \in DOMAIN published /\ published[Match].quantity = orders[Match].quantity
  BY <1>1, PublishedOrder
<1>3. orders[Match].quantity \in Nat
  BY <1>1 DEF Inv, TypeOK, BookTypeOK, Order
<1>4. n \in 0..published[Match].quantity
  BY <1>2, <1>3
<1>5. \A v \in DOMAIN published : published[v].side = published[Match].side
                                    => Feed!Before(Match, v)
  BY MatchBefore
<1>6. Feed!Trade(Match, n)
  BY <1>5 DEF TradeMessage, Feed!Trade, Restrict, Feed!Restrict
<1> QED
  BY <1>2, <1>4, <1>6 DEF Feed!Next

\* An order that comes to rest meets no order that the reader knows.
LEMMA RestsApart ==
    ASSUME Inv, taker \in Taker, taker.limit, taker.price \in Prices,
           taker.phase = "rest" \/ (taker.phase = "market" /\ ~CanContinue),
           NEW u \in DOMAIN published, published[u].side # taker.side
    PROVE  ~Feed!Meets(taker.side, taker.price, published[u].price)
<1>1. u \in DOMAIN orders /\ published[u].side = orders[u].side /\ published[u].price = orders[u].price
  BY PublishedOrder
<1>2. orders[u].side \in Side /\ orders[u].price \in levels[orders[u].side]
  BY <1>1, OrderInQueue DEF Inv
<1>3. ~Crosses(taker.side, taker.price)
  BY InvCore, RestingDoesNotCross
<1>4. taker.side \in Side
  BY DEF Taker
<1>5. /\ levels["Buy"] \in SUBSET Prices /\ levels["Sell"] \in SUBSET Prices
      /\ IsBest("Buy", levels["Buy"], best["Buy"]) /\ IsBest("Sell", levels["Sell"], best["Sell"])
  BY DEF Inv, BookInv, BookTypeOK, BestPrice, Side
<1>6. orders[u].price \in Nat /\ taker.price \in Nat
  BY <1>1, PricesAssumption DEF Inv, TypeOK, BookTypeOK, Order
<1>7. CASE taker.side = "Sell"
  <2>1. best["Buy"] # NoPrice => ~(taker.price <= best["Buy"])
    BY <1>7, <1>3 DEF Crosses, Opposite
  <2>2. \A x \in levels["Buy"] : x < taker.price
    BY <2>1, <1>5, AboveBuys
  <2>3. orders[u].price \in levels["Buy"]
    BY <1>1, <1>2, <1>7 DEF Side
  <2> QED
    BY <2>2, <2>3, <1>1, <1>6, <1>7 DEF Feed!Meets
<1>8. CASE taker.side = "Buy"
  <2>1. best["Sell"] # NoPrice => ~(taker.price >= best["Sell"])
    BY <1>8, <1>3 DEF Crosses, Opposite
  <2>2. \A y \in levels["Sell"] : taker.price < y
    BY <2>1, <1>5, BelowSells
  <2>3. orders[u].price \in levels["Sell"]
    BY <1>1, <1>2, <1>8 DEF Side
  <2> QED
    BY <2>2, <2>3, <1>1, <1>6, <1>8 DEF Feed!Meets
<1> QED
  BY <1>4, <1>7, <1>8 DEF Side

\* limit_sell and limit_buy end with an AddOrder message.
LEMMA AddOrderStep ==
    ASSUME Inv, TakerRemains, ReturnResting
    PROVE  Feed!Next
<1>1. /\ ~Idle /\ taker.limit
      /\ taker.phase = "rest" \/ (taker.phase = "market" /\ ~CanContinue)
      /\ sequence' = sequence + 1
  BY DEF ReturnResting
<1>2. AddOrderMessage(sequence, taker.side, taker.price, taker.quantity)
  BY DEF ReturnResting, TreeLimit
<1>3. taker \in Taker /\ taker.side \in Side
  BY <1>1 DEF Inv, TypeOK, NoTaker, Idle, Taker
<1>4. taker.price \in Prices
  BY <1>1 DEF Inv, CallConsistent, Idle, NoTaker
<1>5. taker.quantity \in Remainders
  BY <1>1 DEF TakerRemains
<1>6. \A u \in DOMAIN published : published[u].side # taker.side
                                    => ~Feed!Meets(taker.side, taker.price, published[u].price)
  BY <1>1, <1>3, <1>4, RestsApart
<1>7. Feed!AddOrder(taker.side, taker.price, taker.quantity)
  BY <1>1, <1>2, <1>6 DEF AddOrderMessage, Feed!AddOrder
<1> QED
  BY <1>3, <1>4, <1>5, <1>7 DEF Feed!Next, Feed!Side, Side

\* Every step of the book is a step of the feed, or says nothing.
LEMMA FeedStep == Inv /\ TakerRemains /\ [Next]_vars => [Feed!Next]_(Feed!feedVars)
<1> SUFFICES ASSUME Inv, TakerRemains, [Next]_vars
             PROVE  Feed!Next \/ UNCHANGED <<published, sequence>>
  BY DEF Feed!feedVars
<1>1. ASSUME NEW a \in Accounts, NEW s \in Side, NEW q \in Quantities,
             MarketOrder(a, s, q) \/ \E p \in Prices : LimitOrder(a, s, q, p)
      PROVE  UNCHANGED <<published, sequence>>
  BY <1>1 DEF MarketOrder, LimitOrder
<1>2. ASSUME NEW u \in DOMAIN orders, Cancel(u) PROVE Feed!Next
  <2>1. Feed!DeleteOrder(u)
    BY <1>2 DEF Cancel, DeleteOrderMessage, Feed!DeleteOrder, Restrict, Feed!Restrict
  <2> QED
    BY <2>1, PublishedOrder DEF Feed!Next
<1>3. CASE MatchPartly
  <2>1. /\ taker.phase = "market" /\ CanContinue /\ TradeMessage(Match, taker.quantity)
        /\ sequence' = sequence /\ ~(orders[Match].quantity <= taker.quantity)
    BY <1>3 DEF MatchPartly, Exhausts
  <2>2. taker.quantity \in Nat /\ orders[Match].quantity \in Nat
    BY <2>1, InvCore, MatchProperties DEF Taker, Inv, TypeOK, BookTypeOK, Order
  <2> QED
    BY <2>1, <2>2, TradeStep
<1>4. CASE MatchWhole
  <2>1. /\ taker.phase = "market" /\ CanContinue /\ TradeMessage(Match, orders[Match].quantity)
        /\ sequence' = sequence
    BY <1>4 DEF MatchWhole
  <2>2. orders[Match].quantity \in Nat
    BY <2>1, InvCore, MatchProperties DEF Inv, TypeOK, BookTypeOK, Order
  <2> QED
    BY <2>1, <2>2, TradeStep
<1>5. CASE ReturnFilled \/ ReturnUnfilled
  BY <1>5 DEF ReturnFilled, ReturnUnfilled
<1>6. CASE ReturnResting
  BY <1>6, AddOrderStep
<1>7. CASE UNCHANGED vars
  BY <1>7 DEF vars
<1> QED
  BY <1>1, <1>2, <1>3, <1>4, <1>5, <1>6, <1>7 DEF Next, Continue

\* The book implements the abstract feed: every message that LimitTree sends is
\* legal for a reader who has the messages before it, new orders do not cross
\* the orders that reader knows, and every trade hits the order that has
\* price-time priority for that reader.
THEOREM BookImplementsFeed == Spec => FeedSpec
<1>1. Init => Feed!Init /\ TakerRemains
  BY DEF Init, Feed!Init, NoTaker, TakerRemains, Idle
<1>2. Inv /\ TakerRemains /\ [Next]_vars => TakerRemains'
  BY NextRemains
<1>3. Inv /\ TakerRemains /\ [Next]_vars => [Feed!Next]_(Feed!feedVars)
  BY FeedStep
<1> QED
  BY <1>1, <1>2, <1>3, Invariance, PTL DEF Spec, FeedSpec, Feed!Spec

-----------------------------------------------------------------------------
(* The two sides                                                           *)

\* A limit order is being executed only while there are IDs left.
IDsLeft == ~Idle /\ taker.limit => sequence <= MaxOrders

\* The step leaves side s as it is.
Keeps(s) == queue'[s] = queue[s] /\ levels'[s] = levels[s] /\ best'[s] = best[s]

\* The step puts an order that is not there at the end of a queue of side s.
Joins(s) ==
    \E u \in 1..MaxOrders, p \in Prices :
        /\ \A r \in Prices : u \notin Range(queue[s][r])
        /\ queue'[s] = [queue[s] EXCEPT ![p] = Append(@, u)]

\* The step takes one order out of a queue of side s.
Leaves(s) ==
    \E p \in Prices : \E i \in DOMAIN queue[s][p] :
        queue'[s] = [queue[s] EXCEPT ![p] = RemoveAt(@, i)]

\* The step empties side s.
Empties(s) == queue'[s] = [p \in Prices |-> << >>] /\ best'[s] = NoPrice

\* The only order of a queue, taken out, leaves an empty one.
LEMMA RemoveOnly ==
    ASSUME NEW q \in Seq(UID), Len(q) = 1
    PROVE  RemoveAt(q, 1) = << >>
<1>1. 1 \in 1..Len(q)
  OBVIOUS
<1>2. RemoveAt(q, 1) \in Seq(UID) /\ Len(RemoveAt(q, 1)) = Len(q) - 1
  BY <1>1, RemoveAtProperties
<1> QED
  BY <1>2, EmptySeq

\* LimitTree::remove takes one order out of one side.
LEMMA RemoveLeaves ==
    ASSUME BookInv, NEW u \in DOMAIN orders, TreeRemove(u), NEW t \in Side
    PROVE  Keeps(t) \/ Leaves(t)
<1> DEFINE s == orders[u].side
           p == orders[u].price
           q == queue[s][p]
           k == Position(s, p, u)
<1>1. s \in Side /\ p \in Prices /\ k \in 1..Len(q)
  BY OrderInQueue, PositionProperties
<1>2. q \in Seq(UID) /\ queue \in [Side -> [Prices -> Seq(UID)]]
  BY <1>1 DEF BookInv, BookTypeOK
<1>3. DOMAIN q = 1..Len(q)
  BY <1>2
<1>4. CASE RemoveLimit(s, p)
  <2>1. Len(q) = 1 /\ queue' = [queue EXCEPT ![s][p] = << >>]
    BY <1>4 DEF RemoveLimit
  <2>2. RemoveAt(q, 1) = << >>
    BY <2>1, <1>2, RemoveOnly
  <2>3. CASE t = s
    <3>1. queue'[s] = [queue[s] EXCEPT ![p] = RemoveAt(@, 1)]
      BY <2>1, <2>2, <1>1, <1>2
    <3> QED
      BY <3>1, <2>3, <2>1, <1>1, <1>3 DEF Leaves
  <2>4. CASE t # s
    <3>1. queue'[t] = queue[t]
      BY <2>1, <2>4, <1>2
    <3>2. levels'[t] = levels[t] /\ best'[t] = best[t]
      BY <1>4, <2>4 DEF RemoveLimit, BookInv, BookTypeOK
    <3> QED
      BY <3>1, <3>2 DEF Keeps
  <2> QED
    BY <2>3, <2>4
<1>5. CASE RemoveFromLimit(s, p, u)
  <2>1. queue' = [queue EXCEPT ![s][p] = RemoveAt(@, k)] /\ UNCHANGED <<levels, best>>
    BY <1>5 DEF RemoveFromLimit
  <2>2. CASE t = s
    <3>1. queue'[s] = [queue[s] EXCEPT ![p] = RemoveAt(@, k)]
      BY <2>1, <1>1, <1>2
    <3> QED
      BY <3>1, <2>2, <1>1, <1>3 DEF Leaves
  <2>3. CASE t # s
    BY <2>1, <2>3, <1>2 DEF Keeps
  <2> QED
    BY <2>2, <2>3
<1> QED
  BY <1>4, <1>5 DEF TreeRemove

\* LimitTree::limit puts the new order at the end of one queue.
LEMMA LimitJoins ==
    ASSUME BookInv, IDsHandedOut, sequence \in 1..MaxOrders, NEW o \in Order,
           TreeLimit(sequence, o), NEW t \in Side
    PROVE  Keeps(t) \/ Joins(t)
<1> DEFINE s == o.side
           p == o.price
           q == queue[s][p]
           u == sequence
<1>1. s \in Side /\ p \in Prices
  BY DEF Order
<1>2. q \in Seq(UID) /\ queue \in [Side -> [Prices -> Seq(UID)]]
  BY <1>1 DEF BookInv, BookTypeOK
<1>3. \A r \in Prices : u \notin Range(queue[s][r])
  <2> SUFFICES ASSUME NEW r \in Prices, u \in Range(queue[s][r]) PROVE FALSE
    OBVIOUS
  <2>1. u \in DOMAIN orders
    BY <1>1 DEF BookInv, QueuesHoldOrders, OrdersAt
  <2> QED
    BY <2>1, MaxOrdersAssumption DEF IDsHandedOut
<1>4. queue' = [queue EXCEPT ![s][p] = Append(@, u)]
  <2>1. CASE p \notin levels[s]
    <3>1. queue' = [queue EXCEPT ![s][p] = <<u>>]
      BY <2>1 DEF TreeLimit, NewLimit
    <3>2. q = << >>
      BY <2>1, <1>1 DEF BookInv, QueuesHoldOrders
    <3>3. Append(q, u) = <<u>>
      BY <3>2
    <3> QED
      BY <3>1, <3>3
  <2>2. CASE p \in levels[s]
    BY <2>2 DEF TreeLimit, Enqueue
  <2> QED
    BY <2>1, <2>2
<1>5. CASE t = s
  <2>1. queue'[s] = [queue[s] EXCEPT ![p] = Append(@, u)]
    BY <1>1, <1>2, <1>4
  <2> QED
    BY <2>1, <1>1, <1>3, <1>5 DEF Joins
<1>6. CASE t # s
  <2>1. queue'[t] = queue[t]
    BY <1>2, <1>4, <1>6
  <2>2. levels'[t] = levels[t] /\ best'[t] = best[t]
    BY <1>6 DEF TreeLimit, BookInv, BookTypeOK
  <2> QED
    BY <2>1, <2>2 DEF Keeps
<1> QED
  BY <1>5, <1>6

\* The book starts no limit order without an ID for it, and hands out none before
\* that order has come to its end.
LEMMA NextIDsLeft == IDsLeft /\ [ApiNext]_vars => IDsLeft'
<1> SUFFICES ASSUME IDsLeft, [ApiNext]_vars PROVE IDsLeft'
  OBVIOUS
<1>1. ASSUME NEW a \in Accounts, NEW s \in Side, NEW q \in Quantities, MarketOrder(a, s, q)
      PROVE  IDsLeft'
  BY <1>1 DEF MarketOrder, IDsLeft
<1>2. ASSUME NEW a \in Accounts, NEW s \in Side, NEW q \in Quantities, NEW p \in Prices,
             LimitOrder(a, s, q, p)
      PROVE  IDsLeft'
  BY <1>2 DEF LimitOrder, IDsLeft
<1>3. ASSUME NEW u \in DOMAIN orders, Cancel(u) PROVE IDsLeft'
  BY <1>3 DEF Cancel, IDsLeft, Idle
<1>4. CASE MatchPartly \/ MatchWhole
  <2>1. sequence' = sequence /\ taker.phase = "market" /\ \E n : taker' = TakerAfter(n)
    BY <1>4 DEF MatchPartly, MatchWhole
  <2>2. PICK n : taker' = TakerAfter(n)
    BY <2>1
  <2>3. taker'.limit = taker.limit
    BY <2>2 DEF TakerAfter
  <2> QED
    BY <2>1, <2>3 DEF IDsLeft, Idle
<1>5. CASE ReturnFilled \/ ReturnUnfilled \/ ReturnResting
  BY <1>5 DEF ReturnFilled, ReturnUnfilled, ReturnResting, NoTaker, IDsLeft, Idle
<1>6. CASE UNCHANGED vars
  BY <1>6 DEF vars, IDsLeft, Idle
<1>7. ASSUME NEW u \in DOMAIN orders, NEW q \in Quantities, Reduce(u, q) PROVE IDsLeft'
  BY <1>3, <1>7 DEF Reduce, IDsLeft, Idle
<1>8. CASE Clear
  BY <1>8 DEF Clear, IDsLeft, Idle
<1> QED
  BY <1>1, <1>2, <1>3, <1>4, <1>5, <1>6, <1>7, <1>8 DEF ApiNext, Next, Continue

\* Every operation of the book makes one of the four moves on each side.
LEMMA SideMoves ==
    ASSUME CoreInv, IDsLeft, [ApiNext]_vars, NEW t \in Side
    PROVE  Keeps(t) \/ Joins(t) \/ Leaves(t) \/ Empties(t)
<1>1. CASE UNCHANGED tree
  BY <1>1 DEF tree, Keeps
<1>2. ASSUME NEW u \in DOMAIN orders, TreeRemove(u) PROVE Keeps(t) \/ Leaves(t)
  BY <1>2, RemoveLeaves DEF CoreInv
<1>3. CASE MatchPartly
  BY <1>3 DEF MatchPartly, Keeps
<1>4. CASE MatchWhole
  <2>1. TreeRemove(Match) /\ taker.phase = "market" /\ CanContinue
    BY <1>4 DEF MatchWhole
  <2>2. Match \in DOMAIN orders
    BY <2>1, MatchProperties
  <2> QED
    BY <2>1, <2>2, <1>2
<1>5. CASE ReturnResting
  <2> DEFINE o == [side |-> taker.side, quantity |-> taker.quantity,
                   price |-> taker.price, account |-> taker.account]
  <2>1. ~Idle /\ taker.limit /\ TreeLimit(sequence, o)
    BY <1>5 DEF ReturnResting
  <2>2. taker \in Taker
    BY <2>1 DEF CoreInv, TypeOK, NoTaker, Idle
  <2>3. taker.price \in Prices
    BY <2>1 DEF CoreInv, CallConsistent, Idle, NoTaker
  <2>4. o \in Order
    BY <2>2, <2>3 DEF Taker, Order
  <2>5. sequence \in 1..MaxOrders
    BY <2>1, MaxOrdersAssumption DEF IDsLeft, CoreInv, TypeOK, UID
  <2> HIDE DEF o
  <2> QED
    BY <2>1, <2>4, <2>5, LimitJoins DEF CoreInv
<1>6. ASSUME NEW u \in DOMAIN orders, Cancel(u) PROVE Keeps(t) \/ Leaves(t)
  BY <1>6, <1>2 DEF Cancel
<1>7. ASSUME NEW a \in Accounts, NEW s \in Side, NEW q \in Quantities,
             MarketOrder(a, s, q) \/ \E p \in Prices : LimitOrder(a, s, q, p)
      PROVE  UNCHANGED tree
  BY <1>7 DEF MarketOrder, LimitOrder
<1>8. CASE ReturnFilled \/ ReturnUnfilled
  BY <1>8, <1>1 DEF ReturnFilled, ReturnUnfilled
<1>9. CASE UNCHANGED vars
  BY <1>9, <1>1 DEF vars
<1>10. ASSUME NEW u \in DOMAIN orders, NEW q \in Quantities, Reduce(u, q)
       PROVE  Keeps(t) \/ Leaves(t)
  BY <1>6, <1>10 DEF Reduce, Keeps
<1>11. CASE Clear
  BY <1>11 DEF Clear, Empties
<1> QED
  BY <1>1, <1>3, <1>4, <1>5, <1>6, <1>7, <1>8, <1>9, <1>10, <1>11 DEF ApiNext, Next, Continue

\* What is in no queue of a side does not rest there for BookSide either.
LEMMA NotResting ==
    ASSUME BookInv, NEW u
    PROVE  /\ (\A r \in Prices : u \notin Range(queue["Sell"][r])) => ~SellSide!Resting(u)
           /\ (\A r \in Prices : u \notin Range(queue["Buy"][r])) => ~BuySide!Resting(u)
<1>1. \A s \in Side, r \in Prices : queue[s][r] \in Seq(UID)
  BY DEF BookInv, BookTypeOK
<1>2. \A s \in Side, r \in Prices : DOMAIN queue[s][r] = 1..Len(queue[s][r])
  BY <1>1
<1>3. "Sell" \in Side /\ "Buy" \in Side
  BY DEF Side
<1> QED
  BY <1>2, <1>3, Zenon DEF SellSide!Resting, SellSide!Contains, BuySide!Resting, BuySide!Contains, Range

\* The best of a set of prices is the best one for BookSide too.
LEMMA SameBest ==
    ASSUME NEW L, L \subseteq Prices, NEW b \in Prices \cup {NoPrice}
    PROVE  /\ IsBest("Sell", L, b) => SellSide!IsBest(L, b)
           /\ IsBest("Buy", L, b) => BuySide!IsBest(L, b)
<1>1. \A r \in L : r \in Nat
  BY PricesAssumption
<1>2. CASE L = {}
  BY <1>2 DEF IsBest, NoPrice, SellSide!IsBest, SellSide!NoPrice, BuySide!IsBest,
              BuySide!NoPrice
<1>3. CASE L # {}
  <2>1. ASSUME IsBest("Sell", L, b) PROVE b \in L /\ \A r \in L : r >= b
    BY <2>1, <1>1, <1>3 DEF IsBest, Better
  <2>2. ASSUME IsBest("Buy", L, b) PROVE b \in L /\ \A r \in L : r <= b
    BY <2>2, <1>1, <1>3 DEF IsBest, Better
  <2> QED
    BY <2>1, <2>2, <1>3 DEF SellSide!IsBest, BuySide!IsBest
<1> QED
  BY <1>2, <1>3

\* A step of the book is a step of the abstract sell side.
LEMMA SellStep ==
    CoreInv /\ CoreInv' /\ IDsLeft /\ [ApiNext]_vars => [SellSide!Next]_(SellSide!sideVars)
<1> SUFFICES ASSUME CoreInv, CoreInv', IDsLeft, [ApiNext]_vars
             PROVE  SellSide!Next \/ UNCHANGED <<queue["Sell"], best["Sell"]>>
  BY DEF SellSide!sideVars
<1>1. "Sell" \in Side
  BY DEF Side
<1>2. SellSide!IsBest(SellSide!Levels(queue'["Sell"]), best'["Sell"])
  <2>1. BookInv' /\ levels'["Sell"] \subseteq Prices /\ best'["Sell"] \in Prices \cup {NoPrice}
    BY <1>1 DEF CoreInv, BookInv, BookTypeOK
  <2>2. {p \in Prices : queue'["Sell"][p] # << >>} = levels'["Sell"]
    BY <2>1, <1>1 DEF BookInv, BookTypeOK, QueuesHoldOrders
  <2>3. IsBest("Sell", levels'["Sell"], best'["Sell"])
    BY <2>1, <1>1 DEF BookInv, BestPrice, IsBest, Better
  <2>4. SellSide!IsBest(levels'["Sell"], best'["Sell"])
    BY <2>1, <2>3, SameBest
  <2> QED
    BY <2>2, <2>4 DEF SellSide!Levels
<1>3. CASE Keeps("Sell")
  BY <1>3 DEF Keeps
<1>4. CASE Joins("Sell")
  <2>1. PICK u \in 1..MaxOrders, p \in Prices :
            /\ \A r \in Prices : u \notin Range(queue["Sell"][r])
            /\ queue'["Sell"] = [queue["Sell"] EXCEPT ![p] = Append(@, u)]
    BY <1>4 DEF Joins
  <2>2. ~SellSide!Resting(u)
    BY <2>1, NotResting DEF CoreInv
  <2>3. SellSide!Limit(u, p)
    BY <2>1, <2>2, <1>2 DEF SellSide!Limit
  <2> QED
    BY <2>1, <2>3 DEF SellSide!Next
<1>5. CASE Leaves("Sell")
  <2>1. PICK p \in Prices : \E i \in DOMAIN queue["Sell"][p] :
            queue'["Sell"] = [queue["Sell"] EXCEPT ![p] = RemoveAt(@, i)]
    BY <1>5 DEF Leaves
  <2>2. PICK i \in DOMAIN queue["Sell"][p] :
            queue'["Sell"] = [queue["Sell"] EXCEPT ![p] = RemoveAt(@, i)]
    BY <2>1
  <2>3. SellSide!Leave(p, i)
    BY <2>2, <1>2 DEF SellSide!Leave, SellSide!RemoveAt, RemoveAt
  <2> QED
    BY <2>2, <2>3 DEF SellSide!Next
<1>6. CASE Empties("Sell")
  <2>1. SellSide!Clear
    BY <1>6 DEF Empties, SellSide!Clear, SellSide!NoPrice, NoPrice
  <2> QED
    BY <2>1 DEF SellSide!Next
<1> QED
  BY <1>1, <1>3, <1>4, <1>5, <1>6, SideMoves

\* A step of the book is a step of the abstract buy side.
LEMMA BuyStep ==
    CoreInv /\ CoreInv' /\ IDsLeft /\ [ApiNext]_vars => [BuySide!Next]_(BuySide!sideVars)
<1> SUFFICES ASSUME CoreInv, CoreInv', IDsLeft, [ApiNext]_vars
             PROVE  BuySide!Next \/ UNCHANGED <<queue["Buy"], best["Buy"]>>
  BY DEF BuySide!sideVars
<1>1. "Buy" \in Side
  BY DEF Side
<1>2. BuySide!IsBest(BuySide!Levels(queue'["Buy"]), best'["Buy"])
  <2>1. BookInv' /\ levels'["Buy"] \subseteq Prices /\ best'["Buy"] \in Prices \cup {NoPrice}
    BY <1>1 DEF CoreInv, BookInv, BookTypeOK
  <2>2. {p \in Prices : queue'["Buy"][p] # << >>} = levels'["Buy"]
    BY <2>1, <1>1 DEF BookInv, BookTypeOK, QueuesHoldOrders
  <2>3. IsBest("Buy", levels'["Buy"], best'["Buy"])
    BY <2>1, <1>1 DEF BookInv, BestPrice, IsBest, Better
  <2>4. BuySide!IsBest(levels'["Buy"], best'["Buy"])
    BY <2>1, <2>3, SameBest
  <2> QED
    BY <2>2, <2>4 DEF BuySide!Levels
<1>3. CASE Keeps("Buy")
  BY <1>3 DEF Keeps
<1>4. CASE Joins("Buy")
  <2>1. PICK u \in 1..MaxOrders, p \in Prices :
            /\ \A r \in Prices : u \notin Range(queue["Buy"][r])
            /\ queue'["Buy"] = [queue["Buy"] EXCEPT ![p] = Append(@, u)]
    BY <1>4 DEF Joins
  <2>2. ~BuySide!Resting(u)
    BY <2>1, NotResting DEF CoreInv
  <2>3. BuySide!Limit(u, p)
    BY <2>1, <2>2, <1>2 DEF BuySide!Limit
  <2> QED
    BY <2>1, <2>3 DEF BuySide!Next
<1>5. CASE Leaves("Buy")
  <2>1. PICK p \in Prices : \E i \in DOMAIN queue["Buy"][p] :
            queue'["Buy"] = [queue["Buy"] EXCEPT ![p] = RemoveAt(@, i)]
    BY <1>5 DEF Leaves
  <2>2. PICK i \in DOMAIN queue["Buy"][p] :
            queue'["Buy"] = [queue["Buy"] EXCEPT ![p] = RemoveAt(@, i)]
    BY <2>1
  <2>3. BuySide!Leave(p, i)
    BY <2>2, <1>2 DEF BuySide!Leave, BuySide!RemoveAt, RemoveAt
  <2> QED
    BY <2>2, <2>3 DEF BuySide!Next
<1>6. CASE Empties("Buy")
  <2>1. BuySide!Clear
    BY <1>6 DEF Empties, BuySide!Clear, BuySide!NoPrice, NoPrice
  <2> QED
    BY <2>1 DEF BuySide!Next
<1> QED
  BY <1>1, <1>3, <1>4, <1>5, <1>6, SideMoves

\* OrderBook uses its sides as BookSide says: every step of limit, market, cancel and
\* reduce changes each LimitTree by one order in at the end of a queue or one order
\* out, or not, clear empties it, and its best pointer is left at the best price.
THEOREM BookUsesSides == ApiSpec => UsesSides
<1>1. Init => SellSide!Init /\ BuySide!Init /\ IDsLeft
  BY DEF Init, SellSide!Init, BuySide!Init, SellSide!NoPrice, BuySide!NoPrice, NoPrice, Side,
         IDsLeft, Idle, NoTaker
<1>2. IDsLeft /\ [ApiNext]_vars => IDsLeft'
  BY NextIDsLeft
<1>3. CoreInv /\ CoreInv' /\ IDsLeft /\ [ApiNext]_vars =>
          [SellSide!Next]_(SellSide!sideVars) /\ [BuySide!Next]_(BuySide!sideVars)
  BY SellStep, BuyStep
<1> QED
  BY <1>1, <1>2, <1>3, ApiInvariance, PTL DEF ApiSpec, UsesSides, SellSide!Spec, BuySide!Spec
=============================================================================
