--------------------------- MODULE ReceiverProofs ---------------------------
(***************************************************************************)
(* Proofs about the receiver of the data feed, for all prices, quantities  *)
(* and numbers of messages, and about the strategies that look at its      *)
(* book.                                                                   *)
(*                                                                         *)
(* BookOK is what every operation of the receiver's book keeps, whatever   *)
(* was lost before.  Told is what the messages that may still arrive say   *)
(* about the venue's orders; with it, a receiver that has seen no gap has  *)
(* the venue's orders.                                                     *)
(***************************************************************************)
EXTENDS Quotes, CollectionProofs

\* What FoldLeft, which runs the loop of LimitTree::market, computes.
Passes == INSTANCE FoldProofs WITH Op <- Match

\* An order that rests in the book, and the maps of such orders.
RestingOrder == [side : Side, price : Prices, quantity : Nat]
Orders == {f \in UNION {[D -> RestingOrder] : D \in SUBSET Nat} : IsFiniteSet(DOMAIN f)}

BookType ==
    [orders       : Orders,
     queue        : [Side -> [Prices -> Seq(Nat)]],
     best         : [Side -> Prices \cup {NoPrice}],
     last_best    : [Side -> Prices \cup {0}],
     limit_volume : [Side -> [Prices -> Int]],
     volume       : [Side -> Int]]

\* The queues and the map have the same orders.
Linked(b) ==
    \A s \in Side, p \in Prices :
        Range(b.queue[s][p]) = OrdersAt(b.orders, s, p) /\ IsInjective(b.queue[s][p])

\* The best prices are the best ones, and are remembered.
Priced(b) ==
    \A s \in Side : /\ b.best[s] = BestOf(b, s)
                    /\ b.best[s] # NoPrice => b.last_best[s] = b.best[s]

\* The volumes are the sums of the quantities.
Counted(b) ==
    \A s \in Side :
        /\ b.volume[s] = SharesOf(b.orders, OrdersOn(b.orders, s))
        /\ \A p \in Prices : b.limit_volume[s][p] = SharesOf(b.orders, OrdersAt(b.orders, s, p))

\* Every buy is below every sell.
Uncrossed(b) == \A p \in Limits(b, "Buy"), r \in Limits(b, "Sell") : p < r

BookOK(b) == b \in BookType /\ Linked(b) /\ Priced(b) /\ Counted(b) /\ Uncrossed(b)

\* What a strategy reads of the best prices.
TopOK(b) == b \in BookType /\ Priced(b) /\ Uncrossed(b)

\* A map of orders with one more, and the book that has it in the map only.
Added(f, u, o) == [v \in DOMAIN f \cup {u} |-> IF v = u THEN o ELSE f[v]]
Kept(b, u, o)  == [b EXCEPT !.orders = [v \in DOMAIN @ \cup {u} |-> IF v = u THEN o ELSE @[v]]]

\* The venue's orders when it had sent k messages, by its history h.
OrdersAfter(h, k) == IF k = 0 THEN << >> ELSE h[k]

\* A map of orders with n shares of order u executed.
Executed(f, u, n) ==
    IF f[u].quantity = n THEN Restrict(f, DOMAIN f \ {u}) ELSE [f EXCEPT ![u].quantity = @ - n]

\* What message m says about the venue's orders before and after it, f and g.
Describes(f, m, g) ==
    \/ m.kind \in {"StartOfSession", "EndOfSession"} /\ g = f
    \/ /\ m.kind = "AddOrder"
       /\ \A v \in DOMAIN f : v < m.uid /\ (f[v].side # m.side => ~Meets(m.side, m.price, f[v].price))
       /\ g = Added(f, m.uid, [side |-> m.side, price |-> m.price, quantity |-> m.quantity])
    \/ /\ m.kind = "DeleteOrder"
       /\ m.uid \in DOMAIN f
       /\ g = Restrict(f, DOMAIN f \ {m.uid})
    \/ /\ m.kind = "Trade"
       /\ m.uid \in DOMAIN f /\ m.quantity <= f[m.uid].quantity
       /\ g = Executed(f, m.uid, m.quantity)

\* The venue's orders, which the venue has numbered in order of arrival.
VenueOK == live \in Orders /\ next \in Nat /\ \A u \in DOMAIN live : u < next

Flags ==
    /\ is_session_active \in BOOLEAN /\ session \in BOOLEAN /\ reliable \in BOOLEAN
    /\ warned \in BOOLEAN /\ receiving \in BOOLEAN

\* The number of messages that have left the buffer.
Departed == sequence - 1 - Len(output_buffer)

\* Messages have consecutive numbers, those in the buffer the highest ones.
Numbered ==
    /\ sequence \in 1..(MaxMessages + 1) /\ last_sequence \in 0..(sequence - 1)
    /\ Len(history) = sequence - 1 /\ live = OrdersAfter(history, sequence - 1)
    /\ sending = (output_buffer # << >>)
    /\ Departed \in Nat
    /\ \A i \in 1..Len(output_buffer) : output_buffer[i].sequence = Departed + i
    /\ \A m \in network : m.sequence \in 1..Departed

\* The messages that have not been forgotten, and what they say.
Told ==
    /\ history \in Seq(Orders) /\ output_buffer \in Seq(Message) /\ network \subseteq Message
    /\ \A m \in network \cup Range(output_buffer) :
          Describes(OrdersAfter(history, m.sequence - 1), m, OrdersAfter(history, m.sequence))

\* The queues have the oldest order first.
InOrder(b) == \A s \in Side, p \in Prices : Ascending(b.queue[s][p])

\* A receiver that has seen no gap has the venue's orders, oldest first.
Exact ==
    ~warned => receiving /\ book.orders = OrdersAfter(history, last_sequence) /\ InOrder(book)

\* The book is sound until an order has been linked twice, and its prices are after that.
Sound == TopOK(book) /\ (receiving => BookOK(book))

\* What every step of the feed keeps.
ReceiverInv == Flags /\ VenueOK /\ Numbered /\ Told /\ Sound /\ Exact

-----------------------------------------------------------------------------
(* Prices and orders                                                       *)

\* Prices are numbers up to MaxPrice, and NoPrice is none of them.
LEMMA PriceNumbers ==
    /\ MaxPrice \in Nat
    /\ \A p \in Prices : p \in Nat /\ p <= MaxPrice /\ p # NoPrice
    /\ NoPrice \notin Prices /\ NoPrice \in Int
  BY PriceRange DEF NoPrice

\* A set of prices that is not empty has a least and a greatest element.
LEMMA Extremes ==
    ASSUME NEW T, T \subseteq Prices, T # {}
    PROVE  /\ Max(T) \in T /\ \A p \in T : p <= Max(T)
           /\ Min(T) \in T /\ \A p \in T : Min(T) <= p
<1>1. T \subseteq Nat /\ \A p \in T : p <= MaxPrice
  BY PriceNumbers
<1>2. \E x \in T : \A y \in T : x <= y
  BY <1>1, LeastNumber
<1>3. \E x \in T : \A y \in T : x >= y
  <2> DEFINE U == {MaxPrice - x : x \in T}
  <2>1. U \subseteq Nat /\ U # {}
    <3>1. \A x \in T : MaxPrice - x \in Nat
      <4>1. MaxPrice \in Nat
        BY PriceNumbers
      <4> QED
        BY <1>1, <4>1
    <3>2. U \subseteq Nat
      BY <3>1
    <3> QED
      BY <3>2
  <2>2. PICK n \in U : \A m \in U : n <= m
    BY <2>1, LeastNumber
  <2>3. PICK x \in T : n = MaxPrice - x
    OBVIOUS
  <2>4. ASSUME NEW y \in T PROVE x >= y
    <3>1. MaxPrice - x <= MaxPrice - y
      BY <2>2, <2>3
    <3>2. x \in Nat /\ y \in Nat /\ MaxPrice \in Nat
      BY <1>1, PriceNumbers
    <3> QED
      BY <3>1, <3>2
  <2> QED
    BY <2>4
<1>4. Max(T) \in T /\ \A p \in T : Max(T) >= p
  BY <1>3 DEF Max
<1>5. Min(T) \in T /\ \A p \in T : Min(T) <= p
  BY <1>2 DEF Min
<1> QED
  BY <1>1, <1>4, <1>5

\* An operation that leaves the queues of a side alone leaves its best price alone.
LEMMA SameBest ==
    ASSUME NEW b, NEW c, NEW s, \A p \in Prices : b.queue[s][p] = c.queue[s][p]
    PROVE  Limits(b, s) = Limits(c, s) /\ BestOf(b, s) = BestOf(c, s)
<1>1. Limits(b, s) = Limits(c, s)
  BY DEF Limits
<1> QED
  BY <1>1 DEF BestOf

\* What the best price of a side is.
LEMMA BestProperties ==
    ASSUME NEW b, NEW s \in Side
    PROVE  /\ BestOf(b, s) \in Prices \cup {NoPrice}
           /\ BestOf(b, s) = NoPrice <=> Limits(b, s) = {}
           /\ BestOf(b, s) # NoPrice => BestOf(b, s) \in Limits(b, s)
           /\ s = "Buy" => \A p \in Limits(b, s) : p <= BestOf(b, s)
           /\ s = "Sell" => \A p \in Limits(b, s) : p >= BestOf(b, s)
<1>1. Limits(b, s) \subseteq Prices
  BY DEF Limits
<1>2. CASE Limits(b, s) = {}
  BY <1>2, PriceNumbers DEF BestOf
<1>3. CASE Limits(b, s) # {}
  <2>1. /\ Max(Limits(b, s)) \in Limits(b, s) /\ \A p \in Limits(b, s) : p <= Max(Limits(b, s))
        /\ Min(Limits(b, s)) \in Limits(b, s) /\ \A p \in Limits(b, s) : Min(Limits(b, s)) <= p
    BY <1>1, <1>3, Extremes
  <2>2. NoPrice \notin Prices /\ \A p \in Prices : p \in Nat
    BY PriceNumbers
  <2>3. CASE s = "Buy"
    BY <1>1, <1>3, <2>1, <2>2, <2>3 DEF BestOf
  <2>4. CASE s = "Sell"
    <3>1. s # "Buy"
      BY <2>4
    <3>2. BestOf(b, s) = Min(Limits(b, s))
      BY <3>1, <1>3 DEF BestOf
    <3> QED
      BY <1>1, <1>3, <2>1, <2>2, <3>1, <3>2
  <2> QED
    BY <2>3, <2>4 DEF Side
<1> QED
  BY <1>2, <1>3

\* A map of orders.
LEMMA OrdersDef ==
    ASSUME NEW f
    PROVE  f \in Orders <=> /\ f \in [DOMAIN f -> RestingOrder]
                            /\ DOMAIN f \subseteq Nat
                            /\ IsFiniteSet(DOMAIN f)
<1>1. ASSUME f \in Orders
      PROVE  f \in [DOMAIN f -> RestingOrder] /\ DOMAIN f \subseteq Nat /\ IsFiniteSet(DOMAIN f)
  <2>1. PICK D \in SUBSET Nat : f \in [D -> RestingOrder]
    BY <1>1 DEF Orders
  <2> QED
    BY <1>1, <2>1 DEF Orders
<1>2. ASSUME f \in [DOMAIN f -> RestingOrder], DOMAIN f \subseteq Nat, IsFiniteSet(DOMAIN f)
      PROVE  f \in Orders
  BY <1>2 DEF Orders
<1> QED
  BY <1>1, <1>2

\* The shares of a set of orders are a number.
LEMMA SharesType ==
    ASSUME NEW f \in Orders, NEW S, S \subseteq DOMAIN f
    PROVE  IsFiniteSet(S) /\ SharesOf(f, S) \in Int
<1>1. IsFiniteSet(S)
  BY OrdersDef, FS_Subset
<1>2. \A u \in S : [v \in S |-> f[v].quantity][u] \in Int
  BY OrdersDef DEF RestingOrder
<1> QED
  BY <1>1, <1>2, SumOverInt DEF SharesOf

\* No orders, no shares.
LEMMA SharesNone ==
    ASSUME NEW f
    PROVE  SharesOf(f, {}) = 0
  BY FS_EmptySet, SumOverFirst DEF SharesOf

\* Maps that agree on the quantities of some orders agree on their shares.
LEMMA SharesAgree ==
    ASSUME NEW f, NEW g, NEW S, IsFiniteSet(S), \A u \in S : f[u].quantity = g[u].quantity
    PROVE  SharesOf(f, S) = SharesOf(g, S)
<1>1. \A u \in S : [v \in S |-> f[v].quantity][u] = [v \in S |-> g[v].quantity][u]
  OBVIOUS
<1> QED
  BY <1>1, SumOverAgrees DEF SharesOf

\* One order's part in the shares.
LEMMA SharesTake ==
    ASSUME NEW f \in Orders, NEW S, S \subseteq DOMAIN f, NEW u \in S
    PROVE  SharesOf(f, S) = f[u].quantity + SharesOf(f, S \ {u})
<1> DEFINE h == [v \in S |-> f[v].quantity]
           k == [v \in S \ {u} |-> f[v].quantity]
<1>1. IsFiniteSet(S) /\ IsFiniteSet(S \ {u})
  BY SharesType, FS_Subset
<1>2. \A v \in S : h[v] \in Int
  BY OrdersDef DEF RestingOrder
<1>3. h[u] = f[u].quantity /\ \A v \in S \ {u} : h[v] = k[v]
  OBVIOUS
<1>4. SharesOf(f, S) = SumOver(h, S) /\ SharesOf(f, S \ {u}) = SumOver(k, S \ {u})
  BY DEF SharesOf
<1> HIDE DEF h, k
<1>5. SumOver(h, S) = h[u] + SumOver(h, S \ {u})
  BY <1>1, <1>2, SumOverTake
<1>6. SumOver(h, S \ {u}) = SumOver(k, S \ {u})
  BY <1>1, <1>3, SumOverAgrees
<1> QED
  BY <1>3, <1>4, <1>5, <1>6

-----------------------------------------------------------------------------
(* The parts of the book's operations                                      *)

\* A record that has the fields of a book is a book.
LEMMA BookRecord ==
    ASSUME NEW b \in BookType, NEW c,
           DOMAIN c = DOMAIN b, c = [i \in DOMAIN c |-> c[i]],
           c.orders \in Orders, c.queue \in [Side -> [Prices -> Seq(Nat)]],
           c.best \in [Side -> Prices \cup {NoPrice}], c.last_best \in [Side -> Prices \cup {0}],
           c.limit_volume \in [Side -> [Prices -> Int]], c.volume \in [Side -> Int]
    PROVE  c \in BookType
<1>1. DOMAIN b = {"orders", "queue", "best", "last_best", "limit_volume", "volume"}
  BY DEF BookType
<1> QED
  BY <1>1 DEF BookType

\* AddVolume changes the two volumes.
LEMMA AddVolumeFields ==
    ASSUME NEW b \in BookType, NEW s \in Side, NEW p \in Prices, NEW n \in Int
    PROVE  LET c == AddVolume(b, s, p, n)
           IN  /\ c \in BookType
               /\ c.orders = b.orders /\ c.queue = b.queue
               /\ c.best = b.best /\ c.last_best = b.last_best
               /\ c.limit_volume = [b.limit_volume EXCEPT ![s][p] = @ + n]
               /\ c.volume = [b.volume EXCEPT ![s] = @ + n]
<1> DEFINE c == AddVolume(b, s, p, n)
<1>1. /\ c.orders = b.orders /\ c.queue = b.queue
      /\ c.best = b.best /\ c.last_best = b.last_best
      /\ c.limit_volume = [b.limit_volume EXCEPT ![s][p] = @ + n]
      /\ c.volume = [b.volume EXCEPT ![s] = @ + n]
  BY DEF AddVolume, BookType
<1>2. DOMAIN c = DOMAIN b /\ c = [i \in DOMAIN c |-> c[i]]
  BY DEF AddVolume
<1> HIDE DEF c
<1>3. c \in BookType
  <2>1. /\ b.orders \in Orders /\ b.queue \in [Side -> [Prices -> Seq(Nat)]]
        /\ b.best \in [Side -> Prices \cup {NoPrice}] /\ b.last_best \in [Side -> Prices \cup {0}]
    BY DEF BookType
  <2>2. c.limit_volume \in [Side -> [Prices -> Int]] /\ c.volume \in [Side -> Int]
    BY <1>1 DEF BookType
  <2> QED
    BY <1>1, <1>2, <2>1, <2>2, BookRecord
<1> QED
  BY <1>1, <1>3 DEF c

\* SetBest changes the best prices.
LEMMA SetBestFields ==
    ASSUME NEW b \in BookType, NEW s \in Side
    PROVE  LET c == SetBest(b, s)
           IN  /\ c \in BookType
               /\ c.orders = b.orders /\ c.queue = b.queue
               /\ c.limit_volume = b.limit_volume /\ c.volume = b.volume
               /\ c.best = [b.best EXCEPT ![s] = BestOf(b, s)]
               /\ c.last_best = [b.last_best EXCEPT ![s] = IF BestOf(b, s) # NoPrice
                                                           THEN BestOf(b, s) ELSE @]
<1> DEFINE c == SetBest(b, s)
<1>1. /\ c.orders = b.orders /\ c.queue = b.queue
      /\ c.limit_volume = b.limit_volume /\ c.volume = b.volume
      /\ c.best = [b.best EXCEPT ![s] = BestOf(b, s)]
      /\ c.last_best = [b.last_best EXCEPT ![s] = IF BestOf(b, s) # NoPrice
                                                  THEN BestOf(b, s) ELSE @]
  BY DEF SetBest, BookType
<1>2. DOMAIN c = DOMAIN b /\ c = [i \in DOMAIN c |-> c[i]]
  BY DEF SetBest
<1> HIDE DEF c
<1>3. BestOf(b, s) \in Prices \cup {NoPrice}
  BY BestProperties
<1>4. c \in BookType
  <2>1. /\ b.orders \in Orders /\ b.queue \in [Side -> [Prices -> Seq(Nat)]]
        /\ b.limit_volume \in [Side -> [Prices -> Int]] /\ b.volume \in [Side -> Int]
    BY DEF BookType
  <2>2. c.best \in [Side -> Prices \cup {NoPrice}] /\ c.last_best \in [Side -> Prices \cup {0}]
    BY <1>1, <1>3 DEF BookType
  <2> QED
    BY <1>1, <1>2, <2>1, <2>2, BookRecord
<1> QED
  BY <1>1, <1>4 DEF c

\* What DLL::remove leaves of a queue.
LEMMA WithoutProperties ==
    ASSUME NEW q \in Seq(Nat), IsInjective(q), NEW u \in Range(q)
    PROVE  /\ Without(q, u) \in Seq(Nat)
           /\ IsInjective(Without(q, u))
           /\ Range(Without(q, u)) = Range(q) \ {u}
           /\ Ascending(q) => Ascending(Without(q, u))
<1> DEFINE k == CHOOSE i \in DOMAIN q : q[i] = u
<1>1. k \in DOMAIN q /\ q[k] = u
  BY DEF Range
<1>2. k \in 1..Len(q)
  BY <1>1
<1> HIDE DEF k
<1>3. Without(q, u) = RemoveAt(q, k)
  BY DEF Without, k
<1>4. RemoveAt(q, k) \in Seq(Nat)
  BY <1>2, RemoveAtProperties
<1>5. IsInjective(RemoveAt(q, k)) /\ Range(RemoveAt(q, k)) = Range(q) \ {q[k]}
  BY <1>2, RemoveAtRange
<1>6. Ascending(q) => Ascending(RemoveAt(q, k))
  BY <1>2, RemoveAtAscending
<1> QED
  BY <1>1, <1>3, <1>4, <1>5, <1>6

\* An order in the map is in the queue of its side and price.
LEMMA Queued ==
    ASSUME NEW b \in BookType, Linked(b), NEW u \in DOMAIN b.orders
    PROVE  /\ b.orders[u] \in RestingOrder
           /\ b.orders[u].side \in Side /\ b.orders[u].price \in Prices
           /\ b.orders[u].quantity \in Nat
           /\ u \in Nat
           /\ u \in Range(b.queue[b.orders[u].side][b.orders[u].price])
           /\ b.orders[u].price \in Limits(b, b.orders[u].side)
<1>1. b.orders \in Orders
  BY DEF BookType
<1>2. b.orders[u] \in RestingOrder /\ u \in Nat
  BY <1>1, OrdersDef
<1>3. b.orders[u].side \in Side /\ b.orders[u].price \in Prices /\ b.orders[u].quantity \in Nat
  BY <1>2 DEF RestingOrder
<1>4. u \in OrdersAt(b.orders, b.orders[u].side, b.orders[u].price)
  BY DEF OrdersAt, OrdersOn
<1>5. u \in Range(b.queue[b.orders[u].side][b.orders[u].price])
  BY <1>3, <1>4 DEF Linked
<1>6. b.queue[b.orders[u].side][b.orders[u].price] # << >>
  BY <1>5 DEF Range
<1> QED
  BY <1>2, <1>3, <1>5, <1>6 DEF Limits

\* An order that is in a queue is in the map, with its side and its price.
LEMMA Mapped ==
    ASSUME NEW b \in BookType, Linked(b), NEW s \in Side, NEW p \in Limits(b, s)
    PROVE  /\ p \in Prices
           /\ Head(b.queue[s][p]) \in DOMAIN b.orders
           /\ b.orders[Head(b.queue[s][p])].side = s
           /\ b.orders[Head(b.queue[s][p])].price = p
<1>1. p \in Prices /\ b.queue[s][p] # << >>
  BY DEF Limits
<1>2. b.queue[s][p] \in Seq(Nat)
  BY <1>1 DEF BookType
<1>3. Head(b.queue[s][p]) \in Range(b.queue[s][p])
  BY <1>1, <1>2 DEF Range
<1>4. Head(b.queue[s][p]) \in OrdersAt(b.orders, s, p)
  BY <1>1, <1>3 DEF Linked
<1> QED
  BY <1>1, <1>4 DEF OrdersAt, OrdersOn

\* Unlink, field by field.
LEMMA UnlinkFields ==
    ASSUME NEW b \in BookType, Linked(b), NEW u \in DOMAIN b.orders
    PROVE  LET c == Unlink(b, u)
               s == b.orders[u].side
               p == b.orders[u].price
               n == b.orders[u].quantity
           IN  /\ c \in BookType
               /\ c.orders = Restrict(b.orders, DOMAIN b.orders \ {u})
               /\ c.queue = [b.queue EXCEPT ![s][p] = Without(@, u)]
               /\ c.best = [b.best EXCEPT ![s] = BestOf(c, s)]
               /\ c.last_best = [b.last_best EXCEPT ![s] = IF BestOf(c, s) # NoPrice
                                                           THEN BestOf(c, s) ELSE @]
               /\ c.limit_volume = [b.limit_volume EXCEPT ![s][p] = @ + -n]
               /\ c.volume = [b.volume EXCEPT ![s] = @ + -n]
<1> DEFINE s == b.orders[u].side
           p == b.orders[u].price
           n == b.orders[u].quantity
<1>1. /\ s \in Side /\ p \in Prices /\ n \in Nat /\ -n \in Int
      /\ u \in Range(b.queue[s][p])
  BY Queued
<1> DEFINE d == [b EXCEPT !.queue[s][p] = Without(@, u),
                          !.orders = Restrict(@, DOMAIN @ \ {u})]
           e == AddVolume(d, s, p, -n)
           c == SetBest(e, s)
<1>2. Unlink(b, u) = c
  BY DEF Unlink
<1>3. /\ d.orders = Restrict(b.orders, DOMAIN b.orders \ {u})
      /\ d.queue = [b.queue EXCEPT ![s][p] = Without(@, u)]
      /\ d.best = b.best /\ d.last_best = b.last_best
      /\ d.limit_volume = b.limit_volume /\ d.volume = b.volume
  BY DEF BookType
<1>4. DOMAIN d = DOMAIN b /\ d = [i \in DOMAIN d |-> d[i]]
  OBVIOUS
<1> HIDE DEF s, p, n, d, e, c
<1>5. d \in BookType
  <2>1. /\ b.orders \in Orders /\ b.queue \in [Side -> [Prices -> Seq(Nat)]]
        /\ b.best \in [Side -> Prices \cup {NoPrice}] /\ b.last_best \in [Side -> Prices \cup {0}]
        /\ b.limit_volume \in [Side -> [Prices -> Int]] /\ b.volume \in [Side -> Int]
    BY DEF BookType
  <2>2. d.orders \in Orders
    <3>1. IsFiniteSet(DOMAIN b.orders \ {u})
      BY <2>1, OrdersDef, FS_Subset
    <3>2. /\ DOMAIN d.orders = DOMAIN b.orders \ {u}
          /\ d.orders \in [DOMAIN b.orders \ {u} -> RestingOrder]
      BY <1>3, <2>1, OrdersDef DEF Restrict
    <3>3. DOMAIN d.orders \subseteq Nat
      BY <2>1, <3>2, OrdersDef
    <3> QED
      BY <3>1, <3>2, <3>3, OrdersDef
  <2>3. b.queue[s][p] \in Seq(Nat) /\ IsInjective(b.queue[s][p])
    BY <1>1, <2>1 DEF Linked
  <2>4. Without(b.queue[s][p], u) \in Seq(Nat)
    BY <1>1, <2>3, WithoutProperties
  <2>5. d.queue \in [Side -> [Prices -> Seq(Nat)]]
    BY <1>1, <1>3, <2>1, <2>4
  <2> QED
    BY <1>3, <1>4, <2>1, <2>2, <2>5, BookRecord
<1>6. /\ e \in BookType
      /\ e.orders = d.orders /\ e.queue = d.queue
      /\ e.best = d.best /\ e.last_best = d.last_best
      /\ e.limit_volume = [d.limit_volume EXCEPT ![s][p] = @ + -n]
      /\ e.volume = [d.volume EXCEPT ![s] = @ + -n]
  BY <1>1, <1>5, AddVolumeFields DEF e
<1>7. /\ c \in BookType
      /\ c.orders = e.orders /\ c.queue = e.queue
      /\ c.limit_volume = e.limit_volume /\ c.volume = e.volume
      /\ c.best = [e.best EXCEPT ![s] = BestOf(e, s)]
      /\ c.last_best = [e.last_best EXCEPT ![s] = IF BestOf(e, s) # NoPrice
                                                  THEN BestOf(e, s) ELSE @]
  <2>1. e \in BookType /\ s \in Side
    BY <1>1, <1>6
  <2> QED
    BY ONLY <2>1, SetBestFields, Zenon DEF c
<1>8. BestOf(e, s) = BestOf(c, s)
  BY <1>7, SameBest
<1>9. /\ c \in BookType
      /\ c.orders = Restrict(b.orders, DOMAIN b.orders \ {u})
      /\ c.queue = [b.queue EXCEPT ![s][p] = Without(@, u)]
      /\ c.best = [b.best EXCEPT ![s] = BestOf(c, s)]
      /\ c.last_best = [b.last_best EXCEPT ![s] = IF BestOf(c, s) # NoPrice
                                                  THEN BestOf(c, s) ELSE @]
      /\ c.limit_volume = [b.limit_volume EXCEPT ![s][p] = @ + -n]
      /\ c.volume = [b.volume EXCEPT ![s] = @ + -n]
  BY <1>3, <1>6, <1>7, <1>8
<1> QED
  BY <1>2, <1>9, Zenon DEF s, p, n

-----------------------------------------------------------------------------
(* What the book's operations keep                                         *)

\* Book c has come from book b by orders that left it or got smaller: no limit is new,
\* and the last best prices are those of b or prices of b's limits.
Diminished(b, c) ==
    /\ DOMAIN c.orders \subseteq DOMAIN b.orders
    /\ \A t \in Side :
          /\ Limits(c, t) \subseteq Limits(b, t)
          /\ c.last_best[t] \in Limits(b, t) \cup {b.last_best[t]}
          /\ \A r \in Prices : Ascending(b.queue[t][r]) => Ascending(c.queue[t][r])

\* The shares that are left when an order is gone.
LEMMA SharesWithout ==
    ASSUME NEW f \in Orders, NEW g, NEW S \in SUBSET DOMAIN f, NEW u \in S,
           \A v \in S \ {u} : g[v].quantity = f[v].quantity
    PROVE  SharesOf(g, S \ {u}) = SharesOf(f, S) + -f[u].quantity
<1>1. S \ {u} \subseteq DOMAIN f
  OBVIOUS
<1>2. IsFiniteSet(S \ {u}) /\ SharesOf(f, S \ {u}) \in Int
  BY <1>1, SharesType
<1>3. SharesOf(g, S \ {u}) = SharesOf(f, S \ {u})
  BY <1>2, SharesAgree, Zenon
<1>4. SharesOf(f, S) = f[u].quantity + SharesOf(f, S \ {u})
  BY SharesTake
<1>5. f[u].quantity \in Nat
  BY OrdersDef DEF RestingOrder
<1> QED
  BY <1>2, <1>3, <1>4, <1>5

\* LimitTree::cancel and the erase from the map keep the book consistent.
LEMMA UnlinkKeeps ==
    ASSUME NEW b, BookOK(b), NEW u \in DOMAIN b.orders
    PROVE  BookOK(Unlink(b, u)) /\ Diminished(b, Unlink(b, u))
<1> DEFINE c == Unlink(b, u)
           s == b.orders[u].side
           p == b.orders[u].price
           n == b.orders[u].quantity
<1>1. s = b.orders[u].side /\ p = b.orders[u].price /\ n = b.orders[u].quantity
  OBVIOUS
<1> HIDE DEF c, s, p, n
<1>2. b \in BookType /\ Linked(b) /\ Priced(b) /\ Counted(b) /\ Uncrossed(b)
  BY DEF BookOK
<1>3. s \in Side /\ p \in Prices /\ n \in Nat /\ u \in Range(b.queue[s][p])
  BY <1>1, <1>2, Queued
<1>4. /\ c \in BookType
      /\ c.orders = Restrict(b.orders, DOMAIN b.orders \ {u})
      /\ c.queue = [b.queue EXCEPT ![s][p] = Without(@, u)]
      /\ c.best = [b.best EXCEPT ![s] = BestOf(c, s)]
      /\ c.last_best = [b.last_best EXCEPT ![s] = IF BestOf(c, s) # NoPrice
                                                  THEN BestOf(c, s) ELSE @]
      /\ c.limit_volume = [b.limit_volume EXCEPT ![s][p] = @ + -n]
      /\ c.volume = [b.volume EXCEPT ![s] = @ + -n]
  <2>1. b \in BookType /\ Linked(b)
    BY <1>2
  <2> QED
    BY <2>1, UnlinkFields, Zenon DEF c, s, p, n
<1>5. /\ b.orders \in Orders /\ b.queue \in [Side -> [Prices -> Seq(Nat)]]
      /\ b.best \in [Side -> Prices \cup {NoPrice}] /\ b.last_best \in [Side -> Prices \cup {0}]
      /\ b.limit_volume \in [Side -> [Prices -> Int]] /\ b.volume \in [Side -> Int]
  BY <1>2 DEF BookType
<1>6. /\ DOMAIN c.orders = DOMAIN b.orders \ {u}
      /\ \A t \in Side : OrdersOn(c.orders, t) = OrdersOn(b.orders, t) \ {u}
      /\ \A t \in Side, r \in Prices : OrdersAt(c.orders, t, r) = OrdersAt(b.orders, t, r) \ {u}
  BY <1>4 DEF Restrict, OrdersOn, OrdersAt
<1>7. /\ \A t \in Side : u \in OrdersOn(b.orders, t) <=> t = s
      /\ \A t \in Side, r \in Prices : u \in OrdersAt(b.orders, t, r) <=> t = s /\ r = p
  BY <1>1 DEF OrdersOn, OrdersAt
<1>8. /\ Without(b.queue[s][p], u) \in Seq(Nat)
      /\ IsInjective(Without(b.queue[s][p], u))
      /\ Range(Without(b.queue[s][p], u)) = Range(b.queue[s][p]) \ {u}
      /\ Ascending(b.queue[s][p]) => Ascending(Without(b.queue[s][p], u))
  <2>1. b.queue[s][p] \in Seq(Nat) /\ IsInjective(b.queue[s][p])
    BY <1>2, <1>3, <1>5 DEF Linked
  <2> QED
    BY <1>3, <2>1, WithoutProperties
<1>9. \A t \in Side, r \in Prices :
         c.queue[t][r] = IF t = s /\ r = p THEN Without(b.queue[s][p], u) ELSE b.queue[t][r]
  BY <1>3, <1>4, <1>5
<1>10. Linked(c)
  <2> SUFFICES ASSUME NEW t \in Side, NEW r \in Prices
               PROVE  /\ Range(c.queue[t][r]) = OrdersAt(c.orders, t, r)
                      /\ IsInjective(c.queue[t][r])
    BY DEF Linked
  <2>1. Range(b.queue[t][r]) = OrdersAt(b.orders, t, r) /\ IsInjective(b.queue[t][r])
    BY <1>2 DEF Linked
  <2>2. CASE t = s /\ r = p
    BY <1>6, <1>8, <1>9, <2>1, <2>2
  <2>3. CASE ~(t = s /\ r = p)
    <3>1. OrdersAt(c.orders, t, r) = OrdersAt(b.orders, t, r) \ {u}
      BY <1>6
    <3>2. u \notin OrdersAt(b.orders, t, r)
      BY <1>7, <2>3
    <3>3. OrdersAt(c.orders, t, r) = OrdersAt(b.orders, t, r)
      BY <3>1, <3>2
    <3> QED
      BY <1>9, <2>1, <2>3, <3>3
  <2> QED
    BY <2>2, <2>3
<1>11. \A t \in Side : Limits(c, t) \subseteq Limits(b, t)
  <2> SUFFICES ASSUME NEW t \in Side, NEW r \in Limits(c, t) PROVE r \in Limits(b, t)
    OBVIOUS
  <2>1. r \in Prices /\ c.queue[t][r] # << >>
    BY DEF Limits
  <2>2. CASE t = s /\ r = p
    <3>1. b.queue[s][p] # << >>
      BY <1>3 DEF Range
    <3> QED
      BY <2>1, <2>2, <3>1 DEF Limits
  <2>3. CASE ~(t = s /\ r = p)
    BY <1>9, <2>1, <2>3 DEF Limits
  <2> QED
    BY <2>2, <2>3
<1>12. \A t \in Side : t # s => BestOf(c, t) = BestOf(b, t) /\ Limits(c, t) = Limits(b, t)
  BY <1>9, SameBest
<1>13. \A t \in Side :
          /\ c.best[t] = BestOf(c, t)
          /\ c.last_best[t] = IF t = s /\ BestOf(c, t) # NoPrice THEN BestOf(c, t) ELSE b.last_best[t]
  <2> SUFFICES ASSUME NEW t \in Side
               PROVE  /\ c.best[t] = BestOf(c, t)
                      /\ c.last_best[t] = IF t = s /\ BestOf(c, t) # NoPrice
                                          THEN BestOf(c, t) ELSE b.last_best[t]
    OBVIOUS
  <2>1. CASE t = s
    BY <1>3, <1>4, <1>5, <2>1
  <2>2. CASE t # s
    <3>1. c.best[t] = b.best[t] /\ c.last_best[t] = b.last_best[t]
      BY <1>3, <1>4, <1>5, <2>2
    <3>2. b.best[t] = BestOf(b, t)
      BY <1>2 DEF Priced
    <3> QED
      BY <1>12, <2>2, <3>1, <3>2
  <2> QED
    BY <2>1, <2>2
<1>14. Priced(c)
  <2> SUFFICES ASSUME NEW t \in Side, c.best[t] # NoPrice PROVE c.last_best[t] = c.best[t]
    BY <1>13 DEF Priced
  <2>1. CASE t = s
    BY <1>13, <2>1
  <2>2. CASE t # s
    BY <1>2, <1>12, <1>13, <2>2 DEF Priced
  <2> QED
    BY <2>1, <2>2
<1>15. Counted(c)
  <2>1. ASSUME NEW S \in SUBSET DOMAIN b.orders
        PROVE  SharesOf(c.orders, S \ {u}) = IF u \in S THEN SharesOf(b.orders, S) + -n
                                                        ELSE SharesOf(b.orders, S)
    <3>1. \A v \in S \ {u} : c.orders[v].quantity = b.orders[v].quantity
      BY <1>4 DEF Restrict
    <3>2. CASE u \in S
      <4>1. SharesOf(c.orders, S \ {u}) = SharesOf(b.orders, S) + -b.orders[u].quantity
        BY <1>5, <3>1, <3>2, SharesWithout, Zenon
      <4> QED
        BY <1>1, <3>2, <4>1
    <3>3. CASE u \notin S
      <4>1. S \ {u} = S
        BY <3>3
      <4>2. IsFiniteSet(S)
        BY <1>5, SharesType
      <4>3. SharesOf(c.orders, S) = SharesOf(b.orders, S)
        BY <3>1, <4>1, <4>2, SharesAgree
      <4> QED
        BY <3>3, <4>1, <4>3
    <3> QED
      BY <3>2, <3>3
  <2>2. ASSUME NEW t \in Side
        PROVE  c.volume[t] = SharesOf(c.orders, OrdersOn(c.orders, t))
    <3>1. PICK S \in SUBSET DOMAIN b.orders : S = OrdersOn(b.orders, t)
      BY DEF OrdersOn
    <3>2. OrdersOn(c.orders, t) = S \ {u} /\ (u \in S <=> t = s)
      BY <1>6, <1>7, <3>1
    <3>3. b.volume[t] = SharesOf(b.orders, S)
      BY <1>2, <3>1 DEF Counted
    <3>4. c.volume[t] = IF t = s THEN b.volume[t] + -n ELSE b.volume[t]
      BY <1>3, <1>4, <1>5
    <3> QED
      BY <2>1, <3>2, <3>3, <3>4
  <2>3. ASSUME NEW t \in Side, NEW r \in Prices
        PROVE  c.limit_volume[t][r] = SharesOf(c.orders, OrdersAt(c.orders, t, r))
    <3>1. PICK S \in SUBSET DOMAIN b.orders : S = OrdersAt(b.orders, t, r)
      BY DEF OrdersAt, OrdersOn
    <3>2. OrdersAt(c.orders, t, r) = S \ {u} /\ (u \in S <=> t = s /\ r = p)
      BY <1>6, <1>7, <3>1
    <3>3. b.limit_volume[t][r] = SharesOf(b.orders, S)
      BY <1>2, <3>1 DEF Counted
    <3>4. c.limit_volume[t][r] = IF t = s /\ r = p THEN b.limit_volume[t][r] + -n
                                                   ELSE b.limit_volume[t][r]
      BY <1>3, <1>4, <1>5
    <3> QED
      BY <2>1, <3>2, <3>3, <3>4
  <2> QED
    BY <2>2, <2>3 DEF Counted
<1>16. Uncrossed(c)
  BY <1>2, <1>11 DEF Uncrossed, Side
<1>17. Diminished(b, c)
  <2>1. ASSUME NEW t \in Side PROVE c.last_best[t] \in Limits(b, t) \cup {b.last_best[t]}
    <3>1. BestOf(c, t) # NoPrice => BestOf(c, t) \in Limits(c, t)
      BY BestProperties
    <3> QED
      BY <1>11, <1>13, <3>1
  <2>2. \A t \in Side, r \in Prices : Ascending(b.queue[t][r]) => Ascending(c.queue[t][r])
    BY <1>8, <1>9
  <2> QED
    BY <1>6, <1>11, <2>1, <2>2 DEF Diminished
<1> QED
  BY <1>4, <1>10, <1>14, <1>15, <1>16, <1>17 DEF BookOK, c

\* The shares of a set of orders of which one has changed.
LEMMA SharesChanged ==
    ASSUME NEW f \in Orders, NEW g \in Orders, NEW S \in SUBSET (DOMAIN f \cap DOMAIN g),
           NEW u \in S, NEW n \in Int, g[u].quantity = f[u].quantity + n,
           \A v \in S \ {u} : g[v].quantity = f[v].quantity
    PROVE  SharesOf(g, S) = SharesOf(f, S) + n
<1>1. S \subseteq DOMAIN f /\ S \subseteq DOMAIN g /\ S \ {u} \subseteq DOMAIN f
  OBVIOUS
<1>2. IsFiniteSet(S \ {u}) /\ SharesOf(f, S \ {u}) \in Int
  BY <1>1, SharesType
<1>3. SharesOf(g, S \ {u}) = SharesOf(f, S \ {u})
  BY <1>2, SharesAgree, Zenon
<1>4. SharesOf(f, S) = f[u].quantity + SharesOf(f, S \ {u})
  BY <1>1, SharesTake
<1>5. SharesOf(g, S) = g[u].quantity + SharesOf(g, S \ {u})
  BY <1>1, SharesTake
<1>6. f[u].quantity \in Nat
  BY OrdersDef DEF RestingOrder
<1> QED
  BY <1>2, <1>3, <1>4, <1>5, <1>6

\* Shrink, field by field.
LEMMA ShrinkFields ==
    ASSUME NEW b \in BookType, Linked(b), NEW u \in DOMAIN b.orders,
           NEW n \in 0..b.orders[u].quantity
    PROVE  LET c == Shrink(b, u, n)
               s == b.orders[u].side
               p == b.orders[u].price
           IN  /\ c \in BookType
               /\ c.orders = [b.orders EXCEPT ![u].quantity = @ - n]
               /\ c.queue = b.queue
               /\ c.best = b.best /\ c.last_best = b.last_best
               /\ c.limit_volume = [b.limit_volume EXCEPT ![s][p] = @ + -n]
               /\ c.volume = [b.volume EXCEPT ![s] = @ + -n]
<1> DEFINE s == b.orders[u].side
           p == b.orders[u].price
<1>1. /\ s \in Side /\ p \in Prices /\ b.orders[u].quantity \in Nat
      /\ b.orders[u] \in RestingOrder
  BY Queued
<1>2. n \in Nat /\ -n \in Int /\ b.orders[u].quantity - n \in Nat
  BY <1>1
<1> DEFINE d == [b EXCEPT !.orders[u].quantity = @ - n]
           c == AddVolume(d, s, p, -n)
<1>3. Shrink(b, u, n) = c
  BY DEF Shrink
<1>4. /\ d.orders = [b.orders EXCEPT ![u].quantity = @ - n]
      /\ d.queue = b.queue /\ d.best = b.best /\ d.last_best = b.last_best
      /\ d.limit_volume = b.limit_volume /\ d.volume = b.volume
  BY DEF BookType
<1>5. DOMAIN d = DOMAIN b /\ d = [i \in DOMAIN d |-> d[i]]
  OBVIOUS
<1> HIDE DEF s, p, d, c
<1>6. d \in BookType
  <2>1. /\ b.orders \in Orders /\ b.queue \in [Side -> [Prices -> Seq(Nat)]]
        /\ b.best \in [Side -> Prices \cup {NoPrice}] /\ b.last_best \in [Side -> Prices \cup {0}]
        /\ b.limit_volume \in [Side -> [Prices -> Int]] /\ b.volume \in [Side -> Int]
    BY DEF BookType
  <2>2. d.orders \in Orders
    <3>1. /\ b.orders \in [DOMAIN b.orders -> RestingOrder]
          /\ DOMAIN b.orders \subseteq Nat /\ IsFiniteSet(DOMAIN b.orders)
      BY <2>1, OrdersDef
    <3>2. [b.orders[u] EXCEPT !.quantity = @ - n] \in RestingOrder
      BY <1>1, <1>2 DEF RestingOrder
    <3>3. DOMAIN d.orders = DOMAIN b.orders /\ d.orders \in [DOMAIN b.orders -> RestingOrder]
      BY <1>4, <3>1, <3>2
    <3> QED
      BY <3>1, <3>3, OrdersDef
  <2> QED
    BY <1>4, <1>5, <2>1, <2>2, BookRecord
<1>7. /\ c \in BookType
      /\ c.orders = d.orders /\ c.queue = d.queue
      /\ c.best = d.best /\ c.last_best = d.last_best
      /\ c.limit_volume = [d.limit_volume EXCEPT ![s][p] = @ + -n]
      /\ c.volume = [d.volume EXCEPT ![s] = @ + -n]
  BY <1>1, <1>2, <1>6, AddVolumeFields DEF c
<1>8. /\ c \in BookType
      /\ c.orders = [b.orders EXCEPT ![u].quantity = @ - n]
      /\ c.queue = b.queue
      /\ c.best = b.best /\ c.last_best = b.last_best
      /\ c.limit_volume = [b.limit_volume EXCEPT ![s][p] = @ + -n]
      /\ c.volume = [b.volume EXCEPT ![s] = @ + -n]
  BY <1>4, <1>7
<1> QED
  BY <1>3, <1>8, Zenon DEF s, p

\* A partial fill keeps the book consistent.
LEMMA ShrinkKeeps ==
    ASSUME NEW b, BookOK(b), NEW u \in DOMAIN b.orders, NEW n \in 0..b.orders[u].quantity
    PROVE  BookOK(Shrink(b, u, n)) /\ Diminished(b, Shrink(b, u, n))
<1> DEFINE c == Shrink(b, u, n)
           s == b.orders[u].side
           p == b.orders[u].price
<1>1. s = b.orders[u].side /\ p = b.orders[u].price
  OBVIOUS
<1> HIDE DEF c, s, p
<1>2. b \in BookType /\ Linked(b) /\ Priced(b) /\ Counted(b) /\ Uncrossed(b)
  BY DEF BookOK
<1>3. s \in Side /\ p \in Prices /\ b.orders[u] \in RestingOrder /\ b.orders[u].quantity \in Nat
  BY <1>1, <1>2, Queued
<1>4. /\ c \in BookType
      /\ c.orders = [b.orders EXCEPT ![u].quantity = @ - n]
      /\ c.queue = b.queue
      /\ c.best = b.best /\ c.last_best = b.last_best
      /\ c.limit_volume = [b.limit_volume EXCEPT ![s][p] = @ + -n]
      /\ c.volume = [b.volume EXCEPT ![s] = @ + -n]
  <2>1. b \in BookType /\ Linked(b)
    BY <1>2
  <2> QED
    BY <2>1, ShrinkFields, ZenonT(60) DEF c, s, p
<1>5. /\ b.orders \in Orders /\ c.orders \in Orders
      /\ b.limit_volume \in [Side -> [Prices -> Int]] /\ b.volume \in [Side -> Int]
  BY <1>2, <1>4 DEF BookType
<1>6. /\ DOMAIN c.orders = DOMAIN b.orders
      /\ \A v \in DOMAIN b.orders : /\ c.orders[v].side = b.orders[v].side
                                    /\ c.orders[v].price = b.orders[v].price
                                    /\ v # u => c.orders[v].quantity = b.orders[v].quantity
      /\ c.orders[u].quantity = b.orders[u].quantity + -n
  <2>1. c.orders[u] = [b.orders[u] EXCEPT !.quantity = @ - n] /\ n \in Int
    BY <1>3, <1>4
  <2>2. /\ c.orders[u].side = b.orders[u].side /\ c.orders[u].price = b.orders[u].price
        /\ c.orders[u].quantity = b.orders[u].quantity + -n
    BY <1>3, <2>1 DEF RestingOrder
  <2>3. DOMAIN c.orders = DOMAIN b.orders /\ \A v \in DOMAIN b.orders : v # u => c.orders[v] = b.orders[v]
    BY <1>4
  <2> QED
    BY <2>2, <2>3
<1>7. /\ \A t \in Side : OrdersOn(c.orders, t) = OrdersOn(b.orders, t)
      /\ \A t \in Side, r \in Prices : OrdersAt(c.orders, t, r) = OrdersAt(b.orders, t, r)
  BY <1>6 DEF OrdersOn, OrdersAt
<1>8. /\ \A t \in Side : u \in OrdersOn(b.orders, t) <=> t = s
      /\ \A t \in Side, r \in Prices : u \in OrdersAt(b.orders, t, r) <=> t = s /\ r = p
  BY <1>1 DEF OrdersOn, OrdersAt
<1>9. Linked(c)
  BY <1>2, <1>4, <1>7 DEF Linked
<1>10. \A t \in Side : BestOf(c, t) = BestOf(b, t) /\ Limits(c, t) = Limits(b, t)
  BY <1>4, SameBest
<1>11. Priced(c)
  BY <1>2, <1>4, <1>10 DEF Priced
<1>12. Counted(c)
  <2>1. ASSUME NEW S \in SUBSET DOMAIN b.orders
        PROVE  SharesOf(c.orders, S) = IF u \in S THEN SharesOf(b.orders, S) + -n
                                                  ELSE SharesOf(b.orders, S)
    <3>1. \A v \in S \ {u} : c.orders[v].quantity = b.orders[v].quantity
      BY <1>6
    <3>2. CASE u \in S
      <4>1. S \in SUBSET (DOMAIN b.orders \cap DOMAIN c.orders) /\ -n \in Int
        BY <1>3, <1>6
      <4>2. SharesOf(c.orders, S) = SharesOf(b.orders, S) + -n
        BY <1>5, <1>6, <3>1, <3>2, <4>1, SharesChanged, Zenon
      <4> QED
        BY <3>2, <4>2
    <3>3. CASE u \notin S
      <4>1. IsFiniteSet(S) /\ S \ {u} = S
        BY <1>5, <3>3, SharesType
      <4>2. SharesOf(c.orders, S) = SharesOf(b.orders, S)
        BY <3>1, <4>1, SharesAgree
      <4> QED
        BY <3>3, <4>2
    <3> QED
      BY <3>2, <3>3
  <2>2. ASSUME NEW t \in Side
        PROVE  c.volume[t] = SharesOf(c.orders, OrdersOn(c.orders, t))
    <3>1. PICK S \in SUBSET DOMAIN b.orders : S = OrdersOn(b.orders, t)
      BY DEF OrdersOn
    <3>2. OrdersOn(c.orders, t) = S /\ (u \in S <=> t = s)
      BY <1>7, <1>8, <3>1
    <3>3. b.volume[t] = SharesOf(b.orders, S)
      BY <1>2, <3>1 DEF Counted
    <3>4. c.volume[t] = IF t = s THEN b.volume[t] + -n ELSE b.volume[t]
      BY <1>3, <1>4, <1>5
    <3> QED
      BY <2>1, <3>2, <3>3, <3>4
  <2>3. ASSUME NEW t \in Side, NEW r \in Prices
        PROVE  c.limit_volume[t][r] = SharesOf(c.orders, OrdersAt(c.orders, t, r))
    <3>1. PICK S \in SUBSET DOMAIN b.orders : S = OrdersAt(b.orders, t, r)
      BY DEF OrdersAt, OrdersOn
    <3>2. OrdersAt(c.orders, t, r) = S /\ (u \in S <=> t = s /\ r = p)
      BY <1>7, <1>8, <3>1
    <3>3. b.limit_volume[t][r] = SharesOf(b.orders, S)
      BY <1>2, <3>1 DEF Counted
    <3>4. c.limit_volume[t][r] = IF t = s /\ r = p THEN b.limit_volume[t][r] + -n
                                                   ELSE b.limit_volume[t][r]
      BY <1>3, <1>4, <1>5
    <3> QED
      BY <2>1, <3>2, <3>3, <3>4
  <2> QED
    BY <2>2, <2>3 DEF Counted
<1>13. Uncrossed(c)
  BY <1>2, <1>10 DEF Uncrossed, Side
<1>14. Diminished(b, c)
  BY <1>4, <1>6, <1>10 DEF Diminished
<1> QED
  BY <1>4, <1>9, <1>11, <1>12, <1>13, <1>14 DEF BookOK, c

\* LimitOrderBook::reduce keeps the book consistent.
LEMMA ReducedKeeps ==
    ASSUME NEW b, BookOK(b), NEW u \in DOMAIN b.orders, NEW n \in 0..b.orders[u].quantity
    PROVE  BookOK(Reduced(b, u, n)) /\ Diminished(b, Reduced(b, u, n))
  BY UnlinkKeeps, ShrinkKeeps DEF Reduced

\* A new order makes a map of orders.
LEMMA AddedOrders ==
    ASSUME NEW f \in Orders, NEW u \in Nat, NEW o \in RestingOrder
    PROVE  /\ Added(f, u, o) \in Orders
           /\ DOMAIN Added(f, u, o) = DOMAIN f \cup {u}
           /\ Added(f, u, o)[u] = o
           /\ \A v \in DOMAIN f : v # u => Added(f, u, o)[v] = f[v]
<1>1. f \in [DOMAIN f -> RestingOrder] /\ DOMAIN f \subseteq Nat /\ IsFiniteSet(DOMAIN f)
  BY OrdersDef
<1>2. IsFiniteSet(DOMAIN f \cup {u})
  BY <1>1, FS_AddElement
<1>3. /\ DOMAIN Added(f, u, o) = DOMAIN f \cup {u}
      /\ Added(f, u, o) \in [DOMAIN f \cup {u} -> RestingOrder]
      /\ Added(f, u, o)[u] = o
      /\ \A v \in DOMAIN f : v # u => Added(f, u, o)[v] = f[v]
  BY <1>1 DEF Added
<1>4. DOMAIN f \cup {u} \subseteq Nat
  BY <1>1
<1> QED
  BY <1>2, <1>3, <1>4, OrdersDef

\* What DLL::append makes of a queue.
LEMMA AppendedQueue ==
    ASSUME NEW q \in Seq(Nat), IsInjective(q), NEW u \in Nat, u \notin Range(q)
    PROVE  /\ Append(q, u) \in Seq(Nat) /\ Append(q, u) # << >>
           /\ IsInjective(Append(q, u))
           /\ Range(Append(q, u)) = Range(q) \cup {u}
           /\ Ascending(q) /\ (\A v \in Range(q) : v < u) => Ascending(Append(q, u))
<1> DEFINE r == Append(q, u)
           n == Len(q)
<1>1. /\ n \in Nat /\ DOMAIN q = 1..n
      /\ r \in Seq(Nat) /\ Len(r) = n + 1 /\ DOMAIN r = 1..(n + 1) /\ r # << >>
      /\ r[n + 1] = u /\ \A i \in 1..n : r[i] = q[i]
  <2>1. /\ n \in Nat /\ DOMAIN q = 1..n /\ r \in Seq(Nat) /\ Len(r) = n + 1
        /\ r[n + 1] = u /\ \A i \in 1..n : r[i] = q[i]
    OBVIOUS
  <2>2. DOMAIN r = 1..Len(r)
    BY <2>1
  <2>3. r # << >>
    BY <2>1
  <2> QED
    BY <2>1, <2>2, <2>3
<1> HIDE DEF r, n
<1>2. \A i \in 1..(n + 1) : i \in 1..n \/ i = n + 1
  BY <1>1
<1>3. \A i \in 1..n : i # n + 1 /\ i \in 1..(n + 1) /\ i < n + 1 /\ n + 1 \in 1..(n + 1)
  BY <1>1
<1>4. \A i \in 1..n : q[i] # u
  BY <1>1 DEF Range
<1>5. IsInjective(r)
  BY <1>1, <1>2, <1>4 DEF IsInjective
<1>6. Range(r) = Range(q) \cup {u}
  <2>1. ASSUME NEW x \in Range(r) PROVE x \in Range(q) \cup {u}
    BY <1>1, <1>2 DEF Range
  <2>2. ASSUME NEW x \in Range(q) \cup {u} PROVE x \in Range(r)
    <3>1. CASE x = u
      <4>1. n + 1 \in 1..(n + 1)
        BY <1>1
      <4> QED
        BY <1>1, <3>1, <4>1 DEF Range
    <3>2. CASE x \in Range(q)
      BY <1>1, <1>3, <3>2 DEF Range
    <3> QED
      BY <3>1, <3>2
  <2> QED
    BY <2>1, <2>2
<1>7. ASSUME Ascending(q), \A v \in Range(q) : v < u PROVE Ascending(r)
  <2> SUFFICES ASSUME NEW i \in 1..(n + 1), NEW j \in 1..(n + 1), i < j PROVE r[i] < r[j]
    BY <1>1 DEF Ascending
  <2>1. i \in 1..n
    BY <1>1
  <2>2. CASE j \in 1..n
    <3>1. q[i] < q[j]
      BY <1>7, <2>1, <2>2 DEF Ascending, n
    <3> QED
      BY <1>1, <2>1, <2>2, <3>1
  <2>3. CASE j = n + 1
    <3>1. q[i] \in Range(q)
      BY <1>1, <2>1 DEF Range
    <3> QED
      BY <1>1, <1>7, <2>1, <2>3, <3>1
  <2> QED
    BY <1>2, <2>2, <2>3
<1> QED
  BY <1>1, <1>5, <1>6, <1>7 DEF r

\* Book c is book b with the new order u at rest.
Rested(b, u, o, c) ==
    /\ c \in BookType
    /\ c.orders = Added(b.orders, u, o)
    /\ c.queue = [b.queue EXCEPT ![o.side][o.price] = Append(@, u)]
    /\ c.best = [b.best EXCEPT ![o.side] = BestOf(c, o.side)]
    /\ c.last_best = [b.last_best EXCEPT ![o.side] = IF BestOf(c, o.side) # NoPrice
                                                     THEN BestOf(c, o.side) ELSE @]
    /\ c.limit_volume = [b.limit_volume EXCEPT ![o.side][o.price] = @ + o.quantity]
    /\ c.volume = [b.volume EXCEPT ![o.side] = @ + o.quantity]

\* LimitTree::limit of an order of the map, field by field.
LEMMA RestOf ==
    ASSUME NEW k \in BookType, NEW u \in DOMAIN k.orders
    PROVE  LET o == k.orders[u]
               c == Rest(k, u)
           IN  /\ c \in BookType
               /\ c.orders = k.orders
               /\ c.queue = [k.queue EXCEPT ![o.side][o.price] = Append(@, u)]
               /\ c.best = [k.best EXCEPT ![o.side] = BestOf(c, o.side)]
               /\ c.last_best = [k.last_best EXCEPT ![o.side] = IF BestOf(c, o.side) # NoPrice
                                                                THEN BestOf(c, o.side) ELSE @]
               /\ c.limit_volume = [k.limit_volume EXCEPT ![o.side][o.price] = @ + o.quantity]
               /\ c.volume = [k.volume EXCEPT ![o.side] = @ + o.quantity]
<1> DEFINE o == k.orders[u]
           s == o.side
           p == o.price
           n == o.quantity
           d == [k EXCEPT !.queue[s][p] = Append(@, u)]
           e == AddVolume(d, s, p, n)
           c == SetBest(e, s)
<1>1. /\ k.orders \in Orders /\ k.queue \in [Side -> [Prices -> Seq(Nat)]]
      /\ k.best \in [Side -> Prices \cup {NoPrice}] /\ k.last_best \in [Side -> Prices \cup {0}]
      /\ k.limit_volume \in [Side -> [Prices -> Int]] /\ k.volume \in [Side -> Int]
  BY DEF BookType
<1>2. u \in Nat /\ s \in Side /\ p \in Prices /\ n \in Nat /\ n \in Int
  BY <1>1, OrdersDef DEF RestingOrder
<1>3. Rest(k, u) = c
  BY DEF Rest
<1>4. /\ d.orders = k.orders
      /\ d.queue = [k.queue EXCEPT ![s][p] = Append(@, u)]
      /\ d.best = k.best /\ d.last_best = k.last_best
      /\ d.limit_volume = k.limit_volume /\ d.volume = k.volume
      /\ DOMAIN d = DOMAIN k /\ d = [i \in DOMAIN d |-> d[i]]
  BY DEF BookType
<1> HIDE DEF o, s, p, n, d, e, c
<1>5. d \in BookType
  <2>1. d.queue \in [Side -> [Prices -> Seq(Nat)]]
    BY <1>1, <1>2, <1>4
  <2> QED
    BY <1>1, <1>4, <2>1, BookRecord
<1>6. /\ e \in BookType
      /\ e.orders = d.orders /\ e.queue = d.queue
      /\ e.best = d.best /\ e.last_best = d.last_best
      /\ e.limit_volume = [d.limit_volume EXCEPT ![s][p] = @ + n]
      /\ e.volume = [d.volume EXCEPT ![s] = @ + n]
  <2>1. d \in BookType /\ s \in Side /\ p \in Prices /\ n \in Int
    BY <1>2, <1>5
  <2> QED
    <3>1. PICK x \in BookType, t \in Side, z \in Prices, m \in Int :
             x = d /\ t = s /\ z = p /\ m = n
      BY <2>1
    <3>2. LET g == AddVolume(x, t, z, m)
          IN  /\ g \in BookType
              /\ g.orders = x.orders /\ g.queue = x.queue
              /\ g.best = x.best /\ g.last_best = x.last_best
              /\ g.limit_volume = [x.limit_volume EXCEPT ![t][z] = @ + m]
              /\ g.volume = [x.volume EXCEPT ![t] = @ + m]
      BY ONLY AddVolumeFields
    <3> QED
      BY <3>1, <3>2, Zenon DEF e
<1>7. /\ c \in BookType
      /\ c.orders = e.orders /\ c.queue = e.queue
      /\ c.limit_volume = e.limit_volume /\ c.volume = e.volume
      /\ c.best = [e.best EXCEPT ![s] = BestOf(e, s)]
      /\ c.last_best = [e.last_best EXCEPT ![s] = IF BestOf(e, s) # NoPrice
                                                  THEN BestOf(e, s) ELSE @]
  <2>1. e \in BookType /\ s \in Side
    BY <1>2, <1>6
  <2> QED
    BY ONLY <2>1, SetBestFields, Zenon DEF c
<1>8. BestOf(e, s) = BestOf(c, s)
  BY <1>7, SameBest
<1>9. /\ c \in BookType
      /\ c.orders = k.orders
      /\ c.queue = [k.queue EXCEPT ![s][p] = Append(@, u)]
      /\ c.best = [k.best EXCEPT ![s] = BestOf(c, s)]
      /\ c.last_best = [k.last_best EXCEPT ![s] = IF BestOf(c, s) # NoPrice
                                                  THEN BestOf(c, s) ELSE @]
      /\ c.limit_volume = [k.limit_volume EXCEPT ![s][p] = @ + n]
      /\ c.volume = [k.volume EXCEPT ![s] = @ + n]
  BY <1>4, <1>6, <1>7, <1>8
<1> QED
  BY <1>3, <1>9, Zenon DEF o, s, p, n

\* LimitTree::limit of an order that has just been put into the map.
LEMMA RestFields ==
    ASSUME NEW b \in BookType, Linked(b), NEW u \in Nat, u \notin DOMAIN b.orders,
           NEW o \in RestingOrder
    PROVE  Rested(b, u, o, Rest(Kept(b, u, o), u))
<1> DEFINE k == Kept(b, u, o)
<1>1. /\ k.orders = Added(b.orders, u, o) /\ k.queue = b.queue
      /\ k.best = b.best /\ k.last_best = b.last_best
      /\ k.limit_volume = b.limit_volume /\ k.volume = b.volume
      /\ DOMAIN k = DOMAIN b /\ k = [i \in DOMAIN k |-> k[i]]
  BY DEF BookType, Kept, Added
<1>2. b.orders \in Orders
  BY DEF BookType
<1>3. k.orders \in Orders /\ u \in DOMAIN k.orders /\ k.orders[u] = o
  <2>1. /\ Added(b.orders, u, o) \in Orders /\ Added(b.orders, u, o)[u] = o
    BY ONLY <1>2, AddedOrders
  <2>2. u \in DOMAIN Added(b.orders, u, o)
    BY DEF Added
  <2> QED
    BY <1>1, <2>1, <2>2
<1> HIDE DEF k
<1>4. k \in BookType
  <2>1. /\ b.queue \in [Side -> [Prices -> Seq(Nat)]]
        /\ b.best \in [Side -> Prices \cup {NoPrice}] /\ b.last_best \in [Side -> Prices \cup {0}]
        /\ b.limit_volume \in [Side -> [Prices -> Int]] /\ b.volume \in [Side -> Int]
    BY DEF BookType
  <2> QED
    BY <1>1, <1>3, <2>1, BookRecord
<1> DEFINE c == Rest(k, u)
<1>5. /\ c \in BookType
      /\ c.orders = k.orders
      /\ c.queue = [k.queue EXCEPT ![o.side][o.price] = Append(@, u)]
      /\ c.best = [k.best EXCEPT ![o.side] = BestOf(c, o.side)]
      /\ c.last_best = [k.last_best EXCEPT ![o.side] = IF BestOf(c, o.side) # NoPrice
                                                       THEN BestOf(c, o.side) ELSE @]
      /\ c.limit_volume = [k.limit_volume EXCEPT ![o.side][o.price] = @ + o.quantity]
      /\ c.volume = [k.volume EXCEPT ![o.side] = @ + o.quantity]
  <2>1. PICK a : a = k.orders[u]
    OBVIOUS
  <2> HIDE DEF c
  <2>2. /\ c \in BookType
        /\ c.orders = k.orders
        /\ c.queue = [k.queue EXCEPT ![a.side][a.price] = Append(@, u)]
        /\ c.best = [k.best EXCEPT ![a.side] = BestOf(c, a.side)]
        /\ c.last_best = [k.last_best EXCEPT ![a.side] = IF BestOf(c, a.side) # NoPrice
                                                         THEN BestOf(c, a.side) ELSE @]
        /\ c.limit_volume = [k.limit_volume EXCEPT ![a.side][a.price] = @ + a.quantity]
        /\ c.volume = [k.volume EXCEPT ![a.side] = @ + a.quantity]
    BY <1>3, <1>4, <2>1, RestOf, Zenon DEF c
  <2>3. a = o
    BY <1>3, <2>1
  <2> QED
    BY <2>2, <2>3, Zenon
<1> HIDE DEF c
<1>6. /\ c \in BookType
      /\ c.orders = Added(b.orders, u, o)
      /\ c.queue = [b.queue EXCEPT ![o.side][o.price] = Append(@, u)]
      /\ c.best = [b.best EXCEPT ![o.side] = BestOf(c, o.side)]
      /\ c.last_best = [b.last_best EXCEPT ![o.side] = IF BestOf(c, o.side) # NoPrice
                                                       THEN BestOf(c, o.side) ELSE @]
      /\ c.limit_volume = [b.limit_volume EXCEPT ![o.side][o.price] = @ + o.quantity]
      /\ c.volume = [b.volume EXCEPT ![o.side] = @ + o.quantity]
  BY <1>1, <1>5, Zenon
<1> QED
  BY <1>6, Zenon DEF c, k, Rested

\* LimitTree::limit of an order that is in its list already: the volumes are wrong and
\* the list is none, but the prices stay as they are.
LEMMA RestTwice ==
    ASSUME NEW b, BookOK(b), NEW u \in DOMAIN b.orders
    PROVE  /\ TopOK(Rest(b, u))
           /\ \A s \in Side : Rest(b, u).last_best[s] = b.last_best[s]
<1> DEFINE c == Rest(b, u)
<1>1. b \in BookType /\ Linked(b) /\ Priced(b) /\ Uncrossed(b)
  BY DEF BookOK
<1>2. PICK s \in Side, p \in Prices : s = b.orders[u].side /\ p = b.orders[u].price
  <2>1. b.orders \in Orders
    BY <1>1 DEF BookType
  <2> QED
    BY <2>1, OrdersDef DEF RestingOrder
<1>3. /\ c \in BookType /\ c.queue = [b.queue EXCEPT ![s][p] = Append(@, u)]
      /\ c.best = [b.best EXCEPT ![s] = BestOf(c, s)]
      /\ c.last_best = [b.last_best EXCEPT ![s] = IF BestOf(c, s) # NoPrice
                                                  THEN BestOf(c, s) ELSE @]
  <2>1. PICK a : a = b.orders[u]
    OBVIOUS
  <2> HIDE DEF c
  <2>2. /\ c \in BookType
        /\ c.queue = [b.queue EXCEPT ![a.side][a.price] = Append(@, u)]
        /\ c.best = [b.best EXCEPT ![a.side] = BestOf(c, a.side)]
        /\ c.last_best = [b.last_best EXCEPT ![a.side] = IF BestOf(c, a.side) # NoPrice
                                                         THEN BestOf(c, a.side) ELSE @]
    BY <1>1, <2>1, RestOf, Zenon DEF c
  <2>3. a.side = s /\ a.price = p
    BY <1>2, <2>1
  <2> QED
    BY <2>2, <2>3, Zenon
<1> HIDE DEF c
<1>4. \A t \in Side, r \in Prices : b.queue[t][r] \in Seq(Nat)
  BY <1>1 DEF BookType
<1>5. b.queue[s][p] # << >>
  <2>1. u \in Range(b.queue[s][p])
    BY <1>1, <1>2 DEF Linked, OrdersAt, OrdersOn
  <2> QED
    BY <2>1 DEF Range
<1>6. \A t \in Side, r \in Prices : c.queue[t][r] = << >> <=> b.queue[t][r] = << >>
  <2>1. Append(b.queue[s][p], u) # << >>
    <3>1. u \in Nat
      BY <1>1, OrdersDef DEF BookType
    <3> QED
      BY <1>4, <3>1, AppendProperties
  <2>2. \A t \in Side, r \in Prices :
           c.queue[t][r] = IF t = s /\ r = p THEN Append(b.queue[t][r], u) ELSE b.queue[t][r]
    <3>1. b.queue \in [Side -> [Prices -> Seq(Nat)]]
      BY <1>1 DEF BookType
    <3>2. c.queue = [b.queue EXCEPT ![s][p] = Append(@, u)]
      BY <1>3
    <3> QED
      BY ONLY <3>1, <3>2
  <2> QED
    BY <1>5, <2>1, <2>2
<1>7. \A t \in Side : Limits(c, t) = Limits(b, t)
  BY <1>6 DEF Limits
<1>8. \A t \in Side : BestOf(c, t) = BestOf(b, t)
  BY <1>7 DEF BestOf
<1>9. BestOf(b, s) # NoPrice /\ b.best[s] = BestOf(b, s) /\ b.last_best[s] = b.best[s]
  <2>1. p \in Limits(b, s)
    BY <1>5 DEF Limits
  <2> QED
    BY <1>1, <2>1, BestProperties DEF Priced
<1>10. b.best \in [Side -> Prices \cup {NoPrice}] /\ b.last_best \in [Side -> Prices \cup {0}]
  BY <1>1 DEF BookType
<1>11. \A t \in Side : c.best[t] = b.best[t] /\ c.last_best[t] = b.last_best[t]
  BY <1>3, <1>8, <1>9, <1>10
<1>12. Priced(c)
  BY <1>1, <1>8, <1>11 DEF Priced
<1>13. Uncrossed(c)
  BY <1>1, <1>7 DEF Uncrossed, Side
<1> QED
  BY <1>3, <1>11, <1>12, <1>13 DEF TopOK, c

\* The shares of a set of orders and a new one.
LEMMA SharesWith ==
    ASSUME NEW f, NEW g \in Orders, NEW S \in SUBSET DOMAIN g, NEW u \in DOMAIN g, u \notin S,
           \A v \in S : g[v].quantity = f[v].quantity
    PROVE  SharesOf(g, S \cup {u}) = SharesOf(f, S) + g[u].quantity
<1>1. /\ S \subseteq DOMAIN g /\ S \cup {u} \subseteq DOMAIN g /\ u \in S \cup {u}
      /\ (S \cup {u}) \ {u} = S
  OBVIOUS
<1>2. IsFiniteSet(S) /\ SharesOf(g, S) \in Int
  BY <1>1, SharesType
<1>3. SharesOf(g, S) = SharesOf(f, S)
  BY <1>2, SharesAgree
<1>4. SharesOf(g, S \cup {u}) = g[u].quantity + SharesOf(g, (S \cup {u}) \ {u})
  BY <1>1, SharesTake
<1>5. g[u].quantity \in Nat
  BY OrdersDef DEF RestingOrder
<1>6. SharesOf(g, S \cup {u}) = g[u].quantity + SharesOf(f, S)
  BY <1>1, <1>3, <1>4
<1>7. SharesOf(f, S) \in Int
  BY <1>2, <1>3
<1> QED
  BY <1>5, <1>6, <1>7

\* LimitTree::limit keeps the book consistent, when no order of the other side meets
\* the new one.
LEMMA RestKeeps ==
    ASSUME NEW b, BookOK(b), NEW u \in Nat, u \notin DOMAIN b.orders, NEW o \in RestingOrder,
           \A r \in Limits(b, Opposite(o.side)) : ~Meets(o.side, o.price, r)
    PROVE  LET c == Rest(Kept(b, u, o), u)
           IN  /\ BookOK(c)
               /\ c.orders = Added(b.orders, u, o)
               /\ c.best[o.side] # NoPrice
               /\ \A t \in Side : t # o.side => c.last_best[t] = b.last_best[t]
               /\ \A t \in Side, r \in Prices :
                     c.queue[t][r] = IF t = o.side /\ r = o.price THEN Append(b.queue[t][r], u)
                                     ELSE b.queue[t][r]
<1> DEFINE c == Rest(Kept(b, u, o), u)
           s == o.side
           p == o.price
           n == o.quantity
<1>1. s = o.side /\ p = o.price /\ n = o.quantity
  OBVIOUS
<1> HIDE DEF c, s, p, n
<1>2. b \in BookType /\ Linked(b) /\ Priced(b) /\ Counted(b) /\ Uncrossed(b)
  BY DEF BookOK
<1>3. s \in Side /\ p \in Prices /\ n \in Nat
  BY <1>1 DEF RestingOrder
<1>4. /\ c \in BookType
      /\ c.orders = Added(b.orders, u, o)
      /\ c.queue = [b.queue EXCEPT ![s][p] = Append(@, u)]
      /\ c.best = [b.best EXCEPT ![s] = BestOf(c, s)]
      /\ c.last_best = [b.last_best EXCEPT ![s] = IF BestOf(c, s) # NoPrice
                                                  THEN BestOf(c, s) ELSE @]
      /\ c.limit_volume = [b.limit_volume EXCEPT ![s][p] = @ + n]
      /\ c.volume = [b.volume EXCEPT ![s] = @ + n]
  <2>1. b \in BookType /\ Linked(b) /\ u \notin DOMAIN b.orders
    BY <1>2
  <2>2. Rested(b, u, o, c)
    BY ONLY <2>1, RestFields DEF c
  <2> QED
    BY <2>2, Zenon DEF s, p, n, Rested
<1>5. /\ b.orders \in Orders /\ c.orders \in Orders
      /\ b.queue \in [Side -> [Prices -> Seq(Nat)]]
      /\ b.best \in [Side -> Prices \cup {NoPrice}] /\ b.last_best \in [Side -> Prices \cup {0}]
      /\ b.limit_volume \in [Side -> [Prices -> Int]] /\ b.volume \in [Side -> Int]
  BY <1>2, <1>4 DEF BookType
<1>6. /\ DOMAIN c.orders = DOMAIN b.orders \cup {u}
      /\ c.orders[u] = o
      /\ \A v \in DOMAIN b.orders : c.orders[v] = b.orders[v]
  BY <1>4 DEF Added
<1>7. /\ \A t \in Side : OrdersOn(c.orders, t) = IF t = s THEN OrdersOn(b.orders, t) \cup {u}
                                                 ELSE OrdersOn(b.orders, t)
      /\ \A t \in Side, r \in Prices :
            OrdersAt(c.orders, t, r) = IF t = s /\ r = p THEN OrdersAt(b.orders, t, r) \cup {u}
                                       ELSE OrdersAt(b.orders, t, r)
  BY <1>1, <1>6, SMTT(30) DEF OrdersOn, OrdersAt
<1>8. \A t \in Side, r \in Prices :
         c.queue[t][r] = IF t = s /\ r = p THEN Append(b.queue[t][r], u) ELSE b.queue[t][r]
  BY <1>3, <1>4, <1>5
<1>9. /\ Append(b.queue[s][p], u) # << >>
      /\ IsInjective(Append(b.queue[s][p], u))
      /\ Range(Append(b.queue[s][p], u)) = Range(b.queue[s][p]) \cup {u}
  <2>1. b.queue[s][p] \in Seq(Nat) /\ IsInjective(b.queue[s][p])
    BY <1>2, <1>3, <1>5 DEF Linked
  <2>2. Range(b.queue[s][p]) = OrdersAt(b.orders, s, p)
    BY <1>2, <1>3 DEF Linked
  <2>3. u \notin Range(b.queue[s][p])
    BY <2>2 DEF OrdersAt, OrdersOn
  <2> QED
    BY <2>1, <2>3, AppendedQueue
<1>10. Linked(c)
  <2> SUFFICES ASSUME NEW t \in Side, NEW r \in Prices
               PROVE  /\ Range(c.queue[t][r]) = OrdersAt(c.orders, t, r)
                      /\ IsInjective(c.queue[t][r])
    BY DEF Linked
  <2>1. Range(b.queue[t][r]) = OrdersAt(b.orders, t, r) /\ IsInjective(b.queue[t][r])
    BY <1>2 DEF Linked
  <2>2. CASE t = s /\ r = p
    BY <1>7, <1>8, <1>9, <2>1, <2>2
  <2>3. CASE ~(t = s /\ r = p)
    BY <1>7, <1>8, <2>1, <2>3
  <2> QED
    BY <2>2, <2>3
<1>11. /\ Limits(c, s) = Limits(b, s) \cup {p}
       /\ \A t \in Side : t # s => Limits(c, t) = Limits(b, t) /\ BestOf(c, t) = BestOf(b, t)
  <2>1. Limits(c, s) = Limits(b, s) \cup {p}
    BY <1>3, <1>8, <1>9 DEF Limits
  <2>2. \A t \in Side : t # s => Limits(c, t) = Limits(b, t) /\ BestOf(c, t) = BestOf(b, t)
    BY <1>8, SameBest
  <2> QED
    BY <2>1, <2>2
<1>12. BestOf(c, s) # NoPrice
  BY <1>3, <1>11, BestProperties
<1>13. \A t \in Side :
          /\ c.best[t] = BestOf(c, t)
          /\ c.last_best[t] = IF t = s THEN BestOf(c, t) ELSE b.last_best[t]
  <2> SUFFICES ASSUME NEW t \in Side
               PROVE  /\ c.best[t] = BestOf(c, t)
                      /\ c.last_best[t] = IF t = s THEN BestOf(c, t) ELSE b.last_best[t]
    OBVIOUS
  <2>1. CASE t = s
    BY <1>3, <1>4, <1>5, <1>12, <2>1
  <2>2. CASE t # s
    <3>1. c.best[t] = b.best[t] /\ c.last_best[t] = b.last_best[t]
      BY <1>3, <1>4, <1>5, <2>2
    <3>2. b.best[t] = BestOf(b, t)
      BY <1>2 DEF Priced
    <3> QED
      BY <1>11, <2>2, <3>1, <3>2
  <2> QED
    BY <2>1, <2>2
<1>14. Priced(c)
  BY <1>2, <1>11, <1>13 DEF Priced
<1>15. Counted(c)
  <2>1. ASSUME NEW S \in SUBSET DOMAIN b.orders
        PROVE  /\ SharesOf(c.orders, S) = SharesOf(b.orders, S)
               /\ SharesOf(c.orders, S \cup {u}) = SharesOf(b.orders, S) + n
    <3>1. \A v \in S : c.orders[v].quantity = b.orders[v].quantity
      BY <1>6
    <3>2. IsFiniteSet(S)
      BY <1>5, SharesType
    <3>3. c.orders \in Orders /\ S \in SUBSET DOMAIN c.orders /\ u \in DOMAIN c.orders /\ u \notin S
      BY <1>5, <1>6
    <3>4. SharesOf(c.orders, S \cup {u}) = SharesOf(b.orders, S) + c.orders[u].quantity
      BY ONLY <3>1, <3>3, SharesWith
    <3> QED
      BY <1>1, <1>6, <3>1, <3>2, <3>4, SharesAgree
  <2>2. ASSUME NEW t \in Side
        PROVE  c.volume[t] = SharesOf(c.orders, OrdersOn(c.orders, t))
    <3>1. PICK S \in SUBSET DOMAIN b.orders : S = OrdersOn(b.orders, t)
      BY DEF OrdersOn
    <3>2. OrdersOn(c.orders, t) = IF t = s THEN S \cup {u} ELSE S
      BY <1>7, <3>1
    <3>3. b.volume[t] = SharesOf(b.orders, S)
      BY <1>2, <3>1 DEF Counted
    <3>4. c.volume[t] = IF t = s THEN b.volume[t] + n ELSE b.volume[t]
      BY <1>3, <1>4, <1>5
    <3> QED
      BY <2>1, <3>2, <3>3, <3>4
  <2>3. ASSUME NEW t \in Side, NEW r \in Prices
        PROVE  c.limit_volume[t][r] = SharesOf(c.orders, OrdersAt(c.orders, t, r))
    <3>1. PICK S \in SUBSET DOMAIN b.orders : S = OrdersAt(b.orders, t, r)
      BY DEF OrdersAt, OrdersOn
    <3>2. OrdersAt(c.orders, t, r) = IF t = s /\ r = p THEN S \cup {u} ELSE S
      BY <1>7, <3>1
    <3>3. b.limit_volume[t][r] = SharesOf(b.orders, S)
      BY <1>2, <3>1 DEF Counted
    <3>4. c.limit_volume[t][r] = IF t = s /\ r = p THEN b.limit_volume[t][r] + n
                                                   ELSE b.limit_volume[t][r]
      BY <1>3, <1>4, <1>5
    <3> QED
      BY <2>1, <3>2, <3>3, <3>4
  <2> QED
    BY <2>2, <2>3 DEF Counted
<1>16. Uncrossed(c)
  <2>1. \A q \in Prices : q \in Nat
    BY PriceNumbers
  <2>2. \A t \in Side : \A r \in Limits(c, t) : r \in Nat
    BY <2>1 DEF Limits
  <2> SUFFICES ASSUME NEW q \in Limits(c, "Buy"), NEW r \in Limits(c, "Sell") PROVE q < r
    BY DEF Uncrossed
  <2>3. CASE s = "Buy"
    <3>1. r \in Limits(b, "Sell") /\ (q \in Limits(b, "Buy") \/ q = p)
      BY <1>11, <2>3 DEF Side
    <3>2. ~Meets("Buy", p, r)
      BY <1>1, <2>3, <3>1 DEF Opposite
    <3>3. q \in Nat /\ r \in Nat
      BY <2>2 DEF Side
    <3> QED
      BY <1>2, <3>1, <3>2, <3>3 DEF Uncrossed, Meets
  <2>4. CASE s = "Sell"
    <3>1. q \in Limits(b, "Buy") /\ (r \in Limits(b, "Sell") \/ r = p)
      BY <1>11, <2>4 DEF Side
    <3>2. ~Meets("Sell", p, q)
      BY <1>1, <2>4, <3>1 DEF Opposite
    <3>3. q \in Nat /\ r \in Nat
      BY <2>2 DEF Side
    <3> QED
      BY <1>2, <3>1, <3>2, <3>3 DEF Uncrossed, Meets
  <2> QED
    BY <1>3, <2>3, <2>4 DEF Side
<1>17. BookOK(c) /\ c.orders = Added(b.orders, u, o) /\ c.best[s] # NoPrice
  BY <1>3, <1>4, <1>10, <1>12, <1>13, <1>14, <1>15, <1>16 DEF BookOK
<1>18. \A t \in Side : t # s => c.last_best[t] = b.last_best[t]
  BY <1>13
<1> QED
  BY <1>8, <1>17, <1>18 DEF c, s, p

-----------------------------------------------------------------------------
(* The loop of LimitTree::market                                           *)

\* A book that has come from b in two stages has come from b.
LEMMA DiminishedTwice ==
    ASSUME NEW b, NEW c, NEW d, Diminished(b, c), Diminished(c, d)
    PROVE  Diminished(b, d)
  BY SMTT(30) DEF Diminished

\* What has been done for order o, to book b, when the loop has at most k passes to go.
Running(b, o, k, r) ==
    /\ BookOK(r.book) /\ Diminished(b, r.book)
    /\ r.order \in LiveOrder /\ r.order.side = o.side /\ r.order.price = o.price
    /\ r.done \in BOOLEAN /\ (r.done => r.order.quantity = 0)
    /\ ~r.done /\ CanMatch(r.book, r.order) => Cardinality(DOMAIN r.book.orders) <= k

\* The order that a pass matches is the first one at the best price.
LEMMA FirstOpponent ==
    ASSUME NEW b, BookOK(b), NEW t \in Side, b.best[t] # NoPrice
    PROVE  /\ b.best[t] \in Limits(b, t)
           /\ Head(b.queue[t][b.best[t]]) \in DOMAIN b.orders
           /\ b.orders[Head(b.queue[t][b.best[t]])].side = t
           /\ b.orders[Head(b.queue[t][b.best[t]])].price = b.best[t]
           /\ b.orders[Head(b.queue[t][b.best[t]])].quantity \in Nat
<1>1. b \in BookType /\ Linked(b) /\ b.best[t] = BestOf(b, t)
  BY DEF BookOK, Priced
<1>2. b.best[t] \in Limits(b, t)
  BY <1>1, BestProperties
<1>3. PICK u : u = Head(b.queue[t][b.best[t]])
  OBVIOUS
<1>4. u \in DOMAIN b.orders /\ b.orders[u].side = t /\ b.orders[u].price = b.best[t]
  BY <1>1, <1>2, <1>3, Mapped
<1>5. b.orders[u].quantity \in Nat
  BY <1>1, <1>4, Queued
<1> QED
  BY <1>2, <1>3, <1>4, <1>5

\* Removing an order leaves one order less.
LEMMA UnlinkCount ==
    ASSUME NEW b, BookOK(b), NEW u \in DOMAIN b.orders
    PROVE  /\ Cardinality(DOMAIN b.orders) \in Nat
           /\ Cardinality(DOMAIN Unlink(b, u).orders) = Cardinality(DOMAIN b.orders) - 1
<1>1. b \in BookType /\ Linked(b)
  BY DEF BookOK
<1>2. Unlink(b, u).orders = Restrict(b.orders, DOMAIN b.orders \ {u})
  BY <1>1, UnlinkFields
<1>3. DOMAIN Unlink(b, u).orders = DOMAIN b.orders \ {u}
  BY <1>2 DEF Restrict
<1>4. b.orders \in Orders
  BY <1>1 DEF BookType
<1>5. IsFiniteSet(DOMAIN b.orders)
  BY <1>4, OrdersDef
<1> QED
  BY <1>3, <1>5, FS_RemoveElement, FS_CardinalityType

\* A loop that has ended stays as it is.
LEMMA MatchEnded ==
    ASSUME NEW r, NEW i, r.done \/ ~CanMatch(r.book, r.order)
    PROVE  Match(r, i) = r
  BY Zenon DEF Match

\* What a pass makes of r, by whether order u, the opponent, has the shares.
Passed(r, u, n, q, m) ==
    /\ n >= q => m = [book  |-> Reduced(r.book, u, q),
                      order |-> [r.order EXCEPT !.quantity = 0],
                      done  |-> TRUE]
    /\ ~(n >= q) => m = [book  |-> Unlink(r.book, u),
                         order |-> [r.order EXCEPT !.quantity = q - n],
                         done  |-> FALSE]

\* A pass, while the loop runs.
LEMMA MatchGoes ==
    ASSUME NEW r, NEW i, ~r.done, CanMatch(r.book, r.order),
           NEW t, t = Opposite(r.order.side), NEW u, u = Head(r.book.queue[t][r.book.best[t]]),
           NEW n \in Nat, n = r.book.orders[u].quantity,
           NEW q \in Nat, q = r.order.quantity
    PROVE  Passed(r, u, n, q, Match(r, i))
<1>1. Match(r, i) = [book  |-> IF n >= q THEN Reduced(r.book, u, q) ELSE Unlink(r.book, u),
                     order |-> [r.order EXCEPT !.quantity = IF n >= q THEN 0 ELSE q - n],
                     done  |-> n >= q]
  BY Zenon DEF Match
<1>2. ASSUME n >= q PROVE (n >= q) = TRUE
  BY <1>2, Zenon
<1>3. ASSUME ~(n >= q) PROVE (n >= q) = FALSE
  BY ONLY <1>3, n \in Nat, q \in Nat
<1>4. n >= q => Match(r, i) = [book |-> Reduced(r.book, u, q),
                               order |-> [r.order EXCEPT !.quantity = 0], done |-> TRUE]
  BY <1>1, <1>2, Zenon
<1>5. ~(n >= q) => Match(r, i) = [book |-> Unlink(r.book, u),
                                  order |-> [r.order EXCEPT !.quantity = q - n], done |-> FALSE]
  BY <1>1, <1>3, Zenon
<1> QED
  BY <1>4, <1>5, Zenon DEF Passed

\* One pass, and what it leaves alone.
LEMMA MatchStep ==
    ASSUME NEW b, NEW o, NEW k \in Int, NEW r, Running(b, o, k, r), NEW i
    PROVE  Running(b, o, k - 1, Match(r, i))
<1>1. /\ BookOK(r.book) /\ Diminished(b, r.book)
      /\ r.order \in LiveOrder /\ r.order.side = o.side /\ r.order.price = o.price
      /\ r.done \in BOOLEAN /\ (r.done => r.order.quantity = 0)
      /\ ~r.done /\ CanMatch(r.book, r.order) => Cardinality(DOMAIN r.book.orders) <= k
  BY DEF Running
<1>2. CASE r.done \/ ~CanMatch(r.book, r.order)
  <2>1. Match(r, i) = r
    BY <1>2, MatchEnded
  <2> QED
    BY <1>1, <1>2, <2>1 DEF Running
<1>3. CASE ~(r.done \/ ~CanMatch(r.book, r.order))
  <2> DEFINE t == Opposite(r.order.side)
             u == Head(r.book.queue[t][r.book.best[t]])
             n == r.book.orders[u].quantity
             q == r.order.quantity
             m == Match(r, i)
  <2>1. t \in Side /\ r.book.best[t] # NoPrice
    BY <1>1, <1>3 DEF LiveOrder, Opposite, Side, CanMatch
  <2>2. q \in Nat
    BY <1>1 DEF LiveOrder
  <2>3. u \in DOMAIN r.book.orders /\ n \in Nat
    BY <1>1, <2>1, FirstOpponent, Zenon
  <2>4. Passed(r, u, n, q, m)
    BY <1>3, <2>2, <2>3, MatchGoes, Zenon
  <2>5. n = r.book.orders[u].quantity
    OBVIOUS
  <2> HIDE DEF t, u, n, q, m
  <2>6. ASSUME NEW x \in Nat
        PROVE  LET a == [r.order EXCEPT !.quantity = x]
               IN  a \in LiveOrder /\ a.side = o.side /\ a.price = o.price /\ a.quantity = x
    BY <1>1 DEF LiveOrder
  <2>7. CASE n >= q
    <3>1. q \in 0..r.book.orders[u].quantity
      BY <2>2, <2>3, <2>5, <2>7
    <3>2. BookOK(Reduced(r.book, u, q)) /\ Diminished(r.book, Reduced(r.book, u, q))
      BY <1>1, <2>3, <3>1, ReducedKeeps
    <3>3. /\ m.book = Reduced(r.book, u, q) /\ m.order = [r.order EXCEPT !.quantity = 0]
          /\ m.done = TRUE
      BY <2>4, <2>7 DEF Passed
    <3>4. BookOK(m.book) /\ Diminished(b, m.book)
      BY <1>1, <3>2, <3>3, DiminishedTwice
    <3>5. /\ m.order \in LiveOrder /\ m.order.side = o.side /\ m.order.price = o.price
          /\ m.order.quantity = 0
      BY <2>6, <3>3
    <3> QED
      BY <3>3, <3>4, <3>5 DEF Running, m
  <2>8. CASE ~(n >= q)
    <3>1. BookOK(Unlink(r.book, u)) /\ Diminished(r.book, Unlink(r.book, u))
      BY <1>1, <2>3, UnlinkKeeps
    <3>2. /\ m.book = Unlink(r.book, u) /\ m.order = [r.order EXCEPT !.quantity = q - n]
          /\ m.done = FALSE
      BY <2>4, <2>8 DEF Passed
    <3>3. BookOK(m.book) /\ Diminished(b, m.book)
      BY <1>1, <3>1, <3>2, DiminishedTwice
    <3>4. m.order \in LiveOrder /\ m.order.side = o.side /\ m.order.price = o.price
      <4>1. q - n \in Nat
        BY <2>2, <2>3, <2>8
      <4> QED
        BY <2>6, <3>2, <4>1
    <3>5. Cardinality(DOMAIN m.book.orders) <= k - 1
      <4>1. /\ Cardinality(DOMAIN r.book.orders) \in Nat
            /\ Cardinality(DOMAIN m.book.orders) = Cardinality(DOMAIN r.book.orders) - 1
        BY <1>1, <2>3, <3>2, UnlinkCount
      <4> QED
        BY <1>1, <1>3, <4>1
    <3> QED
      BY <3>2, <3>3, <3>4, <3>5 DEF Running, m
  <2> QED
    BY <2>7, <2>8
<1> QED
  BY <1>2, <1>3

\* The loop starts with a pass for every order in the book.
LEMMA MarketStart ==
    ASSUME NEW b, BookOK(b), NEW o \in LiveOrder
    PROVE  /\ Cardinality(DOMAIN b.orders) \in Nat
           /\ Running(b, o, Cardinality(DOMAIN b.orders), [book |-> b, order |-> o, done |-> FALSE])
<1>1. b.orders \in Orders
  BY DEF BookOK, BookType
<1>2. Cardinality(DOMAIN b.orders) \in Nat
  BY <1>1, OrdersDef, FS_CardinalityType
<1>3. Diminished(b, b)
  BY DEF Diminished
<1> QED
  BY <1>2, <1>3 DEF Running

\* The values that the passes of the loop go through, from the first to the last.
LEMMA MarketRun ==
    ASSUME NEW b, BookOK(b), NEW o \in LiveOrder
    PROVE  \E v : LET N == Cardinality(DOMAIN b.orders)
                  IN  /\ N \in Nat
                      /\ v[0] = [book |-> b, order |-> o, done |-> FALSE]
                      /\ \A i \in 1..N : v[i] = Match(v[i - 1], i)
                      /\ \A i \in 0..N : Running(b, o, N - i, v[i])
                      /\ Market(b, o) = v[N]
<1> DEFINE N == Cardinality(DOMAIN b.orders)
           r == [book |-> b, order |-> o, done |-> FALSE]
           q == [i \in 1..N |-> i]
<1>1. N \in Nat /\ Running(b, o, N, r)
  BY MarketStart
<1>2. DOMAIN q = 1..N /\ \A i \in 1..N : q[i] = i
  OBVIOUS
<1>3. Market(b, o) = Passes!Folded(r, q)
  BY DEF Market, Passes!Folded, FoldLeft, Passes!FoldLeft, MapThenFoldSet,
         Passes!MapThenFoldSet, Max, Passes!Max
<1> HIDE DEF N, r, q
<1>4. PICK v : Passes!IsRun(r, q, N, v) /\ Passes!Folded(r, q) = v[N]
  BY <1>1, <1>2, Passes!FoldedRun
<1>5. v[0] = r /\ \A i \in 1..N : v[i] = Match(v[i - 1], i)
  BY <1>2, <1>4 DEF Passes!IsRun
<1>6. \A i \in 0..N : Running(b, o, N - i, v[i])
  <2> DEFINE T == {i \in Nat : i <= N => Running(b, o, N - i, v[i])}
  <2>1. 0 \in T
    BY <1>1, <1>5
  <2>2. ASSUME NEW i \in Nat, i \in T PROVE i + 1 \in T
    <3> SUFFICES ASSUME i + 1 <= N PROVE Running(b, o, N - (i + 1), v[i + 1])
      OBVIOUS
    <3>1. i + 1 \in 1..N /\ (i + 1) - 1 = i /\ N - i \in Int /\ (N - i) - 1 = N - (i + 1)
      BY <1>1
    <3>2. v[i + 1] = Match(v[i], i + 1)
      BY <1>5, <3>1
    <3>3. Running(b, o, N - i, v[i])
      BY <1>1, <2>2
    <3>4. Running(b, o, (N - i) - 1, Match(v[i], i + 1))
      BY <3>1, <3>3, MatchStep
    <3> QED
      BY <3>1, <3>2, <3>4
  <2> HIDE DEF T
  <2>3. \A i \in Nat : i \in T
    BY <2>1, <2>2, Induction
  <2> QED
    BY <1>1, <2>3 DEF T
<1> QED
  BY <1>1, <1>3, <1>4, <1>5, <1>6 DEF N, r

\* The condition of LimitOrderBook::limit looks at the best price only; no other price
\* is met when that one is not.
LEMMA NothingMeets ==
    ASSUME NEW b, BookOK(b), NEW s \in Side, NEW p \in Nat, ~Crosses(b, s, p)
    PROVE  \A r \in Limits(b, Opposite(s)) : ~Meets(s, p, r)
<1>1. PICK t \in Side : t = Opposite(s)
  BY DEF Opposite, Side
<1>2. PICK z : z = b.best[t]
  OBVIOUS
<1>3. z = BestOf(b, t)
  BY <1>2 DEF BookOK, Priced
<1>4. z = NoPrice \/ ~Meets(s, p, z)
  BY <1>1, <1>2 DEF Crosses
<1> SUFFICES ASSUME NEW r \in Limits(b, t) PROVE ~Meets(s, p, r)
  BY <1>1
<1>5. z # NoPrice /\ z \in Limits(b, t)
  BY <1>3, BestProperties
<1>6. r \in Nat /\ z \in Nat
  BY <1>5, PriceNumbers DEF Limits
<1>7. (t = "Buy" => r <= z) /\ (t = "Sell" => r >= z)
  BY <1>3, BestProperties
<1>8. CASE s = "Buy"
  <2>1. t = "Sell"
    BY <1>1, <1>8 DEF Opposite
  <2> QED
    BY <1>4, <1>5, <1>6, <1>7, <1>8, <2>1 DEF Meets
<1>9. CASE s = "Sell"
  <2>1. t = "Buy"
    BY <1>1, <1>9 DEF Opposite
  <2> QED
    BY <1>4, <1>5, <1>6, <1>7, <1>9, <2>1 DEF Meets
<1> QED
  BY <1>8, <1>9 DEF Side

\* What the market leaves: a sound book, and a rest of the order that meets nothing.
LEMMA MarketKeeps ==
    ASSUME NEW b, BookOK(b), NEW o \in LiveOrder
    PROVE  LET r == Market(b, o)
           IN  /\ BookOK(r.book) /\ Diminished(b, r.book)
               /\ r.order \in LiveOrder /\ r.order.side = o.side /\ r.order.price = o.price
               /\ r.order.quantity # 0 => ~CanMatch(r.book, r.order)
<1> DEFINE r == Market(b, o)
           N == Cardinality(DOMAIN b.orders)
<1>1. N \in Nat /\ Running(b, o, 0, r)
  <2>1. PICK v : /\ N \in Nat
                 /\ \A i \in 0..N : Running(b, o, N - i, v[i])
                 /\ Market(b, o) = v[N]
    BY MarketRun
  <2>2. N \in 0..N /\ N - N = 0
    BY <2>1
  <2> QED
    BY <2>1, <2>2
<1> HIDE DEF r, N
<1>2. /\ BookOK(r.book) /\ Diminished(b, r.book)
      /\ r.order \in LiveOrder /\ r.order.side = o.side /\ r.order.price = o.price
      /\ r.done \in BOOLEAN /\ (r.done => r.order.quantity = 0)
      /\ ~r.done /\ CanMatch(r.book, r.order) => Cardinality(DOMAIN r.book.orders) <= 0
  BY <1>1 DEF Running
<1>3. ASSUME r.order.quantity # 0, CanMatch(r.book, r.order) PROVE FALSE
  <2>1. PICK t \in Side : r.book.best[t] # NoPrice
    BY <1>2, <1>3 DEF CanMatch, LiveOrder, Opposite, Side
  <2>2. DOMAIN r.book.orders # {}
    BY <1>2, <2>1, FirstOpponent, Zenon
  <2>3. IsFiniteSet(DOMAIN r.book.orders)
    BY <1>2, OrdersDef DEF BookOK, BookType
  <2>4. Cardinality(DOMAIN r.book.orders) \in Nat /\ Cardinality(DOMAIN r.book.orders) # 0
    BY <2>2, <2>3, FS_CardinalityType, FS_EmptySet
  <2> QED
    BY <1>2, <1>3, <2>4
<1> QED
  BY <1>2, <1>3 DEF r

\* LimitOrderBook::limit keeps the book sound, whether or not the receiver finds that
\* the order crosses; last_best_price outlives the orders it came from.
LEMMA LimitKeeps ==
    ASSUME NEW b, BookOK(b), NEW u \in Nat, u \notin DOMAIN b.orders, NEW o \in RestingOrder
    PROVE  /\ BookOK(Limit(b, u, o))
           /\ \A t \in Side : Limit(b, u, o).best[t] = NoPrice =>
                 Limit(b, u, o).last_best[t] \in Limits(b, t) \cup {b.last_best[t]}
<1> DEFINE c == Limit(b, u, o)
           Remembers(d) == \A t \in Side : d.best[t] = NoPrice =>
                              d.last_best[t] \in Limits(b, t) \cup {b.last_best[t]}
<1>1. o \in LiveOrder /\ o.side \in Side /\ o.price \in Nat
  BY PriceNumbers DEF RestingOrder, LiveOrder
<1>2. ASSUME NEW d, BookOK(d), Diminished(b, d), NEW a \in RestingOrder, a.side = o.side,
             \A p \in Limits(d, Opposite(a.side)) : ~Meets(a.side, a.price, p)
      PROVE  BookOK(Rest(Kept(d, u, a), u)) /\ Remembers(Rest(Kept(d, u, a), u))
  <2> DEFINE e == Rest(Kept(d, u, a), u)
  <2>1. u \notin DOMAIN d.orders
    BY <1>2 DEF Diminished
  <2>2. /\ BookOK(e) /\ e.best[a.side] # NoPrice
        /\ \A t \in Side : t # a.side => e.last_best[t] = d.last_best[t]
    BY <1>2, <2>1, RestKeeps
  <2> HIDE DEF e
  <2>3. Remembers(e)
    BY <1>2, <2>2 DEF Diminished
  <2> QED
    BY <2>2, <2>3 DEF e
<1>3. CASE ~Crosses(b, o.side, o.price)
  <2>1. c = Rest(Kept(b, u, o), u)
    BY <1>3, Zenon DEF Limit, Kept
  <2>2. \A p \in Limits(b, Opposite(o.side)) : ~Meets(o.side, o.price, p)
    BY <1>1, <1>3, NothingMeets
  <2>3. Diminished(b, b)
    BY DEF Diminished
  <2> QED
    BY <1>2, <2>1, <2>2, <2>3
<1>4. CASE Crosses(b, o.side, o.price)
  <2> DEFINE r == Market(b, o)
             d == r.book
             a == r.order
  <2>1. /\ BookOK(d) /\ Diminished(b, d)
        /\ a \in LiveOrder /\ a.side = o.side /\ a.price = o.price
        /\ a.quantity # 0 => ~CanMatch(d, a)
    BY <1>1, MarketKeeps
  <2>2. c = IF a.quantity = 0 THEN d ELSE Rest(Kept(d, u, a), u)
    BY <1>4, Zenon DEF Limit, Kept
  <2> HIDE DEF r, d, a, c
  <2>3. CASE a.quantity = 0
    BY <2>1, <2>2, <2>3 DEF Diminished, c
  <2>4. CASE a.quantity # 0
    <3>1. a \in RestingOrder
      BY <2>1 DEF RestingOrder, LiveOrder
    <3>2. ~Crosses(d, a.side, a.price)
      BY <2>1, <2>4 DEF Crosses, CanMatch
    <3>3. \A p \in Limits(d, Opposite(a.side)) : ~Meets(a.side, a.price, p)
      BY <1>1, <2>1, <3>2, NothingMeets
    <3> QED
      BY <1>2, <2>1, <2>2, <2>4, <3>1, <3>3 DEF c
  <2> QED
    BY <2>3, <2>4
<1> QED
  BY <1>3, <1>4

-----------------------------------------------------------------------------
(* The steps of the feed                                                   *)

\* The map of no orders.
LEMMA NoOrders == << >> \in Orders /\ DOMAIN << >> = {}
<1>1. PICK f : f = << >>
  OBVIOUS
<1>2. f \in [1..0 -> RestingOrder]
  BY <1>1, EmptySeq
<1>3. DOMAIN f = {} /\ f \in [DOMAIN f -> RestingOrder]
  BY <1>2
<1>4. f \in Orders
  BY <1>3, OrdersDef, FS_EmptySet
<1> QED
  BY <1>1, <1>3, <1>4

\* The book of a receiver that has just started.
LEMMA EmptyBookOK == BookOK(EmptyBook)
<1> DEFINE b == EmptyBook
<1>1. /\ b.orders = << >>
      /\ b.queue = [s \in Side |-> [p \in Prices |-> << >>]]
      /\ b.best = [s \in Side |-> NoPrice] /\ b.last_best = [s \in Side |-> 0]
      /\ b.limit_volume = [s \in Side |-> [p \in Prices |-> 0]]
      /\ b.volume = [s \in Side |-> 0]
  BY DEF EmptyBook
<1>2. << >> \in Orders /\ DOMAIN << >> = {}
  BY NoOrders
<1>3. b \in BookType
  BY <1>2, PriceNumbers DEF EmptyBook, BookType
<1> HIDE DEF b
<1>4. \A s \in Side, p \in Prices :
          /\ b.queue[s][p] = << >> /\ Limits(b, s) = {}
          /\ OrdersOn(b.orders, s) = {} /\ OrdersAt(b.orders, s, p) = {}
  BY <1>1, <1>2 DEF Limits, OrdersAt, OrdersOn
<1>5. Linked(b)
  BY <1>4 DEF Linked, Range, IsInjective
<1>6. Priced(b)
  BY <1>1, <1>4 DEF Priced, BestOf, Limits
<1>7. \A s \in Side : OrdersOn(b.orders, s) = {}
  BY <1>1, <1>2 DEF OrdersOn
<1>8. Counted(b)
  <2>1. SharesOf(b.orders, {}) = 0
    BY SharesNone
  <2>2. \A s \in Side : b.volume[s] = 0 /\ \A p \in Prices : b.limit_volume[s][p] = 0
    BY <1>1
  <2> QED
    BY <1>4, <1>7, <2>1, <2>2, Zenon DEF Counted
<1>9. Uncrossed(b)
  BY <1>4 DEF Uncrossed, Side, Limits
<1> QED
  BY <1>3, <1>5, <1>6, <1>8, <1>9 DEF BookOK, b

LEMMA ReceiverInit == DataInit => ReceiverInv
<1> SUFFICES ASSUME DataInit PROVE ReceiverInv
  OBVIOUS
<1> USE DEF DataInit, Init
<1>1. << >> \in Orders /\ DOMAIN << >> = {}
  BY NoOrders
<1>2. Flags /\ VenueOK
  BY <1>1 DEF Flags, VenueOK
<1>3. Numbered
  <2>1. Len(history) = 0 /\ Len(output_buffer) = 0 /\ Departed = 0
    <3>1. Len(<< >>) = 0
      BY EmptySeq, Zenon
    <3>2. Len(history) = 0 /\ Len(output_buffer) = 0 /\ sequence = 1
      BY <3>1, Zenon
    <3> QED
      BY ONLY <3>2 DEF Departed
  <2>2. 1 \in 1..(MaxMessages + 1)
    BY MaxMessagesAssumption
  <2>3. \A i \in 1..Len(output_buffer) : FALSE
    BY <2>1
  <2>4. sending = (output_buffer # << >>)
    OBVIOUS
  <2> QED
    BY <2>1, <2>2, <2>3, <2>4 DEF Numbered, OrdersAfter
<1>4. Told
  BY DEF Told, Range
<1>5. Exact
  BY DEF Exact, InOrder, EmptyBook, OrdersAfter, Ascending
<1> QED
  BY <1>2, <1>3, <1>4, <1>5, EmptyBookOK DEF ReceiverInv, Sound, TopOK, BookOK

\* Sender::send keeps the invariant if the message says what has changed.
LEMMA SendKeeps ==
    ASSUME ReceiverInv, NEW m \in Message, m.sequence = sequence, Send(m),
           VenueOK', Describes(live, m, live'), is_session_active' \in BOOLEAN,
           UNCHANGED <<links, receiver>>
    PROVE  ReceiverInv'
<1>1. /\ Flags /\ Numbered /\ Told /\ Sound /\ Exact
  BY DEF ReceiverInv
<1>2. /\ sequence \in 1..MaxMessages /\ sequence' = sequence + 1
      /\ sequence \in Nat /\ last_sequence \in 0..(sequence - 1)
      /\ output_buffer' = Append(output_buffer, m)
      /\ history' = Append(history, live')
      /\ sending' = IF output_buffer = << >> THEN TRUE ELSE sending
  BY <1>1, MaxMessagesAssumption DEF Send, Numbered
<1>3. reliable' = reliable /\ network' = network /\ book' = book /\ session' = session
      /\ last_sequence' = last_sequence /\ warned' = warned /\ receiving' = receiving
  BY DEF links, receiver
<1>4. live' \in Orders
  BY DEF VenueOK
<1>5. /\ history \in Seq(Orders) /\ Len(history) = sequence - 1 /\ live = OrdersAfter(history, sequence - 1)
      /\ output_buffer \in Seq(Message) /\ Len(output_buffer) \in Nat /\ Departed \in Nat
      /\ network \subseteq Message
  BY <1>1 DEF Told, Numbered
<1>6. /\ history' \in Seq(Orders) /\ Len(history') = sequence
      /\ \A k \in 0..(sequence - 1) : OrdersAfter(history', k) = OrdersAfter(history, k)
      /\ OrdersAfter(history', sequence) = live'
  <2>1. /\ history' \in Seq(Orders) /\ Len(history') = Len(history) + 1
        /\ \A k \in 1..Len(history) : history'[k] = history[k]
        /\ history'[Len(history) + 1] = live'
    BY <1>2, <1>4, <1>5, AppendProperties
  <2>2. Len(history) + 1 = sequence /\ \A k \in 0..(sequence - 1) : k # 0 => k \in 1..Len(history)
    BY <1>2, <1>5
  <2> QED
    BY <1>2, <2>1, <2>2 DEF OrdersAfter
<1>7. /\ output_buffer' \in Seq(Message) /\ Len(output_buffer') = Len(output_buffer) + 1
      /\ \A i \in 1..Len(output_buffer) : output_buffer'[i] = output_buffer[i]
      /\ output_buffer'[Len(output_buffer) + 1] = m
      /\ output_buffer' # << >>
  BY <1>2, <1>5, AppendProperties
<1>8. Departed' = Departed
  BY <1>2, <1>5, <1>7 DEF Departed
<1>9. Numbered'
  <2>1. \A i \in 1..Len(output_buffer') : output_buffer'[i].sequence = Departed' + i
    <3> SUFFICES ASSUME NEW i \in 1..Len(output_buffer')
                 PROVE  output_buffer'[i].sequence = Departed' + i
      OBVIOUS
    <3>1. CASE i \in 1..Len(output_buffer)
      BY <1>1, <1>7, <1>8, <3>1 DEF Numbered
    <3>2. CASE i = Len(output_buffer) + 1
      BY <1>2, <1>5, <1>7, <1>8, <3>2 DEF Departed
    <3> QED
      BY <1>5, <1>7, <3>1, <3>2
  <2>2. /\ sequence' \in 1..(MaxMessages + 1) /\ last_sequence' \in 0..(sequence' - 1)
        /\ Len(history') = sequence' - 1
    BY <1>2, <1>3, <1>6, MaxMessagesAssumption
  <2>3. live' = OrdersAfter(history', sequence' - 1)
    BY <1>2, <1>6
  <2>4. sending' = (output_buffer' # << >>)
    BY <1>1, <1>2, <1>7 DEF Numbered
  <2>5. Departed' \in Nat /\ \A k \in network' : k.sequence \in 1..Departed'
    BY <1>1, <1>3, <1>8 DEF Numbered
  <2> QED
    BY <2>1, <2>2, <2>3, <2>4, <2>5 DEF Numbered
<1>10. Told'
  <2>1. Range(output_buffer') = Range(output_buffer) \cup {m}
    <3>1. DOMAIN output_buffer = 1..Len(output_buffer)
          /\ DOMAIN output_buffer' = 1..(Len(output_buffer) + 1)
      BY <1>5, <1>7
    <3> QED
      BY <1>5, <1>7, <3>1 DEF Range
  <2>2. \A k \in network \cup Range(output_buffer) : k.sequence \in 1..(sequence - 1)
    <3>1. Departed <= sequence - 1
      BY <1>2, <1>5 DEF Departed
    <3>2. \A i \in 1..Len(output_buffer) : Departed + i <= sequence - 1
      BY <1>2, <1>5 DEF Departed
    <3>3. \A i \in DOMAIN output_buffer : output_buffer[i].sequence \in 1..(sequence - 1)
      BY <1>1, <1>2, <1>5, <3>2 DEF Numbered
    <3> QED
      BY <1>1, <1>2, <1>5, <3>1, <3>3 DEF Numbered, Range
  <2>3. ASSUME NEW k \in network' \cup Range(output_buffer')
        PROVE  Describes(OrdersAfter(history', k.sequence - 1), k, OrdersAfter(history', k.sequence))
    <3>1. CASE k \in network \cup Range(output_buffer)
      <4>1. k.sequence \in 0..(sequence - 1) /\ k.sequence - 1 \in 0..(sequence - 1)
        BY <1>2, <2>2, <3>1
      <4>2. Describes(OrdersAfter(history, k.sequence - 1), k, OrdersAfter(history, k.sequence))
        BY <1>1, <3>1 DEF Told
      <4> QED
        BY <1>6, <4>1, <4>2
    <3>2. CASE k = m
      <4>1. k.sequence = sequence /\ k.sequence - 1 \in 0..(sequence - 1)
        BY <1>2, <3>2
      <4>2. OrdersAfter(history', k.sequence - 1) = live /\ OrdersAfter(history', k.sequence) = live'
        BY <1>5, <1>6, <4>1
      <4> QED
        BY <3>2, <4>2
    <3> QED
      BY <1>3, <2>1, <3>1, <3>2
  <2> QED
    BY <1>3, <1>5, <1>6, <1>7, <2>3 DEF Told
<1>11. Exact'
  BY <1>1, <1>2, <1>3, <1>6 DEF Exact
<1>12. Flags' /\ Sound'
  BY <1>1, <1>3 DEF Flags, Sound
<1> QED
  BY <1>9, <1>10, <1>11, <1>12 DEF ReceiverInv

\* Maps with an order removed, or with fewer shares of one.
LEMMA FewerOrders ==
    ASSUME NEW f \in Orders, NEW u \in DOMAIN f, NEW n \in 0..f[u].quantity
    PROVE  /\ Restrict(f, DOMAIN f \ {u}) \in Orders
           /\ DOMAIN Restrict(f, DOMAIN f \ {u}) = DOMAIN f \ {u}
           /\ [f EXCEPT ![u].quantity = @ - n] \in Orders
           /\ DOMAIN [f EXCEPT ![u].quantity = @ - n] = DOMAIN f
<1>1. f \in [DOMAIN f -> RestingOrder] /\ DOMAIN f \subseteq Nat /\ IsFiniteSet(DOMAIN f)
  BY OrdersDef
<1>2. IsFiniteSet(DOMAIN f \ {u})
  BY <1>1, FS_RemoveElement
<1>3. /\ Restrict(f, DOMAIN f \ {u}) \in [DOMAIN f \ {u} -> RestingOrder]
      /\ DOMAIN Restrict(f, DOMAIN f \ {u}) = DOMAIN f \ {u}
  BY <1>1 DEF Restrict
<1>4. f[u].quantity \in Nat /\ f[u].quantity - n \in Nat
  BY <1>1 DEF RestingOrder
<1>5. [f EXCEPT ![u].quantity = @ - n] \in [DOMAIN f -> RestingOrder]
  BY <1>1, <1>4 DEF RestingOrder
<1>6. DOMAIN [f EXCEPT ![u].quantity = @ - n] = DOMAIN f
  BY <1>5
<1> QED
  BY <1>1, <1>2, <1>3, <1>5, <1>6, OrdersDef

LEMMA PublishAddKeeps ==
    ASSUME ReceiverInv, NEW s \in Side, NEW p \in Prices, NEW q \in Quantities, PublishAdd(s, p, q)
    PROVE  ReceiverInv'
<1>1. /\ live \in Orders /\ next \in Nat /\ (\A u \in DOMAIN live : u < next)
      /\ sequence \in Nat /\ is_session_active \in BOOLEAN
  BY MaxMessagesAssumption DEF ReceiverInv, VenueOK, Flags, Numbered
<1>2. q \in Nat /\ p \in Nat
  BY FeedQuantitiesAssumption, FeedPricesAssumption
<1>3. PICK o : o = [side |-> s, price |-> p, quantity |-> q]
  OBVIOUS
<1>4. o \in RestingOrder
  BY <1>2, <1>3 DEF RestingOrder
<1>5. PICK m : m = [kind |-> "AddOrder", uid |-> next, side |-> s, price |-> p, quantity |-> q,
                    sequence |-> sequence]
  OBVIOUS
<1>6. /\ m \in Message /\ m.sequence = sequence /\ m.kind = "AddOrder" /\ m.uid = next
      /\ m.side = s /\ m.price = p /\ m.quantity = q
  BY <1>1, <1>2, <1>5 DEF Message, AddOrderMessage
<1>7. Send(m)
  BY <1>5 DEF PublishAdd
<1>8. /\ \A u \in DOMAIN live : live[u].side # s => ~Meets(s, p, live[u].price)
      /\ live' = Added(live, next, o) /\ next' = next + 1
  BY <1>3 DEF PublishAdd, AddOrder, Added
<1>9. VenueOK'
  <2>1. Added(live, next, o) \in Orders /\ DOMAIN Added(live, next, o) = DOMAIN live \cup {next}
    BY <1>1, <1>4, AddedOrders
  <2>2. DOMAIN live \subseteq Nat
    BY <1>1, OrdersDef
  <2> QED
    BY <1>1, <1>8, <2>1, <2>2 DEF VenueOK
<1>10. Describes(live, m, live')
  BY <1>1, <1>3, <1>6, <1>8 DEF Describes
<1>11. is_session_active' \in BOOLEAN /\ UNCHANGED <<links, receiver>>
  BY <1>1 DEF PublishAdd
<1> QED
  BY <1>6, <1>7, <1>9, <1>10, <1>11, SendKeeps

LEMMA PublishDeleteKeeps ==
    ASSUME ReceiverInv, NEW u \in DOMAIN live, PublishDelete(u)
    PROVE  ReceiverInv'
<1>1. /\ live \in Orders /\ next \in Nat /\ (\A v \in DOMAIN live : v < next)
      /\ sequence \in Nat /\ is_session_active \in BOOLEAN
  BY MaxMessagesAssumption DEF ReceiverInv, VenueOK, Flags, Numbered
<1>2. u \in Nat
  BY <1>1, OrdersDef
<1>3. PICK m : m = [kind |-> "DeleteOrder", uid |-> u, sequence |-> sequence]
  OBVIOUS
<1>4. m \in Message /\ m.sequence = sequence /\ m.kind = "DeleteOrder" /\ m.uid = u
  BY <1>1, <1>2, <1>3 DEF Message, DeleteOrderMessage
<1>5. Send(m)
  BY <1>3 DEF PublishDelete
<1>6. live' = Restrict(live, DOMAIN live \ {u}) /\ next' = next
  BY DEF PublishDelete, DeleteOrder
<1>7. VenueOK'
  <2>1. live[u].quantity \in Nat /\ 0 \in 0..live[u].quantity
    BY <1>1, OrdersDef DEF RestingOrder
  <2>2. live' \in Orders /\ DOMAIN live' = DOMAIN live \ {u}
    BY <1>1, <1>6, <2>1, FewerOrders
  <2> QED
    BY <1>1, <1>6, <2>2 DEF VenueOK
<1>8. Describes(live, m, live')
  BY <1>4, <1>6 DEF Describes
<1>9. is_session_active' \in BOOLEAN /\ UNCHANGED <<links, receiver>>
  BY <1>1 DEF PublishDelete
<1> QED
  BY <1>4, <1>5, <1>7, <1>8, <1>9, SendKeeps

LEMMA PublishTradeKeeps ==
    ASSUME ReceiverInv, NEW u \in DOMAIN live, NEW n \in 0..live[u].quantity, PublishTrade(u, n)
    PROVE  ReceiverInv'
<1>1. /\ live \in Orders /\ next \in Nat /\ (\A v \in DOMAIN live : v < next)
      /\ sequence \in Nat /\ is_session_active \in BOOLEAN
  BY MaxMessagesAssumption DEF ReceiverInv, VenueOK, Flags, Numbered
<1>2. u \in Nat /\ live[u].quantity \in Nat /\ n \in Nat /\ n <= live[u].quantity
  BY <1>1, OrdersDef DEF RestingOrder
<1>3. PICK m : m = [kind |-> "Trade", uid |-> u, quantity |-> n, sequence |-> sequence]
  OBVIOUS
<1>4. m \in Message /\ m.sequence = sequence /\ m.kind = "Trade" /\ m.uid = u /\ m.quantity = n
  BY <1>1, <1>2, <1>3 DEF Message, TradeMessage
<1>5. Send(m)
  BY <1>3 DEF PublishTrade
<1>6. live' = Executed(live, u, n) /\ next' = next
  BY DEF PublishTrade, Trade, Executed
<1>7. VenueOK'
  <2>1. live' \in Orders /\ DOMAIN live' \subseteq DOMAIN live
    BY <1>1, <1>6, FewerOrders DEF Executed
  <2> QED
    BY <1>1, <1>6, <2>1 DEF VenueOK
<1>8. Describes(live, m, live')
  BY <1>2, <1>4, <1>6, Zenon DEF Describes
<1>9. is_session_active' \in BOOLEAN /\ UNCHANGED <<links, receiver>>
  BY <1>1 DEF PublishTrade
<1> QED
  BY <1>4, <1>5, <1>7, <1>8, <1>9, SendKeeps

LEMMA PublishSessionKeeps ==
    ASSUME ReceiverInv, PublishSession
    PROVE  ReceiverInv'
<1>1. VenueOK /\ sequence \in Nat /\ is_session_active \in BOOLEAN
  BY MaxMessagesAssumption DEF ReceiverInv, Flags, Numbered
<1>2. PICK m : m = [kind |-> IF is_session_active THEN "EndOfSession" ELSE "StartOfSession",
                    sequence |-> sequence]
  OBVIOUS
<1>3. m \in Message /\ m.sequence = sequence /\ m.kind \in {"StartOfSession", "EndOfSession"}
  BY <1>1, <1>2 DEF Message, StartOfSessionMessage, EndOfSessionMessage
<1>4. Send(m) /\ UNCHANGED <<links, receiver>> /\ is_session_active' \in BOOLEAN
  BY <1>1, <1>2 DEF PublishSession
<1>5. live' = live /\ next' = next
  BY DEF PublishSession, feedVars
<1>6. VenueOK' /\ Describes(live, m, live')
  BY <1>1, <1>3, <1>5 DEF VenueOK, Describes
<1> QED
  BY <1>3, <1>4, <1>6, SendKeeps

\* The head of the buffer goes to the network.
LEMMA SendMessageKeeps ==
    ASSUME ReceiverInv, SendMessage
    PROVE  ReceiverInv'
<1>1. Flags /\ VenueOK /\ Numbered /\ Told /\ Sound /\ Exact
  BY DEF ReceiverInv
<1>2. /\ output_buffer # << >> /\ output_buffer \in Seq(Message) /\ network \subseteq Message
      /\ sequence \in Nat /\ Departed \in Nat
  <2>1. sending /\ sending = (output_buffer # << >>)
    BY <1>1, Zenon DEF Numbered, SendMessage
  <2>2. output_buffer # << >>
    BY <2>1, Zenon
  <2>3. sequence \in Nat /\ Departed \in Nat
    BY <1>1, MaxMessagesAssumption DEF Numbered
  <2> QED
    BY <1>1, <2>2, <2>3 DEF Told
<1>3. /\ network' = network \cup {Head(output_buffer)} /\ output_buffer' = Tail(output_buffer)
      /\ sending' = (Len(output_buffer) > 1)
      /\ live' = live /\ next' = next /\ sequence' = sequence /\ history' = history
      /\ book' = book /\ last_sequence' = last_sequence /\ warned' = warned
      /\ receiving' = receiving
  BY DEF SendMessage, feedVars, receiver
<1>4. Flags' /\ VenueOK' /\ Sound' /\ Exact'
  BY <1>1, <1>3 DEF Flags, VenueOK, Sound, Exact, SendMessage, receiver
<1>5. /\ Len(output_buffer) \in Nat \ {0} /\ DOMAIN output_buffer = 1..Len(output_buffer)
      /\ Head(output_buffer) = output_buffer[1]
      /\ Head(output_buffer) \in Message /\ Tail(output_buffer) \in Seq(Message)
      /\ Len(Tail(output_buffer)) = Len(output_buffer) - 1
      /\ \A i \in 1..Len(Tail(output_buffer)) : Tail(output_buffer)[i] = output_buffer[i + 1]
  BY <1>2, HeadTailProperties, EmptySeq, LenProperties
<1>6. Departed' = Departed + 1
  BY <1>2, <1>3, <1>5 DEF Departed
<1>7. Numbered'
  <2>1. \A i \in 1..Len(output_buffer') : output_buffer'[i].sequence = Departed' + i
    <3> SUFFICES ASSUME NEW i \in 1..Len(output_buffer')
                 PROVE  output_buffer'[i].sequence = Departed' + i
      OBVIOUS
    <3>1. output_buffer'[i] = output_buffer[i + 1] /\ i + 1 \in 1..Len(output_buffer) /\ i \in Nat
      BY <1>3, <1>5
    <3>2. output_buffer[i + 1].sequence = Departed + (i + 1)
      BY <1>1, <3>1 DEF Numbered
    <3> QED
      BY <1>2, <1>6, <3>1, <3>2
  <2>2. \A m \in network' : m.sequence \in 1..Departed'
    <3>1. Head(output_buffer).sequence = Departed + 1
      BY <1>1, <1>5 DEF Numbered
    <3>2. \A m \in network : m.sequence \in 1..Departed
      BY <1>1 DEF Numbered
    <3> QED
      BY <1>2, <1>3, <1>6, <3>1, <3>2
  <2>3. sending' = (output_buffer' # << >>)
    <3>1. output_buffer' # << >> <=> Len(output_buffer') # 0
      BY <1>3, <1>5, EmptySeq
    <3>2. (Len(output_buffer) > 1) = (Len(output_buffer') # 0)
      BY <1>3, <1>5
    <3> QED
      BY <1>3, <3>1, <3>2, Zenon
  <2>4. /\ sequence' \in 1..(MaxMessages + 1) /\ last_sequence' \in 0..(sequence' - 1)
        /\ Len(history') = sequence' - 1 /\ live' = OrdersAfter(history', sequence' - 1)
    BY <1>1, <1>3 DEF Numbered
  <2>5. Departed' \in Nat
    BY <1>2, <1>6
  <2> QED
    BY <2>1, <2>2, <2>3, <2>4, <2>5, Zenon DEF Numbered
<1>8. Told'
  <2>1. Range(output_buffer') \subseteq Range(output_buffer)
    <3>1. DOMAIN output_buffer' = 1..Len(output_buffer')
      BY <1>3, <1>5
    <3>2. ASSUME NEW i \in DOMAIN output_buffer' PROVE output_buffer'[i] \in Range(output_buffer)
      <4>1. output_buffer'[i] = output_buffer[i + 1] /\ i + 1 \in 1..Len(output_buffer)
        BY <1>3, <1>5, <3>1
      <4> QED
        BY <1>5, <4>1 DEF Range
    <3> QED
      BY <3>2 DEF Range
  <2>2. Head(output_buffer) \in Range(output_buffer)
    BY <1>5 DEF Range
  <2>3. network' \cup Range(output_buffer') \subseteq network \cup Range(output_buffer)
    BY <1>3, <2>1, <2>2
  <2> QED
    BY <1>1, <1>2, <1>3, <1>5, <2>3 DEF Told
<1> QED
  BY <1>4, <1>7, <1>8 DEF ReceiverInv

-----------------------------------------------------------------------------
(* The receiver's side                                                     *)

\* An order that crosses nothing and is younger than all others rests behind them.
LEMMA LimitExact ==
    ASSUME NEW b, BookOK(b), NEW u \in Nat, NEW o \in RestingOrder,
           \A v \in DOMAIN b.orders :
              v < u /\ (b.orders[v].side # o.side => ~Meets(o.side, o.price, b.orders[v].price))
    PROVE  /\ Limit(b, u, o).orders = Added(b.orders, u, o)
           /\ InOrder(b) => InOrder(Limit(b, u, o))
<1> DEFINE c == Rest(Kept(b, u, o), u)
<1>1. b \in BookType /\ Linked(b)
  BY DEF BookOK
<1>2. o.side \in Side /\ o.price \in Nat /\ Opposite(o.side) \in Side /\ Opposite(o.side) # o.side
  BY PriceNumbers DEF RestingOrder, Opposite, Side
<1>3. u \notin DOMAIN b.orders
  OBVIOUS
<1>4. ~Crosses(b, o.side, o.price)
  <2> SUFFICES ASSUME Crosses(b, o.side, o.price) PROVE FALSE
    OBVIOUS
  <2>1. PICK t \in Side : t = Opposite(o.side)
    BY <1>2
  <2>2. PICK v : v = Head(b.queue[t][b.best[t]])
    OBVIOUS
  <2>3. b.best[t] # NoPrice /\ Meets(o.side, o.price, b.best[t])
    BY <2>1 DEF Crosses
  <2>4. v \in DOMAIN b.orders /\ b.orders[v].side = t /\ b.orders[v].price = b.best[t]
    BY <2>2, <2>3, FirstOpponent, Zenon
  <2> QED
    BY <1>2, <2>1, <2>3, <2>4
<1>5. Limit(b, u, o) = c
  BY <1>4, Zenon DEF Limit, Kept
<1>6. \A p \in Limits(b, Opposite(o.side)) : ~Meets(o.side, o.price, p)
  BY <1>2, <1>4, NothingMeets
<1>7. /\ c.orders = Added(b.orders, u, o)
      /\ \A t \in Side, p \in Prices :
            c.queue[t][p] = IF t = o.side /\ p = o.price THEN Append(b.queue[t][p], u)
                            ELSE b.queue[t][p]
  BY <1>3, <1>6, RestKeeps
<1> HIDE DEF c
<1>8. ASSUME InOrder(b), NEW t \in Side, NEW p \in Prices PROVE Ascending(c.queue[t][p])
  <2>1. PICK q : q = b.queue[t][p]
    OBVIOUS
  <2>2. q \in Seq(Nat) /\ IsInjective(q) /\ Range(q) = OrdersAt(b.orders, t, p) /\ Ascending(q)
    BY <1>1, <1>8, <2>1 DEF BookType, Linked, InOrder
  <2>3. \A v \in Range(q) : v < u
    BY <2>2 DEF OrdersAt, OrdersOn
  <2>4. u \notin Range(q)
    BY <1>3, <2>2 DEF OrdersAt, OrdersOn
  <2>5. Ascending(Append(q, u))
    BY <2>2, <2>3, <2>4, AppendedQueue
  <2> QED
    BY <1>7, <2>1, <2>2, <2>5
<1>9. InOrder(b) => InOrder(c)
  BY <1>8 DEF InOrder
<1> QED
  BY <1>5, <1>7, <1>9

\* What the receiver's map is after an order is removed or reduced.
LEMMA ReducedExact ==
    ASSUME NEW b, BookOK(b), NEW u \in DOMAIN b.orders, NEW n \in 0..b.orders[u].quantity
    PROVE  /\ Unlink(b, u).orders = Restrict(b.orders, DOMAIN b.orders \ {u})
           /\ Reduced(b, u, n).orders = Executed(b.orders, u, n)
           /\ InOrder(b) => InOrder(Unlink(b, u)) /\ InOrder(Reduced(b, u, n))
<1>1. b \in BookType /\ Linked(b)
  BY DEF BookOK
<1>2. Unlink(b, u).orders = Restrict(b.orders, DOMAIN b.orders \ {u})
  BY <1>1, UnlinkFields
<1>3. Shrink(b, u, n).orders = [b.orders EXCEPT ![u].quantity = @ - n]
  <2> DEFINE c == Shrink(b, u, n)
             s == b.orders[u].side
             p == b.orders[u].price
  <2>1. /\ c \in BookType
        /\ c.orders = [b.orders EXCEPT ![u].quantity = @ - n]
        /\ c.queue = b.queue
        /\ c.best = b.best /\ c.last_best = b.last_best
        /\ c.limit_volume = [b.limit_volume EXCEPT ![s][p] = @ + -n]
        /\ c.volume = [b.volume EXCEPT ![s] = @ + -n]
    BY <1>1, ShrinkFields, ZenonT(60)
  <2> QED
    BY <2>1, Zenon
<1>4. Diminished(b, Unlink(b, u)) /\ Diminished(b, Reduced(b, u, n))
  BY UnlinkKeeps, ReducedKeeps
<1>5. InOrder(b) => InOrder(Unlink(b, u)) /\ InOrder(Reduced(b, u, n))
  BY <1>4, Zenon DEF Diminished, InOrder
<1> QED
  BY <1>2, <1>3, <1>5, Zenon DEF Reduced, Executed

\* read_message keeps the invariant if the handler keeps the book sound and follows
\* what the message says.
LEMMA ReadKeeps ==
    ASSUME ReceiverInv, NEW m \in network, ReadMessage(m),
           Sound', session' \in BOOLEAN, receiving' \in BOOLEAN,
           \A g : Describes(book.orders, m, g) /\ InOrder(book) =>
                     receiving' /\ book'.orders = g /\ InOrder(book')
    PROVE  ReceiverInv'
<1>1. Flags /\ VenueOK /\ Numbered /\ Told /\ Sound /\ Exact
  BY DEF ReceiverInv
<1>2. /\ network' \subseteq network /\ warned' = (warned \/ OutOfSequence(m))
      /\ last_sequence' = m.sequence /\ reliable' = reliable
      /\ live' = live /\ next' = next /\ is_session_active' = is_session_active
      /\ sequence' = sequence /\ output_buffer' = output_buffer /\ sending' = sending
      /\ history' = history
  BY DEF ReadMessage, Remaining, feedVars, sender
<1>3. /\ sequence \in Nat /\ Len(output_buffer) \in Nat /\ m.sequence \in 1..Departed
      /\ Departed \in Nat /\ Departed' = Departed
  BY <1>1, <1>2, MaxMessagesAssumption DEF Numbered, Told, Departed
<1>4. m.sequence \in 1..(sequence - 1)
  BY <1>3 DEF Departed
<1>5. Flags' /\ VenueOK'
  BY <1>1, <1>2 DEF Flags, VenueOK
<1>6. Numbered'
  <2>1. last_sequence' \in 0..(sequence' - 1)
    BY <1>2, <1>3, <1>4
  <2> QED
    BY <1>1, <1>2, <1>3, <2>1, Zenon DEF Numbered
<1>7. Told'
  BY <1>1, <1>2 DEF Told
<1>8. Exact'
  <2> SUFFICES ASSUME ~warned'
               PROVE  /\ receiving' /\ book'.orders = OrdersAfter(history', last_sequence')
                      /\ InOrder(book')
    BY DEF Exact
  <2>1. ~warned /\ m.sequence = last_sequence + 1
    BY <1>2 DEF OutOfSequence
  <2>2. book.orders = OrdersAfter(history, last_sequence) /\ InOrder(book)
    BY <1>1, <2>1 DEF Exact
  <2>3. Describes(OrdersAfter(history, m.sequence - 1), m, OrdersAfter(history, m.sequence))
    BY <1>1 DEF Told
  <2>4. m.sequence - 1 = last_sequence
    BY <1>1, <1>3, <2>1 DEF Numbered
  <2>5. Describes(book.orders, m, OrdersAfter(history, m.sequence))
    BY <2>2, <2>3, <2>4
  <2> QED
    BY <1>2, <2>2, <2>5
<1> QED
  BY <1>5, <1>6, <1>7, <1>8 DEF ReceiverInv

\* The fields of a message that may be received.
LEMMA MessageFields ==
    ASSUME NEW m \in Message
    PROVE  /\ m.kind \in {"StartOfSession", "EndOfSession", "DeleteOrder", "Trade", "AddOrder"}
           /\ m.kind = "AddOrder" =>
                 /\ m.uid \in Nat
                 /\ [side |-> m.side, price |-> m.price, quantity |-> m.quantity] \in RestingOrder
           /\ m.kind = "DeleteOrder" => m.uid \in Nat
           /\ m.kind = "Trade" => m.uid \in Nat /\ m.quantity \in Nat
  BY DEF Message, StartOfSessionMessage, EndOfSessionMessage, DeleteOrderMessage, TradeMessage,
         AddOrderMessage, RestingOrder

\* Every handler starts in read_message, which a receiver that has stopped does not run.
LEMMA ReadFirst ==
    ASSUME NEW m, Receive(m)
    PROVE  ReadMessage(m) /\ receiving
  BY DEF Receive, ReceiveSession, ReceiveAddOrder, ReceiveDuplicate, ReceiveUnknown,
         ReceiveDeleteOrder, ReceiveTrade, ReceiveExcessiveTrade, ReadMessage

\* Every handler of the receiver keeps the invariant.
LEMMA ReceiveKeeps ==
    ASSUME ReceiverInv, NEW m \in network, Receive(m)
    PROVE  ReceiverInv'
<1>1. m \in Message /\ BookOK(book) /\ session \in BOOLEAN /\ receiving \in BOOLEAN
  <2>1. receiving
    BY ReadFirst
  <2> QED
    BY <2>1 DEF ReceiverInv, Told, Flags, Sound
<1>2. book.orders \in Orders
  BY <1>1 DEF BookOK, BookType
<1>3. \A u \in DOMAIN book.orders : u \in Nat /\ book.orders[u].quantity \in Nat
  BY <1>2, OrdersDef DEF RestingOrder
<1>4. /\ receiving
      /\ BookOK(book') => Sound'
  BY ReadFirst DEF Sound, TopOK, BookOK
<1>5. CASE ReceiveSession(m)
  <2>1. /\ ReadMessage(m) /\ book' = book /\ receiving' = receiving /\ session' \in BOOLEAN
        /\ m.kind \in {"StartOfSession", "EndOfSession"}
    BY <1>5 DEF ReceiveSession
  <2>2. \A g : Describes(book.orders, m, g) => g = book.orders
    BY <2>1 DEF Describes
  <2> QED
    BY <1>1, <1>4, <2>1, <2>2, ReadKeeps
<1>6. CASE ReceiveAddOrder(m)
  <2>1. PICK o : o = [side |-> m.side, price |-> m.price, quantity |-> m.quantity]
    OBVIOUS
  <2>2. /\ ReadMessage(m) /\ book' = Limit(book, m.uid, o) /\ session' = session
        /\ receiving' = receiving /\ m.kind = "AddOrder" /\ m.uid \notin DOMAIN book.orders
    BY <1>6, <2>1 DEF ReceiveAddOrder
  <2>3. /\ m.uid \in Nat /\ o \in RestingOrder
        /\ o.side = m.side /\ o.price = m.price /\ o.quantity = m.quantity
    BY <1>1, <2>1, <2>2, MessageFields
  <2>4. BookOK(book')
    BY <1>1, <2>2, <2>3, LimitKeeps
  <2>5. ASSUME NEW g, Describes(book.orders, m, g), InOrder(book)
        PROVE  book'.orders = g /\ InOrder(book')
    <3>1. /\ \A v \in DOMAIN book.orders :
                /\ v < m.uid
                /\ book.orders[v].side # o.side => ~Meets(o.side, o.price, book.orders[v].price)
          /\ g = Added(book.orders, m.uid, o)
      BY <2>1, <2>2, <2>3, <2>5 DEF Describes
    <3> QED
      BY <1>1, <2>2, <2>3, <2>5, <3>1, LimitExact
  <2> QED
    BY <1>1, <1>4, <2>2, <2>4, <2>5, ReadKeeps
<1>7. CASE ReceiveDuplicate(m)
  <2>1. /\ ReadMessage(m) /\ book' = Rest(book, m.uid) /\ session' = session
        /\ receiving' = FALSE /\ m.kind = "AddOrder" /\ m.uid \in DOMAIN book.orders
    BY <1>7 DEF ReceiveDuplicate
  <2>2. ASSUME NEW g, Describes(book.orders, m, g) PROVE FALSE
    <3>1. m.uid < m.uid /\ m.uid \in Nat
      BY <1>3, <2>1, <2>2 DEF Describes
    <3> QED
      BY <3>1
  <2>3. Sound'
    BY <1>1, <2>1, RestTwice DEF Sound
  <2> QED
    BY <1>1, <2>1, <2>2, <2>3, ReadKeeps
<1>8. CASE ReceiveUnknown(m)
  <2>1. /\ ReadMessage(m) /\ book' = book /\ session' = session /\ receiving' = receiving
        /\ m.kind \in {"DeleteOrder", "Trade"} /\ m.uid \notin DOMAIN book.orders
    BY <1>8 DEF ReceiveUnknown
  <2>2. ASSUME NEW g, Describes(book.orders, m, g) PROVE FALSE
    BY <2>1, <2>2 DEF Describes
  <2> QED
    BY <1>1, <1>4, <2>1, <2>2, ReadKeeps
<1>9. CASE ReceiveDeleteOrder(m)
  <2>1. /\ ReadMessage(m) /\ book' = Unlink(book, m.uid) /\ session' = session
        /\ receiving' = receiving /\ m.kind = "DeleteOrder" /\ m.uid \in DOMAIN book.orders
    BY <1>9 DEF ReceiveDeleteOrder
  <2>2. BookOK(book')
    BY <1>1, <2>1, UnlinkKeeps
  <2>3. ASSUME NEW g, Describes(book.orders, m, g), InOrder(book)
        PROVE  book'.orders = g /\ InOrder(book')
    <3>1. g = Restrict(book.orders, DOMAIN book.orders \ {m.uid})
      BY <2>1, <2>3 DEF Describes
    <3>2. 0 \in 0..book.orders[m.uid].quantity
      BY <1>3, <2>1
    <3> QED
      BY <1>1, <2>1, <2>3, <3>1, <3>2, ReducedExact
  <2> QED
    BY <1>1, <1>4, <2>1, <2>2, <2>3, ReadKeeps
<1>10. CASE ReceiveTrade(m)
  <2>1. /\ ReadMessage(m) /\ book' = Reduced(book, m.uid, m.quantity) /\ session' = session
        /\ receiving' = receiving /\ m.kind = "Trade" /\ m.uid \in DOMAIN book.orders
        /\ m.quantity <= book.orders[m.uid].quantity
    BY <1>10 DEF ReceiveTrade
  <2>2. m.quantity \in 0..book.orders[m.uid].quantity
    <3>1. m.quantity \in Nat
      BY <1>1, <2>1, MessageFields
    <3> QED
      BY <1>3, <2>1, <3>1
  <2>3. BookOK(book')
    BY <1>1, <2>1, <2>2, ReducedKeeps
  <2>4. ASSUME NEW g, Describes(book.orders, m, g), InOrder(book)
        PROVE  book'.orders = g /\ InOrder(book')
    <3>1. g = Executed(book.orders, m.uid, m.quantity)
      BY <2>1, <2>4 DEF Describes
    <3> QED
      BY <1>1, <2>1, <2>2, <2>4, <3>1, ReducedExact
  <2> QED
    BY <1>1, <1>4, <2>1, <2>3, <2>4, ReadKeeps
<1>11. CASE ReceiveExcessiveTrade(m)
  <2>1. /\ ReadMessage(m) /\ book' = book /\ session' = session /\ receiving' = FALSE
        /\ m.kind = "Trade" /\ m.uid \in DOMAIN book.orders
        /\ m.quantity > book.orders[m.uid].quantity
    BY <1>11 DEF ReceiveExcessiveTrade
  <2>2. m.quantity \in Nat
    BY <1>1, <2>1, MessageFields
  <2>3. ASSUME NEW g, Describes(book.orders, m, g) PROVE FALSE
    <3>1. m.quantity <= book.orders[m.uid].quantity
      BY <2>1, <2>3 DEF Describes
    <3> QED
      BY <1>3, <2>1, <2>2, <3>1
  <2>4. Sound'
    BY <1>1, <1>4, <2>1
  <2> QED
    BY <1>1, <2>1, <2>3, <2>4, ReadKeeps
<1> QED
  BY <1>5, <1>6, <1>7, <1>8, <1>9, <1>10, <1>11 DEF Receive

\* The invariant holds in every state the feed can reach.
LEMMA ReceiverInvariance == DataSpec => []ReceiverInv
<1>1. ReceiverInv /\ [DataNext]_dataVars => ReceiverInv'
  <2> SUFFICES ASSUME ReceiverInv, [DataNext]_dataVars PROVE ReceiverInv'
    OBVIOUS
  <2>1. CASE Publish
    BY <2>1, PublishAddKeeps, PublishDeleteKeeps, PublishTradeKeeps, PublishSessionKeeps
       DEF Publish
  <2>2. CASE SendMessage
    BY <2>2, SendMessageKeeps
  <2>3. CASE \E m \in network : Receive(m)
    BY <2>3, ReceiveKeeps
  <2>4. CASE UNCHANGED dataVars
    BY <2>4 DEF dataVars, feedVars, sender, links, receiver, ReceiverInv, Flags, VenueOK,
                Numbered, Departed, Told, Sound, Exact
  <2> QED
    BY <2>1, <2>2, <2>3, <2>4 DEF DataNext
<1> QED
  BY <1>1, ReceiverInit, PTL DEF DataSpec

\* The sequence check of read_message is enough: whatever the network loses, delays,
\* reorders or duplicates, a receiver that has logged no gap shows the venue's orders as
\* they were when its last message was sent, in their places in the queues.
THEOREM ExactUntilWarnedCorrect == DataSpec => []ExactUntilWarned
<1>1. ReceiverInv => ExactUntilWarned
  <2> SUFFICES ASSUME ReceiverInv, ~warned
               PROVE  /\ receiving
                      /\ Shows(book, OrdersAfter(history, last_sequence))
    BY DEF ExactUntilWarned, OrdersAfter
  <2>1. receiving /\ book.orders = OrdersAfter(history, last_sequence) /\ InOrder(book)
    BY DEF ReceiverInv, Exact
  <2>2. Linked(book)
    BY <2>1 DEF ReceiverInv, Sound, BookOK
  <2> QED
    BY <2>1, <2>2, Zenon DEF Shows, Linked, InOrder
<1> QED
  BY <1>1, ReceiverInvariance, PTL

\* The receiver's map, queues, best prices and volumes agree, and its book is never
\* crossed, after any loss, reordering and duplication: also when LimitOrderBook::limit
\* has matched an order against orders that are gone at the venue.
THEOREM ReceiverConsistentCorrect == DataSpec => []ReceiverConsistent
<1>1. ReceiverInv => ReceiverConsistent
  <2> SUFFICES ASSUME ReceiverInv PROVE ReceiverConsistent
    OBVIOUS
  <2>1. /\ Flags /\ Numbered /\ Told
        /\ book \in BookType /\ Priced(book) /\ Uncrossed(book)
        /\ receiving => Linked(book) /\ Counted(book)
    BY DEF ReceiverInv, Sound, TopOK, BookOK
  <2>2. DataTypeOK
    <3>1. last_sequence \in 0..MaxMessages
      BY <2>1, MaxMessagesAssumption DEF Numbered
    <3>2. \A u \in DOMAIN book.orders : book.orders[u] \in LiveOrder
      <4>1. book.orders \in [DOMAIN book.orders -> RestingOrder]
        BY <2>1, OrdersDef DEF BookType
      <4> QED
        BY <4>1, FeedPricesAssumption DEF RestingOrder, LiveOrder
    <3>3. \A i \in DOMAIN output_buffer : output_buffer[i] \in Message
      BY <2>1 DEF Told
    <3>4. ASSUME NEW m \in network PROVE m \in Message /\ m \notin Range(output_buffer)
      <4>1. DOMAIN output_buffer = 1..Len(output_buffer)
        BY <2>1 DEF Told
      <4>2. m.sequence \in 1..Departed /\ Departed \in Nat
        BY <2>1 DEF Numbered
      <4>3. \A i \in 1..Len(output_buffer) : output_buffer[i].sequence = Departed + i
        BY <2>1 DEF Numbered
      <4>4. \A i \in DOMAIN output_buffer : output_buffer[i] # m
        BY <4>1, <4>2, <4>3
      <4> QED
        BY <2>1, <4>4 DEF Told, Range
    <3>5. book.best \in [Side -> Prices \cup {NoPrice}]
      BY <2>1 DEF BookType
    <3> QED
      BY <2>1, <3>1, <3>2, <3>3, <3>4, <3>5, Zenon DEF DataTypeOK, Flags, Numbered
  <2>3. ASSUME \A s \in Side : book.best[s] # NoPrice
        PROVE  book.best["Buy"] < book.best["Sell"]
    <3>1. \A s \in Side : book.best[s] \in Limits(book, s)
      BY <2>1, <2>3, BestProperties DEF Priced
    <3> QED
      BY <2>1, <3>1 DEF Uncrossed, Side
  <2> QED
    BY <2>1, <2>2, <2>3, Zenon DEF ReceiverConsistent, VolumesAreShares, Linked, Priced, Counted
<1> QED
  BY <1>1, ReceiverInvariance, PTL

\* A step of the receiver's book leaves last_best_price at the best price, or at a price
\* at which the last order of the side rested.
THEOREM LastBestCorrect == DataSpec => LastBestKept
<1> DEFINE Keeps(s) == IF book'.best[s] # NoPrice
                       THEN book'.last_best[s] = book'.best[s]
                       ELSE book'.last_best[s] \in Limits(book, s) \cup {book.last_best[s]}
<1>1. ReceiverInv /\ ReceiverInv' /\ [DataNext]_dataVars => [\A s \in Side : Keeps(s)]_dataVars
  <2> SUFFICES ASSUME ReceiverInv, ReceiverInv', DataNext, NEW s \in Side PROVE Keeps(s)
    OBVIOUS
  <2>1. (receiving => BookOK(book)) /\ Priced(book')
    BY DEF ReceiverInv, Sound, TopOK
  <2>2. book'.best[s] # NoPrice => book'.last_best[s] = book'.best[s]
    BY <2>1 DEF Priced
  <2> SUFFICES ASSUME book'.best[s] = NoPrice
               PROVE  book'.last_best[s] \in Limits(book, s) \cup {book.last_best[s]}
    BY <2>2
  <2>3. CASE book' = book
    BY <2>3
  <2>4. CASE Diminished(book, book')
    BY <2>4 DEF Diminished
  <2>5. CASE \E m \in network : ReceiveAddOrder(m)
    <3>1. PICK m \in network : ReceiveAddOrder(m)
      BY <2>5
    <3>2. PICK o : o = [side |-> m.side, price |-> m.price, quantity |-> m.quantity]
      OBVIOUS
    <3>3. m \in Message /\ m.kind = "AddOrder" /\ m.uid \notin DOMAIN book.orders
          /\ book' = Limit(book, m.uid, o)
      BY <3>1, <3>2 DEF ReceiverInv, Told, ReceiveAddOrder
    <3>4. m.uid \in Nat /\ o \in RestingOrder
      BY <3>2, <3>3, MessageFields
    <3>5. BookOK(book)
      BY <2>1, <3>1, ReadFirst DEF Receive
    <3> QED
      BY <3>3, <3>4, <3>5, LimitKeeps
  <2>6. \/ book' = book \/ Diminished(book, book')
        \/ \E m \in network : ReceiveAddOrder(m)
        \/ \E u \in DOMAIN book.orders : BookOK(book) /\ book' = Rest(book, u)
    <3>1. CASE Publish
      BY <3>1 DEF Publish, PublishAdd, PublishDelete, PublishTrade, PublishSession, receiver
    <3>2. CASE SendMessage
      BY <3>2 DEF SendMessage, receiver
    <3>3. CASE \E m \in network : Receive(m)
      <4>1. PICK m \in network : Receive(m)
        BY <3>3
      <4>2. m \in Message /\ BookOK(book)
        BY <2>1, <4>1, ReadFirst DEF ReceiverInv, Told
      <4>3. CASE ReceiveDeleteOrder(m)
        BY <4>2, <4>3, UnlinkKeeps DEF ReceiveDeleteOrder
      <4>4. CASE ReceiveTrade(m)
        <5>1. m.uid \in DOMAIN book.orders /\ book' = Reduced(book, m.uid, m.quantity)
              /\ m.quantity <= book.orders[m.uid].quantity /\ m.kind = "Trade"
          BY <4>4 DEF ReceiveTrade
        <5>2. m.quantity \in Nat
          BY <4>2, <5>1, MessageFields
        <5>3. book.orders[m.uid].quantity \in Nat
          BY <4>2, <5>1, Queued DEF BookOK
        <5> QED
          BY <4>2, <5>1, <5>2, <5>3, ReducedKeeps
      <4> QED
        BY <4>1, <4>2, <4>3, <4>4 DEF Receive, ReceiveSession, ReceiveDuplicate, ReceiveUnknown,
                                ReceiveExcessiveTrade
    <3> QED
      BY <3>1, <3>2, <3>3 DEF DataNext
  <2>7. CASE \E u \in DOMAIN book.orders : BookOK(book) /\ book' = Rest(book, u)
    BY <2>7, RestTwice
  <2> QED
    BY <2>3, <2>4, <2>5, <2>6, <2>7
<1> QED
  BY <1>1, ReceiverInvariance, PTL DEF DataSpec, LastBestKept

-----------------------------------------------------------------------------
(* The strategies' decisions                                               *)

\* The prices the strategies look at.
LEMMA LastBestPrices ==
    ASSUME ReceiverInv
    PROVE  /\ \A s \in Side :
                 /\ book.last_best[s] \in 0..MaxPrice
                 /\ book.best[s] # NoPrice => /\ book.best[s] = book.last_best[s]
                                              /\ book.best[s] \in Limits(book, s)
           /\ book.best["Buy"] # NoPrice /\ book.best["Sell"] # NoPrice =>
                 book.best["Buy"] < book.best["Sell"]
<1>1. book \in BookType /\ Priced(book) /\ Uncrossed(book)
  BY DEF ReceiverInv, Sound, TopOK
<1>2. ASSUME NEW s \in Side PROVE book.last_best[s] \in 0..MaxPrice
  <2>1. book.last_best[s] \in Prices \cup {0}
    BY <1>1 DEF BookType
  <2> QED
    BY <2>1, PriceNumbers
<1>3. ASSUME NEW s \in Side, book.best[s] # NoPrice
      PROVE  book.best[s] = book.last_best[s] /\ book.best[s] \in Limits(book, s)
  BY <1>1, <1>3, BestProperties DEF Priced
<1>4. "Buy" \in Side /\ "Sell" \in Side
  BY DEF Side
<1>5. book.best["Buy"] # NoPrice /\ book.best["Sell"] # NoPrice =>
         book.best["Buy"] < book.best["Sell"]
  BY <1>1, <1>3, <1>4 DEF Uncrossed
<1> QED
  BY <1>2, <1>3, <1>5

\* The noise trader's orders inside the spread and the market maker's quotes rest, with
\* stale last best prices and at both ends of the range of prices too.
THEOREM PassiveOrdersRestCorrect == DataSpec => []PassiveOrdersRest
<1>1. ReceiverInv => PassiveOrdersRest
  <2> SUFFICES ASSUME ReceiverInv PROVE PassiveOrdersRest
    OBVIOUS
  <2> DEFINE S == last_best_sell
             B == last_best_buy
  <2>1. /\ S \in 0..MaxPrice /\ B \in 0..MaxPrice
        /\ book.best["Sell"] # NoPrice => book.best["Sell"] = S
        /\ book.best["Buy"] # NoPrice => book.best["Buy"] = B
        /\ book.best["Buy"] # NoPrice /\ book.best["Sell"] # NoPrice => B < S
    BY LastBestPrices DEF Side, last_best_sell, last_best_buy
  <2>2. ASSUME NEW r \in Inside PROVE WouldRest(r)
    <3>1. r.side \in Side /\ r.price \in (B + 1)..(S - 1)
      BY <2>1, <2>2, PriceNumbers DEF Inside
    <3>2. r.price # MarketPrice
      BY <2>1, <3>1 DEF MarketPrice
    <3>3. ~Crosses(book, r.side, r.price)
      <4>1. CASE r.side = "Buy"
        BY <2>1, <3>1, <4>1 DEF Crosses, Opposite, Meets
      <4>2. CASE r.side = "Sell"
        BY <2>1, <3>1, <4>2 DEF Crosses, Opposite, Meets
      <4> QED
        BY <3>1, <4>1, <4>2 DEF Side
    <3> QED
      BY <3>2, <3>3 DEF WouldRest
  <2>3. ASSUME TwoSided
        PROVE  /\ \A r \in AtBest : WouldRest(r)
               /\ \A r, q \in AtBest : r.side # q.side => ~Meets(r.side, r.price, q.price)
    <3>1. /\ book.best["Sell"] = S /\ book.best["Buy"] = B /\ 0 < B /\ B < S
          /\ book.best["Sell"] # NoPrice /\ book.best["Buy"] # NoPrice
      <4>1. book.best["Sell"] > 0 /\ book.best["Buy"] > 0
        BY <2>3 DEF TwoSided, Side
      <4>2. book.best["Sell"] # NoPrice /\ book.best["Buy"] # NoPrice
        BY <4>1 DEF NoPrice
      <4> QED
        BY <2>1, <4>1, <4>2
    <3>2. ASSUME NEW r \in AtBest
          PROVE  (r.side = "Sell" /\ r.price = S) \/ (r.side = "Buy" /\ r.price = B)
      BY DEF AtBest, Side, last_best_sell, last_best_buy
    <3> HIDE DEF S, B
    <3>3. ASSUME NEW r \in AtBest PROVE WouldRest(r)
      <4>1. CASE r.side = "Sell" /\ r.price = S
        BY <2>1, <3>1, <4>1 DEF WouldRest, MarketPrice, Crosses, Opposite, Meets
      <4>2. CASE r.side = "Buy" /\ r.price = B
        BY <2>1, <3>1, <4>2 DEF WouldRest, MarketPrice, Crosses, Opposite, Meets
      <4> QED
        BY <3>2, <4>1, <4>2
    <3>4. ASSUME NEW r \in AtBest, NEW q \in AtBest, r.side # q.side
          PROVE  ~Meets(r.side, r.price, q.price)
      <4>1. \/ r.side = "Sell" /\ r.price = S /\ q.price = B
            \/ r.side = "Buy" /\ r.price = B /\ q.price = S
        BY <3>2, <3>4
      <4> QED
        BY <2>1, <3>1, <4>1 DEF Meets
    <3> QED
      BY <3>3, <3>4
  <2> QED
    BY <2>2, <2>3 DEF PassiveOrdersRest
<1> QED
  BY <1>1, ReceiverInvariance, PTL

\* An order that is better than every order of its side, and meets none of the other
\* side, is alone at the best price when it rests.
LEMMA RestsFirst ==
    ASSUME NEW b, BookOK(b), NEW u \in Nat, u \notin DOMAIN b.orders, NEW o \in RestingOrder,
           \A r \in Limits(b, Opposite(o.side)) : ~Meets(o.side, o.price, r),
           \A r \in Limits(b, o.side) : IF o.side = "Buy" THEN r < o.price ELSE r > o.price
    PROVE  LET c == Rest(Kept(b, u, o), u)
           IN  c.best[o.side] = o.price /\ c.queue[o.side][o.price] = <<u>>
<1> DEFINE c == Rest(Kept(b, u, o), u)
<1>1. PICK s \in Side, p \in Prices : s = o.side /\ p = o.price
  BY DEF RestingOrder
<1>2. /\ BookOK(c)
      /\ c.best[s] # NoPrice
      /\ \A t \in Side, r \in Prices :
            c.queue[t][r] = IF t = s /\ r = p THEN Append(b.queue[t][r], u) ELSE b.queue[t][r]
  BY <1>1, RestKeeps
<1> HIDE DEF c
<1>3. p \in Nat /\ p \notin Limits(b, s)
  BY <1>1, PriceNumbers
<1>4. b.queue[s][p] = << >>
  BY <1>3 DEF Limits
<1>5. c.queue[s][p] = <<u>>
  <2>1. c.queue[s][p] = Append(b.queue[s][p], u)
    BY <1>2
  <2>2. Append(<< >>, u) = <<u>>
    OBVIOUS
  <2> QED
    BY <1>4, <2>1, <2>2
<1>6. p \in Limits(c, s) /\ \A r \in Limits(c, s) : r = p \/ r \in Limits(b, s)
  BY <1>2, <1>5 DEF Limits
<1>7. PICK z : z = c.best[s]
  OBVIOUS
<1>8. /\ z = BestOf(c, s) /\ z \in Limits(c, s) /\ z \in Nat
      /\ s = "Buy" => p <= z
      /\ s = "Sell" => p >= z
  <2>1. z = BestOf(c, s) /\ z # NoPrice
    BY <1>2, <1>7 DEF BookOK, Priced
  <2>2. z \in Limits(c, s)
    BY <2>1, BestProperties
  <2>3. z \in Nat
    BY <2>2, PriceNumbers DEF Limits
  <2> QED
    BY <1>6, <2>1, <2>2, <2>3, BestProperties
<1>9. z = p
  <2> SUFFICES ASSUME z # p PROVE FALSE
    OBVIOUS
  <2>1. z \in Limits(b, s)
    BY <1>6, <1>8
  <2>2. IF s = "Buy" THEN z < p ELSE z > p
    BY <1>1, <2>1
  <2> QED
    BY <1>3, <1>8, <2>2 DEF Side
<1> QED
  BY <1>1, <1>5, <1>7, <1>9 DEF c

\* LimitOrderBook::limit of an order that is better than every order of its side: it is
\* filled, or what is left of it is alone at the best price.
LEMMA LimitLeads ==
    ASSUME NEW b, BookOK(b), NEW u \in Nat, u \notin DOMAIN b.orders, NEW o \in RestingOrder,
           \A r \in Limits(b, o.side) : IF o.side = "Buy" THEN r < o.price ELSE r > o.price,
           Market(b, o).order.quantity # 0
    PROVE  Limit(b, u, o).best[o.side] = o.price /\ Limit(b, u, o).queue[o.side][o.price] = <<u>>
<1>1. o \in LiveOrder /\ o.side \in Side /\ o.price \in Nat
  BY PriceNumbers DEF RestingOrder, LiveOrder
<1>2. CASE ~Crosses(b, o.side, o.price)
  <2>1. Limit(b, u, o) = Rest(Kept(b, u, o), u)
    BY <1>2, Zenon DEF Limit, Kept
  <2>2. \A p \in Limits(b, Opposite(o.side)) : ~Meets(o.side, o.price, p)
    BY <1>1, <1>2, NothingMeets
  <2> QED
    BY <2>1, <2>2, RestsFirst
<1>3. CASE Crosses(b, o.side, o.price)
  <2> DEFINE d == Market(b, o).book
             a == Market(b, o).order
  <2>1. /\ BookOK(d) /\ Diminished(b, d)
        /\ a \in LiveOrder /\ a.side = o.side /\ a.price = o.price
        /\ a.quantity # 0 /\ ~CanMatch(d, a)
    BY <1>1, MarketKeeps
  <2>2. Limit(b, u, o) = Rest(Kept(d, u, a), u)
    BY <1>3, Zenon DEF Limit, Kept
  <2> HIDE DEF d, a
  <2>3. a \in RestingOrder
    BY <2>1 DEF RestingOrder, LiveOrder
  <2>4. ~Crosses(d, a.side, a.price)
    BY <2>1 DEF Crosses, CanMatch
  <2>5. \A p \in Limits(d, Opposite(a.side)) : ~Meets(a.side, a.price, p)
    BY <1>1, <2>1, <2>4, NothingMeets
  <2>6. u \notin DOMAIN d.orders
    BY <2>1 DEF Diminished
  <2>7. \A r \in Limits(d, a.side) : IF a.side = "Buy" THEN r < a.price ELSE r > a.price
    BY <1>1, <2>1 DEF Diminished
  <2>8. Rest(Kept(d, u, a), u).best[a.side] = a.price
        /\ Rest(Kept(d, u, a), u).queue[a.side][a.price] = <<u>>
    BY <2>1, <2>3, <2>5, <2>6, <2>7, RestsFirst
  <2> QED
    BY <2>1, <2>2, <2>8
<1> QED
  BY <1>2, <1>3

\* A mean reversion order is a limit order at every price the strategy can compute, and
\* is filled whole or leads its side: with a stale last best price too, because then its
\* side is empty.
THEOREM ReversionLeadsCorrect == DataSpec => []ReversionLeads
<1>1. ReceiverInv => ReversionLeads
  <2> SUFFICES ASSUME ReceiverInv, receiving, NEW r \in Reversion, NEW n \in Budgets \ {0},
                      NEW u \in (0..MaxMessages) \ DOMAIN book.orders, r.price \in Prices,
                      NEW o, o = [side |-> r.side, price |-> r.price, quantity |-> n],
                      Market(book, o).order.quantity # 0
               PROVE  /\ OrderRequest(book, u, o).best[r.side] = r.price
                      /\ OrderRequest(book, u, o).queue[r.side][r.price] = <<u>>
    BY Zenon DEF ReversionLeads
  <2>1. BookOK(book) /\ u \in Nat /\ u \notin DOMAIN book.orders
    BY MaxMessagesAssumption DEF ReceiverInv, Sound
  <2>2. last_best_sell \in 0..MaxPrice /\ last_best_buy \in 0..MaxPrice
    BY LastBestPrices DEF Side, last_best_sell, last_best_buy
  <2>3. \/ /\ r.side = "Sell" /\ r.price = last_best_sell - 1
           /\ last_best_sell # 0 /\ last_best_sell # 1
        \/ /\ r.side = "Buy" /\ r.price = last_best_buy + 1
           /\ last_best_buy # MaxPrice - 1 /\ last_best_buy # MaxPrice
    BY DEF Reversion
  <2>4. r.side \in Side /\ r.price \in Nat /\ r.price # 0
    BY <2>2, <2>3, PriceNumbers DEF Side
  <2>5. o \in RestingOrder /\ o.side = r.side /\ o.price = r.price
    BY <2>4, NoisesAssumption DEF RestingOrder
  <2>6. ASSUME NEW p \in Limits(book, r.side)
        PROVE  IF r.side = "Buy" THEN p < r.price ELSE p > r.price
    <3>1. PICK z : z = book.last_best[r.side]
      OBVIOUS
    <3>2. /\ z = BestOf(book, r.side) /\ z # NoPrice
      <4>1. BestOf(book, r.side) # NoPrice
        BY <2>4, <2>6, BestProperties
      <4> QED
        BY <2>1, <2>4, <3>1, <4>1 DEF BookOK, Priced
    <3>3. p \in Nat /\ z \in Nat
      BY <2>2, <2>4, <2>6, <3>1, PriceNumbers DEF Limits, Side, last_best_sell, last_best_buy
    <3>4. (r.side = "Buy" => p <= z) /\ (r.side = "Sell" => p >= z)
      BY <2>4, <2>6, <3>2, BestProperties
    <3>5. \/ r.side = "Sell" /\ r.price = z - 1
          \/ r.side = "Buy" /\ r.price = z + 1
      BY <2>3, <3>1 DEF last_best_sell, last_best_buy
    <3> QED
      BY <3>3, <3>4, <3>5
  <2>7. OrderRequest(book, u, o) = Limit(book, u, o)
    BY <2>4, <2>5, Zenon DEF OrderRequest, MarketPrice
  <2>8. \A p \in Limits(book, o.side) : IF o.side = "Buy" THEN p < o.price ELSE p > o.price
    BY <2>5, <2>6
  <2>9. /\ Limit(book, u, o).best[o.side] = o.price
        /\ Limit(book, u, o).queue[o.side][o.price] = <<u>>
    <3>1. PICK v \in Nat, a \in RestingOrder : v = u /\ a = o
      BY <2>1, <2>5
    <3>2. Market(book, a).order.quantity # 0 /\ v \notin DOMAIN book.orders
      BY <2>1, <3>1
    <3>3. \A p \in Limits(book, a.side) : IF a.side = "Buy" THEN p < a.price ELSE p > a.price
      BY <2>8, <3>1
    <3>4. Limit(book, v, a).best[a.side] = a.price /\ Limit(book, v, a).queue[a.side][a.price] = <<v>>
      BY <2>1, <3>2, <3>3, LimitLeads
    <3> QED
      BY <3>1, <3>4
  <2> QED
    BY <2>5, <2>7, <2>9
<1> QED
  BY <1>1, ReceiverInvariance, PTL

\* does_cross: the sum does not wrap around, and so the spread is really there.
LEMMA DoesCrossPays ==
    ASSUME NEW here, NEW there, here["Sell"] \in 0..MaxPrice, there["Buy"] \in 0..MaxPrice,
           DoesCross(here, there)
    PROVE  there["Buy"] - here["Sell"] > Spread
<1>1. PICK x \in Nat : x = here["Sell"] + Spread
  BY NoisesAssumption
<1>2. x <= MaxPrice /\ x % (MaxPrice + 1) < there["Buy"]
  BY <1>1, NoisesAssumption, PriceNumbers DEF DoesCross
<1>3. x % (MaxPrice + 1) = x
  BY <1>2, PriceNumbers
<1> QED
  BY <1>1, <1>2, <1>3, NoisesAssumption, PriceNumbers

\* The arbitrageur never trades for less than the spread.
THEOREM CrossPaysCorrect == DataSpec => []CrossPays
<1>1. ReceiverInv => CrossPays
  <2> SUFFICES ASSUME ReceiverInv, NEW other \in [Side -> Prices \cup {0}],
                      NEW r \in Arbitrage(Top, other)
               PROVE  r.sell["Buy"] - r.buy["Sell"] > Spread
    BY DEF CrossPays
  <2>1. \A s \in Side : Top[s] \in 0..MaxPrice
    BY LastBestPrices, PriceNumbers DEF Top
  <2>2. \A s \in Side : other[s] \in 0..MaxPrice
    BY PriceNumbers
  <2>3. \/ DoesCross(Top, other) /\ r.buy = Top /\ r.sell = other
        \/ DoesCross(other, Top) /\ r.buy = other /\ r.sell = Top
    BY DEF Arbitrage
  <2>4. "Buy" \in Side /\ "Sell" \in Side
    BY DEF Side
  <2> QED
    BY <2>1, <2>2, <2>3, <2>4, DoesCrossPays
<1> QED
  BY <1>1, ReceiverInvariance, PTL

-----------------------------------------------------------------------------
(* Market orders of a size that the best price has                         *)

\* Only the queue at the price of order u changes.
LEMMA QueuesElsewhere ==
    ASSUME NEW b, BookOK(b), NEW u \in DOMAIN b.orders, NEW n \in 0..b.orders[u].quantity,
           NEW t \in Side, t = b.orders[u].side, NEW z \in Prices, z = b.orders[u].price
    PROVE  /\ \A p \in Prices \ {z} : /\ Unlink(b, u).queue[t][p] = b.queue[t][p]
                                      /\ Reduced(b, u, n).queue[t][p] = b.queue[t][p]
           /\ Unlink(b, u).limit_volume[t][z] = b.limit_volume[t][z] - b.orders[u].quantity
<1>1. b \in BookType /\ Linked(b)
  BY DEF BookOK
<1>2. /\ b.queue \in [Side -> [Prices -> Seq(Nat)]] /\ b.limit_volume \in [Side -> [Prices -> Int]]
      /\ b.orders[u].quantity \in Nat
  <2>1. b.orders[u].quantity \in Nat
    BY <1>1, Queued, ZenonT(30)
  <2> QED
    BY <1>1, <2>1 DEF BookType
<1>3. /\ Unlink(b, u).queue = [b.queue EXCEPT ![t][z] = Without(@, u)]
      /\ Unlink(b, u).limit_volume = [b.limit_volume EXCEPT ![t][z] = @ + -b.orders[u].quantity]
  BY <1>1, UnlinkFields
<1>4. Shrink(b, u, n).queue = b.queue
  BY <1>1, ShrinkFields
<1>5. \A p \in Prices \ {z} : Unlink(b, u).queue[t][p] = b.queue[t][p]
  BY <1>2, <1>3
<1>6. Unlink(b, u).limit_volume[t][z] = b.limit_volume[t][z] - b.orders[u].quantity
  BY <1>2, <1>3
<1> QED
  BY <1>4, <1>5, <1>6, Zenon DEF Reduced

\* A limit that has shares left is still the best one after others have gone.
LEMMA BestStays ==
    ASSUME NEW b, BookOK(b), NEW c, BookOK(c), Diminished(b, c), NEW t \in Side, NEW z \in Prices,
           z = b.best[t], c.limit_volume[t][z] # 0
    PROVE  c.best[t] = z
<1>1. /\ b.best[t] = BestOf(b, t) /\ c.best[t] = BestOf(c, t) /\ Linked(c) /\ Counted(c)
      /\ c \in BookType
  BY DEF BookOK, Priced
<1>2. OrdersAt(c.orders, t, z) # {}
  <2>1. SharesOf(c.orders, {}) = 0
    BY SharesNone
  <2> QED
    BY <1>1, <2>1 DEF Counted
<1>3. Range(c.queue[t][z]) # {}
  BY <1>1, <1>2 DEF Linked
<1>4. c.queue[t][z] # << >>
  BY <1>3 DEF Range
<1>5. z \in Limits(c, t)
  BY <1>4 DEF Limits
<1>6. PICK y : y = c.best[t]
  OBVIOUS
<1>7. y \in Limits(c, t) /\ y \in Limits(b, t)
  <2>1. y # NoPrice
    BY <1>1, <1>5, <1>6, BestProperties
  <2> QED
    BY <1>1, <1>6, <2>1, BestProperties DEF Diminished
<1>8. y \in Nat /\ z \in Nat
  BY <1>7, PriceNumbers DEF Limits
<1>9. /\ t = "Buy" => z <= y /\ y <= z
      /\ t = "Sell" => z >= y /\ y >= z
  BY <1>1, <1>5, <1>6, <1>7, BestProperties
<1> QED
  BY <1>6, <1>8, <1>9 DEF Side

\* What has been done for a market order that the best price of book b can fill.
Taking(b, o, r) ==
    LET t == Opposite(o.side)
        z == b.best[t]
    IN  /\ \A p \in Prices \ {z} : r.book.queue[t][p] = b.queue[t][p]
        /\ ~r.done => /\ r.book.best[t] = z
                      /\ 0 < r.order.quantity
                      /\ r.order.quantity <= r.book.limit_volume[t][z]

\* One pass for such an order.
LEMMA MatchTakes ==
    ASSUME NEW b, NEW o, o.price = 0, NEW k, NEW r, Running(b, o, k, r), Taking(b, o, r),
           o.side \in Side, b.best[Opposite(o.side)] # NoPrice,
           b.best[Opposite(o.side)] \in Prices, NEW i
    PROVE  Taking(b, o, Match(r, i))
<1>1. PICK t \in Side : t = Opposite(o.side)
  BY DEF Opposite, Side
<1>2. PICK z \in Prices : z = b.best[t] /\ z # NoPrice
  BY <1>1
<1>3. /\ BookOK(r.book) /\ r.order \in LiveOrder /\ r.order.side = o.side /\ r.order.price = 0
      /\ r.done \in BOOLEAN
  BY DEF Running
<1>4. /\ \A p \in Prices \ {z} : r.book.queue[t][p] = b.queue[t][p]
      /\ ~r.done => /\ r.book.best[t] = z
                    /\ 0 < r.order.quantity
                    /\ r.order.quantity <= r.book.limit_volume[t][z]
  BY <1>1, <1>2 DEF Taking
<1>5. CASE r.done
  <2>1. Match(r, i) = r
    BY <1>5, MatchEnded
  <2> QED
    BY <2>1
<1>6. CASE ~r.done
  <2> DEFINE u == Head(r.book.queue[t][r.book.best[t]])
             n == r.book.orders[u].quantity
             q == r.order.quantity
             m == Match(r, i)
  <2>1. CanMatch(r.book, r.order)
    BY <1>1, <1>2, <1>3, <1>4, <1>6 DEF CanMatch
  <2>2. q \in Nat /\ r.book.best[t] = z /\ 0 < q /\ q <= r.book.limit_volume[t][z]
    BY <1>3, <1>4, <1>6 DEF LiveOrder
  <2>3. /\ u \in DOMAIN r.book.orders /\ n \in Nat
        /\ r.book.orders[u].side = t /\ r.book.orders[u].price = z
    BY <1>2, <1>3, <2>2, FirstOpponent, Zenon
  <2>4. Passed(r, u, n, q, m)
    <3>1. t = Opposite(r.order.side)
      BY <1>1, <1>3
    <3>2. n \in Nat /\ q \in Nat
      BY <2>2, <2>3, Zenon
    <3>3. /\ u = Head(r.book.queue[t][r.book.best[t]])
          /\ n = r.book.orders[u].quantity /\ q = r.order.quantity
      OBVIOUS
    <3> HIDE DEF u, n, q
    <3> QED
      BY <1>6, <2>1, <3>1, <3>2, <3>3, MatchGoes, Zenon
  <2>5. n = r.book.orders[u].quantity
    OBVIOUS
  <2> HIDE DEF u, n, q, m
  <2>6. SUFFICES /\ \A p \in Prices \ {z} : m.book.queue[t][p] = b.queue[t][p]
                 /\ ~m.done => /\ m.book.best[t] = z
                               /\ 0 < m.order.quantity
                               /\ m.order.quantity <= m.book.limit_volume[t][z]
    BY <1>1, <1>2 DEF Taking, m
  <2>7. CASE n >= q
    <3>1. m.book = Reduced(r.book, u, q) /\ m.done = TRUE
      BY <2>4, <2>7 DEF Passed
    <3>2. q \in 0..r.book.orders[u].quantity
      BY <2>2, <2>3, <2>5, <2>7
    <3>3. \A p \in Prices \ {z} : Reduced(r.book, u, q).queue[t][p] = r.book.queue[t][p]
      BY <1>3, <2>3, <3>2, QueuesElsewhere
    <3> QED
      BY <1>4, <3>1, <3>3
  <2>8. CASE ~(n >= q)
    <3>1. m.book = Unlink(r.book, u) /\ m.order = [r.order EXCEPT !.quantity = q - n]
      BY <2>4, <2>8 DEF Passed
    <3>2. 0 \in 0..r.book.orders[u].quantity
      BY <2>3, <2>5
    <3>3. /\ \A p \in Prices \ {z} : Unlink(r.book, u).queue[t][p] = r.book.queue[t][p]
          /\ Unlink(r.book, u).limit_volume[t][z] = r.book.limit_volume[t][z] - n
      BY <1>3, <2>3, <2>5, <3>2, QueuesElsewhere
    <3>4. BookOK(m.book) /\ Diminished(r.book, m.book)
      BY <1>3, <2>3, <3>1, UnlinkKeeps
    <3>5. m.order.quantity = q - n
      BY <1>3, <3>1 DEF LiveOrder
    <3>6. r.book.limit_volume[t][z] \in Int
      BY <1>3 DEF BookOK, BookType
    <3>7. /\ m.book.limit_volume[t][z] = r.book.limit_volume[t][z] - n
          /\ 0 < q - n /\ q - n <= r.book.limit_volume[t][z] - n
      BY <2>2, <2>3, <2>8, <3>1, <3>3, <3>6
    <3>8. m.book.limit_volume[t][z] # 0
      BY <2>2, <2>3, <3>6, <3>7
    <3>9. m.book.best[t] = z
      BY <1>3, <2>2, <3>4, <3>8, BestStays
    <3> QED
      BY <1>4, <3>1, <3>3, <3>5, <3>7, <3>9
  <2> QED
    BY <2>7, <2>8
<1> QED
  BY <1>3, <1>5, <1>6

\* The order is filled whole, at the best price only.
LEMMA MarketTakes ==
    ASSUME NEW b, BookOK(b), NEW o \in LiveOrder, o.price = 0, o.quantity > 0,
           b.best[Opposite(o.side)] # NoPrice,
           o.quantity <= b.limit_volume[Opposite(o.side)][b.best[Opposite(o.side)]]
    PROVE  /\ Market(b, o).order.quantity = 0
           /\ \A p \in Prices \ {b.best[Opposite(o.side)]} :
                 Market(b, o).book.queue[Opposite(o.side)][p] = b.queue[Opposite(o.side)][p]
<1> DEFINE N == Cardinality(DOMAIN b.orders)
           t == Opposite(o.side)
           z == b.best[t]
           r == [book |-> b, order |-> o, done |-> FALSE]
<1>1. o.side \in Side /\ t \in Side /\ z # NoPrice /\ z \in Prices
  <2>1. o.side \in Side /\ t \in Side
    BY DEF LiveOrder, Opposite, Side
  <2>2. z \in Prices \cup {NoPrice}
    BY <2>1 DEF BookOK, BookType
  <2> QED
    BY <2>1, <2>2
<1>2. PICK v : /\ N \in Nat
               /\ v[0] = r
               /\ \A i \in 1..N : v[i] = Match(v[i - 1], i)
               /\ \A i \in 0..N : Running(b, o, N - i, v[i])
               /\ Market(b, o) = v[N]
  BY MarketRun
<1>3. Taking(b, o, r)
  BY DEF Taking
<1>4. z = b.best[t] /\ t = Opposite(o.side)
  OBVIOUS
<1> HIDE DEF N, r, t, z
<1>5. \A i \in 0..N : Taking(b, o, v[i])
  <2> DEFINE T == {i \in Nat : i <= N => Taking(b, o, v[i])}
  <2>1. 0 \in T
    BY <1>2, <1>3
  <2>2. ASSUME NEW i \in Nat, i \in T PROVE i + 1 \in T
    <3> SUFFICES ASSUME i + 1 <= N PROVE Taking(b, o, v[i + 1])
      OBVIOUS
    <3>1. i + 1 \in 1..N /\ (i + 1) - 1 = i /\ i \in 0..N
      BY <1>2
    <3>2. v[i + 1] = Match(v[i], i + 1) /\ Running(b, o, N - i, v[i])
      BY <1>2, <3>1
    <3>3. Taking(b, o, v[i])
      BY <1>2, <2>2, <3>1
    <3>4. Taking(b, o, Match(v[i], i + 1))
      BY <1>1, <1>4, <3>2, <3>3, MatchTakes
    <3> QED
      BY <3>2, <3>4
  <2> HIDE DEF T
  <2>3. \A i \in Nat : i \in T
    BY <2>1, <2>2, Induction
  <2> QED
    BY <1>2, <2>3 DEF T
<1>6. PICK m : m = Market(b, o)
  OBVIOUS
<1>7. Taking(b, o, m) /\ m.done \in BOOLEAN /\ (m.done => m.order.quantity = 0)
  <2>1. N \in 0..N
    BY <1>2
  <2> QED
    BY <1>2, <1>5, <1>6, <2>1 DEF Running
<1>8. /\ m.order.side = o.side /\ m.order.price = o.price
      /\ m.order.quantity # 0 => ~CanMatch(m.book, m.order)
  BY <1>6, MarketKeeps
<1>9. /\ \A p \in Prices \ {z} : m.book.queue[t][p] = b.queue[t][p]
      /\ ~m.done => m.book.best[t] = z /\ 0 < m.order.quantity
  BY <1>4, <1>7 DEF Taking
<1>10. m.done
  <2> SUFFICES ASSUME ~m.done PROVE FALSE
    OBVIOUS
  <2>1. m.order.quantity # 0 /\ m.book.best[t] # NoPrice
    BY <1>1, <1>9
  <2> QED
    BY <1>4, <1>8, <2>1 DEF CanMatch
<1> QED
  BY <1>4, <1>6, <1>7, <1>9, <1>10

\* The smaller of two numbers.
LEMMA SmallerOf ==
    ASSUME NEW x \in Int, NEW y \in Int
    PROVE  Min({x, y}) \in {x, y} /\ Min({x, y}) <= x /\ Min({x, y}) <= y
<1>1. \E w \in {x, y} : \A v \in {x, y} : w <= v
  <2>1. CASE x <= y
    BY <2>1
  <2>2. CASE y <= x
    BY <2>2
  <2> QED
    BY <2>1, <2>2
<1> QED
  BY <1>1 DEF Min

\* A liquidity consumer's order is filled whole at the best price, and the noise
\* trader's orders that cross the spread meet the orders at that price only.
THEOREM TakesBestOnlyCorrect == DataSpec => []TakesBestOnly
<1>1. ReceiverInv => TakesBestOnly
  <2> SUFFICES ASSUME ReceiverInv PROVE TakesBestOnly
    OBVIOUS
  <2>1. (receiving => BookOK(book)) /\ book \in BookType /\ Priced(book)
    BY DEF ReceiverInv, Sound, TopOK
  <2>2. ASSUME receiving, NEW s \in Side, NEW n \in Budgets, Consume(s, n) > 0,
               NEW o, o = [side |-> s, price |-> MarketPrice, quantity |-> Consume(s, n)]
        PROVE  /\ Market(book, o).order.quantity = 0
               /\ \A p \in Prices \ {book.best[Opposite(s)]} :
                     Market(book, o).book.queue[Opposite(s)][p] = book.queue[Opposite(s)][p]
    <3>1. PICK t \in Side : t = Opposite(s)
      BY DEF Opposite, Side
    <3>2. n \in Nat
      BY NoisesAssumption
    <3>3. VolumeBest(t) \in Int
      BY <2>1 DEF VolumeBest, BookType
    <3>4. /\ Consume(s, n) \in Nat /\ Consume(s, n) <= VolumeBest(t)
      <4>1. Consume(s, n) > 0
        BY <2>2
      <4>2. Consume(s, n) = Min({VolumeBest(t), n})
        BY <3>1 DEF Consume
      <4>3. PICK x \in Int : x = VolumeBest(t)
        BY <3>3
      <4>4. Min({x, n}) \in {x, n} /\ Min({x, n}) <= x
        BY <3>2, SmallerOf
      <4> QED
        BY <3>2, <4>1, <4>2, <4>3, <4>4
    <3>5. book.best[t] # NoPrice /\ VolumeBest(t) = book.limit_volume[t][book.best[t]]
      BY <2>2, <3>4 DEF VolumeBest
    <3>6. /\ o \in LiveOrder /\ o.side = s /\ o.price = 0 /\ o.quantity = Consume(s, n)
      BY <2>2, <3>4 DEF LiveOrder, MarketPrice
    <3> QED
      BY <2>1, <2>2, <3>1, <3>4, <3>5, <3>6, MarketTakes
  <2>3. ASSUME NEW r \in Cross, book.best[Opposite(r.side)] > 0
        PROVE  /\ Crosses(book, r.side, r.price)
               /\ {p \in Limits(book, Opposite(r.side)) : Meets(r.side, r.price, p)}
                     = {book.best[Opposite(r.side)]}
    <3>1. r.side \in Side /\ r.price = book.last_best[Opposite(r.side)]
      BY DEF Cross
    <3>2. PICK t \in Side : t = Opposite(r.side)
      BY <3>1 DEF Opposite, Side
    <3>3. PICK z : z = book.best[t]
      OBVIOUS
    <3>4. z # NoPrice /\ z = r.price /\ z \in Limits(book, t)
      BY <2>3, <3>1, <3>2, <3>3, LastBestPrices DEF NoPrice
    <3>5. z \in Nat /\ \A p \in Limits(book, t) : p \in Nat
      BY <3>4, PriceNumbers DEF Limits
    <3>6. z = BestOf(book, t)
      BY <2>1, <3>3 DEF Priced
    <3>7. Meets(r.side, r.price, z)
      BY <3>4, <3>5 DEF Meets
    <3>8. ASSUME NEW p \in Limits(book, t), Meets(r.side, r.price, p) PROVE p = z
      <4>1. (t = "Buy" => p <= z) /\ (t = "Sell" => p >= z)
        BY <3>6, BestProperties
      <4>2. CASE r.side = "Buy"
        BY <3>2, <3>4, <3>5, <3>8, <4>1, <4>2 DEF Meets, Opposite
      <4>3. CASE r.side = "Sell"
        BY <3>2, <3>4, <3>5, <3>8, <4>1, <4>3 DEF Meets, Opposite
      <4> QED
        BY <3>1, <4>2, <4>3 DEF Side
    <3> QED
      BY <3>2, <3>3, <3>4, <3>7, <3>8 DEF Crosses
  <2> QED
    BY <2>2, <2>3, Zenon DEF TakesBestOnly
<1> QED
  BY <1>1, ReceiverInvariance, PTL
=============================================================================
