----------------------------- MODULE OrderBook -----------------------------
(***************************************************************************)
(* The matching engine of the venue: OrderEntry::LOB::LimitOrderBook, its  *)
(* two LimitTrees and the Accounts its trades settle on.                   *)
(*                                                                         *)
(* One call of limit_sell, limit_buy, market_sell or market_buy is a small *)
(* number of steps: the call itself, one step per iteration of the match   *)
(* loop of LimitTree::market, and the step that ends the call.  The order  *)
(* being executed is `taker'; while it is there no other call can start,   *)
(* because the venue runs every handler to completion on one thread.       *)
(*                                                                         *)
(* A Limit is a price of `levels'; its doubly linked list of orders is the *)
(* sequence `queue', oldest order first.  The tree that sorts the limits   *)
(* is abstracted to the set `levels' and the relation IsBest.              *)
(*                                                                         *)
(* A definition named Fault_X is a wrong version of X.  No specification   *)
(* uses it: it documents the mistake that the properties must catch.       *)
(***************************************************************************)
EXTENDS Integers, Sequences, FiniteSets, Functions, FiniteSetsExt, SequencesExt, Collections

CONSTANTS
    Accounts,    \* the trading accounts of the venue
    Prices,      \* the limit prices an order may carry (0: see CanMatch)
    Quantities,  \* the quantities an order may carry
    MaxOrders    \* bound on the order IDs the book hands out

ASSUME AccountsAssumption   == IsFiniteSet(Accounts)
ASSUME PricesAssumption     == Prices \subseteq Nat
ASSUME QuantitiesAssumption == Quantities \subseteq Nat
ASSUME MaxOrdersAssumption  == MaxOrders \in Nat

VARIABLES
    orders,        \* the map from order ID to resting order
    levels,        \* per side, the prices that have a Limit
    queue,         \* per side and price, the IDs of the limit's orders
    limitCount,    \* per side and price, Limit::count
    limitVolume,   \* per side and price, Limit::volume
    best,          \* per side, the price of LimitTree::best
    count,         \* per side, LimitTree::count
    volume,        \* per side, LimitTree::volume
    sequence,      \* the next order ID
    taker,         \* the order the running call executes
    shares,        \* per account, Account::shares
    capital,       \* per account, Account::capital
    active,        \* per account, the IDs in Account::orders
    published      \* the orders a subscriber that got every feed message holds

tree     == <<levels, queue, limitCount, limitVolume, best, count, volume>>
accounts == <<shares, capital, active>>
vars     == <<orders, tree, sequence, taker, accounts, published>>

Side == {"Sell", "Buy"}
UID  == Nat \ {0}

\* The price of a best pointer that is nullptr.
NoPrice == -1

\* What a caller is told instead of an order ID: ORDER_ID_REJECTED/_MARKET.
NoUID == 0

Order == [side : Side, quantity : Nat, price : Prices, account : Accounts]

\* The order a call executes.  "market": LimitTree::market is looping; "filled":
\* it has returned with nothing left; "rest": the order did not cross.  The map
\* entry that limit_sell and limit_buy make before matching is this record
\* until the order rests: nothing reads the entry before.
Taker == [side : Side, quantity : Nat, price : Nat, account : Accounts,
          limit : BOOLEAN, phase : {"market", "filled", "rest"}]

\* Between two calls.
NoTaker == [phase |-> "idle"]

Idle == taker.phase = "idle"

-----------------------------------------------------------------------------
(* Sides and prices.                                                       *)

Opposite(s) == IF s = "Sell" THEN "Buy" ELSE "Sell"

\* set_best's comparison: on side s, price p is strictly better than price r.
Better(s, p, r) == IF s = "Buy" THEN p > r ELSE p < r

\* Fault: the first limit stays the best one.
Fault_SetBest(s, p) == IF best[s] = NoPrice THEN p ELSE best[s]

\* set_best
SetBest(s, p) == IF best[s] = NoPrice \/ Better(s, p, best[s]) THEN p ELSE best[s]

\* find_best, as a relation: b is the best of the prices P of side s.
IsBest(s, P, b) ==
    IF P = {} THEN b = NoPrice
              ELSE b \in P /\ \A r \in P : ~Better(s, r, b)

\* Fault: once matching has started, the limit price is forgotten.
Fault_CanMatch(s, p, market) == TRUE

\* can_match<s>: a limit of side s at price p against an order with price
\* `market'.  0 stands for no limit.
CanMatch(s, p, market) ==
    \/ market = 0
    \/ IF s = "Buy" THEN market <= p ELSE market >= p

\* Fault: an order at exactly the opposite best price does not cross.
Fault_Crosses(s, p) ==
    LET b == best[Opposite(s)]
    IN  b # NoPrice /\ (IF s = "Sell" THEN p < b ELSE p > b)

\* The condition on which limit_sell and limit_buy go to the market first.
Crosses(s, p) ==
    LET b == best[Opposite(s)]
    IN  b # NoPrice /\ (IF s = "Sell" THEN p <= b ELSE p >= b)

-----------------------------------------------------------------------------
(* What the feed tells a subscriber.  `published' is the subscriber's      *)
(* record after each message.                                              *)

\* Messages::AddOrder
AddOrderMessage(u, s, p, q) ==
    published' = [v \in DOMAIN published \cup {u} |->
                    IF v = u THEN [side |-> s, price |-> p, quantity |-> q]
                             ELSE published[v]]

\* Messages::DeleteOrder
DeleteOrderMessage(u) == published' = Restrict(published, DOMAIN published \ {u})

\* Fault: the message carries what is left instead of what was traded.
Fault_TradeMessage(u, n) ==
    published' = IF published[u].quantity = n
                 THEN Restrict(published, DOMAIN published \ {u})
                 ELSE [published EXCEPT ![u].quantity = n]

\* Messages::Trade: n shares of resting order u were executed.
TradeMessage(u, n) ==
    published' = IF published[u].quantity = n
                 THEN Restrict(published, DOMAIN published \ {u})
                 ELSE [published EXCEPT ![u].quantity = @ - n]

-----------------------------------------------------------------------------
(* LimitTree                                                               *)

\* The update of LimitTree::count and LimitTree::volume.
TreeTotals(s, n, v) ==
    /\ count'  = [count EXCEPT ![s] = @ + n]
    /\ volume' = [volume EXCEPT ![s] = @ + v]

\* The update of Limit::count and Limit::volume.
LimitTotals(s, p, n, v) ==
    /\ limitCount'  = [limitCount EXCEPT ![s][p] = @ + n]
    /\ limitVolume' = [limitVolume EXCEPT ![s][p] = @ + v]

\* DLL::append on the tail of the limit's queue
Enqueue(q, u) == Append(q, u)

\* The constructor Limit(order)
NewLimit(u, o) ==
    /\ queue'       = [queue EXCEPT ![o.side][o.price] = <<u>>]
    /\ limitCount'  = [limitCount EXCEPT ![o.side][o.price] = 1]
    /\ limitVolume' = [limitVolume EXCEPT ![o.side][o.price] = o.quantity]

\* Account::limit
AccountLimit(a, u) == active' = [active EXCEPT ![a] = @ \cup {u}]

\* LimitTree::limit
TreeLimit(u, o) ==
    LET s == o.side
        p == o.price
    IN  /\ \/ /\ p \notin levels[s]            \* first order at the limit price
              /\ NewLimit(u, o)
              /\ levels' = [levels EXCEPT ![s] = @ \cup {p}]
              /\ best'   = [best EXCEPT ![s] = SetBest(s, p)]
           \/ /\ p \in levels[s]               \* push to the existing queue
              /\ LimitTotals(s, p, 1, o.quantity)
              /\ queue'  = [queue EXCEPT ![s][p] = Enqueue(@, u)]
              /\ UNCHANGED <<levels, best>>
        /\ TreeTotals(s, 1, o.quantity)
        /\ AccountLimit(o.account, u)
        /\ AddOrderMessage(u, s, p, o.quantity)

\* Fault: the head of the queue is unlinked, whichever order was asked for.
Fault_Position(s, p, u) == 1

\* The place of order u in the queue of its limit.
Position(s, p, u) == CHOOSE i \in DOMAIN queue[s][p] : queue[s][p][i] = u

\* LimitTree::remove, last order at its price: the Limit goes with it.
RemoveLimit(s, p) ==
    /\ Len(queue[s][p]) = 1
    /\ levels' = [levels EXCEPT ![s] = @ \ {p}]
    /\ \/ best[s] # p /\ best' = best
       \/ best[s] = p /\ \E b \in Prices \cup {NoPrice} :
                            /\ IsBest(s, levels[s] \ {p}, b)
                            /\ best' = [best EXCEPT ![s] = b]
    /\ queue'       = [queue EXCEPT ![s][p] = <<>>]
    /\ limitCount'  = [limitCount EXCEPT ![s][p] = 0]
    /\ limitVolume' = [limitVolume EXCEPT ![s][p] = 0]

\* LimitTree::remove, at least one other order at the price: DLL::remove.
RemoveFromLimit(s, p, u) ==
    /\ Len(queue[s][p]) # 1
    /\ LimitTotals(s, p, -1, -orders[u].quantity)
    /\ queue' = [queue EXCEPT ![s][p] = RemoveAt(@, Position(s, p, u))]
    /\ UNCHANGED <<levels, best>>

\* LimitTree::remove, and the erase of the order from the map that follows it
\* in every caller.
TreeRemove(u) ==
    LET s == orders[u].side
        p == orders[u].price
    IN  /\ RemoveLimit(s, p) \/ RemoveFromLimit(s, p, u)
        /\ TreeTotals(s, -1, -orders[u].quantity)
        /\ orders' = Restrict(orders, DOMAIN orders \ {u})

-----------------------------------------------------------------------------
(* Account                                                                 *)

\* Fault: the account keeps the order.
Fault_AccountCancel(u) == active' = active

\* Account::cancel
AccountCancel(u) == active' = [active EXCEPT ![orders[u].account] = @ \ {u}]

\* The change of an account's shares in a fill of n shares on side s.
Signed(s, n) == IF s = "Buy" THEN n ELSE -n

\* The shares and the capital of all accounts.
Positions == [shares |-> shares, capital |-> capital]

\* Account::fill on account a, of positions x.
Fill(x, a, s, n, p) ==
    [shares  |-> [x.shares EXCEPT ![a] = @ + Signed(s, n)],
     capital |-> [x.capital EXCEPT ![a] = @ - p * Signed(s, n)]]

\* Account::market_fill, with resting order u: the order being executed is done.
MarketFill(x, u) == Fill(x, taker.account, taker.side, taker.quantity, orders[u].price)

\* Account::market_partial: the order being executed takes all that u has.
MarketPartial(x, u) == Fill(x, taker.account, taker.side, orders[u].quantity, orders[u].price)

\* Account::limit_fill: the resting order is done.
LimitFill(x, u) ==
    Fill(x, orders[u].account, orders[u].side, orders[u].quantity, orders[u].price)

\* Fault: the resting order is filled by what is left of it: its quantity has been
\* reduced by the time of the call.
Fault_LimitPartial(x, u) ==
    Fill(x, orders[u].account, orders[u].side, orders[u].quantity - taker.quantity,
         orders[u].price)

\* Account::limit_partial: the resting order gives what the other one wants.
LimitPartial(x, u) ==
    Fill(x, orders[u].account, orders[u].side, taker.quantity, orders[u].price)

\* The accounts after the fills of a trade.
Settle(x) == shares' = x.shares /\ capital' = x.capital

-----------------------------------------------------------------------------
(* The calls of the book.                                                  *)

Init ==
    /\ orders = << >>
    /\ levels = [s \in Side |-> {}]
    /\ queue = [s \in Side |-> [p \in Prices |-> << >>]]
    /\ limitCount = [s \in Side |-> [p \in Prices |-> 0]]
    /\ limitVolume = [s \in Side |-> [p \in Prices |-> 0]]
    /\ best = [s \in Side |-> NoPrice]
    /\ count = [s \in Side |-> 0]
    /\ volume = [s \in Side |-> 0]
    /\ sequence = 1
    /\ taker = NoTaker
    /\ shares = [a \in Accounts |-> 0]
    /\ capital = [a \in Accounts |-> 0]
    /\ active = [a \in Accounts |-> {}]
    /\ published = << >>

\* limit_sell and limit_buy, up to the branch on `crosses'.
LimitOrder(a, s, q, p) ==
    /\ Idle
    /\ sequence <= MaxOrders
    /\ taker' = [side |-> s, quantity |-> q, price |-> p, account |-> a, limit |-> TRUE,
                 phase |-> IF Crosses(s, p) THEN "market" ELSE "rest"]
    /\ UNCHANGED <<orders, tree, sequence, accounts, published>>

\* market_sell and market_buy: an order without a price, never in the map.
MarketOrder(a, s, q) ==
    /\ Idle
    /\ taker' = [side |-> s, quantity |-> q, price |-> 0, account |-> a, limit |-> FALSE,
                 phase |-> "market"]
    /\ UNCHANGED <<orders, tree, sequence, accounts, published>>

\* The condition of the while loop of LimitTree::market.
CanContinue ==
    LET o == Opposite(taker.side)
    IN  best[o] # NoPrice /\ CanMatch(o, best[o], taker.price)

\* Fault: the newest order at the best price is matched.
Fault_Match == LET o == Opposite(taker.side) IN Last(queue[o][best[o]])

\* best->order_head
Match == LET o == Opposite(taker.side) IN Head(queue[o][best[o]])

\* Fault: an off-by-one in the comparison of the two quantities.
Fault_Exhausts(u) == orders[u].quantity <= taker.quantity + 1

\* Resting order u has no more than the taker wants.
Exhausts(u) == orders[u].quantity <= taker.quantity

\* Fault: an order of zero quantity is never done.
Fault_TakerAfter(n) ==
    [taker EXCEPT !.quantity = @ - n,
                  !.phase = IF n > 0 /\ n = taker.quantity THEN "filled" ELSE "market"]

\* The order being executed after a trade of n shares.
TakerAfter(n) ==
    [taker EXCEPT !.quantity = @ - n,
                  !.phase = IF n = taker.quantity THEN "filled" ELSE "market"]

\* One iteration: the resting order has more than the taker wants.
MatchPartly ==
    LET u == Match
        n == taker.quantity
        s == orders[u].side
        p == orders[u].price
    IN  /\ taker.phase = "market"
        /\ CanContinue
        /\ ~Exhausts(u)
        /\ Settle(LimitPartial(MarketFill(Positions, u), u))
        /\ orders' = [orders EXCEPT ![u].quantity = @ - n]
        /\ LimitTotals(s, p, 0, -n)
        /\ TreeTotals(s, 0, -n)
        /\ TradeMessage(u, n)
        /\ taker' = TakerAfter(n)
        /\ UNCHANGED <<levels, queue, best, sequence, active>>

\* One iteration: the resting order is executed whole and leaves the book.
MatchWhole ==
    LET u == Match
        n == orders[u].quantity
    IN  /\ taker.phase = "market"
        /\ CanContinue
        /\ Exhausts(u)
        /\ Settle(LimitFill(IF n = taker.quantity THEN MarketFill(Positions, u)
                                                  ELSE MarketPartial(Positions, u), u))
        /\ AccountCancel(u)
        /\ TradeMessage(u, n)
        /\ TreeRemove(u)
        /\ taker' = TakerAfter(n)
        /\ UNCHANGED sequence

\* limit_sell and limit_buy return 0: the order was filled.
ReturnFilled ==
    /\ taker.phase = "filled"
    /\ taker' = NoTaker
    /\ UNCHANGED <<orders, tree, sequence, accounts, published>>

\* limit_sell and limit_buy put the order, or what is left of it, in the book.
ReturnResting ==
    LET o == [side |-> taker.side, quantity |-> taker.quantity,
              price |-> taker.price, account |-> taker.account]
    IN  /\ ~Idle /\ taker.limit
        /\ taker.phase = "rest" \/ (taker.phase = "market" /\ ~CanContinue)
        /\ orders' = [v \in DOMAIN orders \cup {sequence} |->
                        IF v = sequence THEN o ELSE orders[v]]
        /\ TreeLimit(sequence, o)
        /\ sequence' = sequence + 1
        /\ taker' = NoTaker
        /\ UNCHANGED <<shares, capital>>

\* market_sell and market_buy return; what was not executed is dropped.
ReturnUnfilled ==
    /\ taker.phase = "market" /\ ~taker.limit /\ ~CanContinue
    /\ taker' = NoTaker
    /\ UNCHANGED <<orders, tree, sequence, accounts, published>>

\* cancel
Cancel(u) ==
    /\ Idle
    /\ u \in DOMAIN orders
    /\ TreeRemove(u)
    /\ AccountCancel(u)
    /\ DeleteOrderMessage(u)
    /\ UNCHANGED <<sequence, taker, shares, capital>>

\* The steps that carry a call on once it has started.
Continue == MatchPartly \/ MatchWhole \/ ReturnFilled \/ ReturnResting \/ ReturnUnfilled

Next ==
    \/ \E a \in Accounts, s \in Side, q \in Quantities :
          \/ MarketOrder(a, s, q)
          \/ \E p \in Prices : LimitOrder(a, s, q, p)
    \/ \E u \in DOMAIN orders : Cancel(u)
    \/ Continue

Spec == Init /\ [][Next]_vars

\* A call runs to its end: the handler it is part of does not wait for anything.
FairSpec == Spec /\ WF_vars(Continue)

-----------------------------------------------------------------------------
(* Two more operations of LimitOrderBook.  No handler of the venue calls   *)
(* them, so they are part of ApiSpec only.                                 *)

\* Fault: the order shrinks and the totals do not.
Fault_Reduce(u, q) ==
    /\ Idle
    /\ u \in DOMAIN orders /\ q < orders[u].quantity
    /\ orders' = [orders EXCEPT ![u].quantity = @ - q]
    /\ UNCHANGED <<tree, sequence, taker, accounts, published>>

\* reduce.  Asking for more than there is throws and changes nothing; asking
\* for all there is cancels the order.
Reduce(u, q) ==
    LET s == orders[u].side
        p == orders[u].price
    IN  \/ q = orders[u].quantity /\ Cancel(u)
        \/ /\ Idle
           /\ q < orders[u].quantity
           /\ orders' = [orders EXCEPT ![u].quantity = @ - q]
           /\ LimitTotals(s, p, 0, -q)
           /\ TreeTotals(s, 0, -q)
           /\ UNCHANGED <<levels, queue, best, sequence, taker, accounts, published>>

\* clear, with LimitTree::clear on both sides.  The accounts are not told.
Clear ==
    /\ Idle
    /\ orders' = << >> /\ sequence' = 1
    /\ levels' = [s \in Side |-> {}]
    /\ queue' = [s \in Side |-> [p \in Prices |-> << >>]]
    /\ limitCount' = [s \in Side |-> [p \in Prices |-> 0]]
    /\ limitVolume' = [s \in Side |-> [p \in Prices |-> 0]]
    /\ best' = [s \in Side |-> NoPrice]
    /\ count' = [s \in Side |-> 0] /\ volume' = [s \in Side |-> 0]
    /\ UNCHANGED <<taker, accounts, published>>

ApiNext ==
    \/ Next
    \/ \E u \in DOMAIN orders, q \in Quantities : Reduce(u, q)
    \/ Clear

ApiSpec == Init /\ [][ApiNext]_vars

-----------------------------------------------------------------------------
(* Properties                                                              *)

\* Volumes are plain integers here: that they do not fall below zero is part of
\* VolumesAgree.
BookTypeOK ==
    /\ DOMAIN orders \subseteq UID
    /\ \A u \in DOMAIN orders : orders[u] \in Order
    /\ levels \in [Side -> SUBSET Prices]
    /\ queue \in [Side -> [Prices -> Seq(UID)]]
    /\ limitCount \in [Side -> [Prices -> Nat]]
    /\ limitVolume \in [Side -> [Prices -> Int]]
    /\ best \in [Side -> Prices \cup {NoPrice}]
    /\ count \in [Side -> Nat]
    /\ volume \in [Side -> Int]

AccountsTypeOK ==
    /\ shares \in [Accounts -> Int]
    /\ capital \in [Accounts -> Int]
    /\ active \in [Accounts -> SUBSET UID]

\* Every variable has its type; in particular the quantity that
\* LimitTree::market subtracts from the order being executed never exceeds it.
TypeOK ==
    /\ BookTypeOK
    /\ AccountsTypeOK
    /\ sequence \in UID
    /\ taker = NoTaker \/ taker \in Taker

\* The resting orders of one limit.
OrdersAt(s, p) == {u \in DOMAIN orders : orders[u].side = s /\ orders[u].price = p}

\* The resting orders of one side.
OrdersOn(s) == {u \in DOMAIN orders : orders[u].side = s}

\* The ID map, the map of limits and the queues that LimitTree keeps tell the
\* same story: a limit exists exactly when orders rest at its price, and its
\* queue links exactly those orders.  A cancel or a fill that unlinks the wrong
\* node, or leaves an empty limit behind, breaks this.
QueuesHoldOrders ==
    \A s \in Side, p \in Prices :
        /\ Range(queue[s][p]) = OrdersAt(s, p)
        /\ p \in levels[s] <=> queue[s][p] # << >>

\* Time priority: after any sequence of placements, partial fills, cancels from
\* the middle and replacements, each queue is in order of arrival.
TimePriority ==
    \A s \in Side, p \in Prices :
        \A i, j \in 1..Len(queue[s][p]) : i < j => queue[s][p][i] < queue[s][p][j]

\* LimitTree::best is the best limit, through every insertion and removal.
BestPrice == \A s \in Side : IsBest(s, levels[s], best[s])

\* Limit::count and LimitTree::count are the numbers of orders they stand for.
CountsAgree ==
    /\ \A s \in Side, p \in Prices : limitCount[s][p] = Len(queue[s][p])
    /\ \A s \in Side : IsFiniteSet(OrdersOn(s)) /\ count[s] = Cardinality(OrdersOn(s))

\* What is left of each resting order.
Outstanding == [u \in DOMAIN orders |-> orders[u].quantity]

\* Limit::volume and LimitTree::volume, kept up to date in four places, are the
\* sums of the quantities they stand for.
VolumesAgree ==
    \A s \in Side :
        /\ volume[s] = SumOver(Outstanding, OrdersOn(s))
        /\ \A p \in Prices : limitVolume[s][p] = SumOver(Outstanding, OrdersAt(s, p))

\* Limit::count and LimitTree::count are the numbers of orders they stand for,
\* and Limit::volume and LimitTree::volume, kept up to date in four places, the
\* sums of their quantities.
TotalsAgree == CountsAgree /\ VolumesAgree

\* The book is never crossed: no buyer waits who would pay what a waiting seller
\* asks.
NotCrossed ==
    best["Buy"] = NoPrice \/ best["Sell"] = NoPrice \/ best["Buy"] < best["Sell"]

\* Account::orders, which a purge walks through, is the set of the account's
\* orders in the book: no order of it has been filled or cancelled.
AccountsHoldOrders ==
    \A a \in Accounts : active[a] = {u \in DOMAIN orders : orders[u].account = a}

\* A subscriber that receives every feed message knows every resting order, its
\* side, price and remaining quantity, after each message.
FeedMatchesBook ==
    published = [u \in DOMAIN orders |->
                   [side |-> orders[u].side, price |-> orders[u].price,
                    quantity |-> orders[u].quantity]]

\* Trading moves shares and capital between accounts and makes or loses none,
\* whichever of the four fill methods settle it, and in trades with oneself too.
Conservation ==
    /\ SumOver(shares, Accounts) = 0
    /\ SumOver(capital, Accounts) = 0

\* Order u loses quantity, or its place in the book, in this step.
Executed(u) == u \notin DOMAIN orders' \/ orders'[u].quantity < orders[u].quantity

\* Price-time priority: an incoming order never executes a resting order while
\* there is one on that side with a better price, or an older one at its price.
PriceTimePriority ==
    [][~Idle => \A u \in DOMAIN orders : Executed(u) =>
          \A v \in OrdersOn(orders[u].side) :
              /\ ~Better(orders[u].side, orders[v].price, orders[u].price)
              /\ orders[v].price = orders[u].price => u <= v]_vars

\* In this step the limit order being executed gets no price worse than its limit.
WithinLimit ==
    \A u \in DOMAIN orders : Executed(u) =>
        IF taker.side = "Buy" THEN orders[u].price <= taker.price
                              ELSE orders[u].price >= taker.price

\* However many orders and limits an execution runs over, a limit order never gets
\* a price worse than its limit.  The one exception is a buy at 0, which can_match
\* takes for an order without a limit.
LimitPriceRespected ==
    [][~Idle /\ taker.limit => WithinLimit \/ (taker.side = "Buy" /\ taker.price = 0)]_vars

\* What may be left of an order.
Remainders == UNION {0..q : q \in Quantities}

\* The feed seen by its readers: see FeedSource.
Feed == INSTANCE FeedSource WITH live <- published, next <- sequence, Quantities <- Remainders

\* The book keeps the promise of its data feed: every message that its limits,
\* fills and cancels send is legal for a reader who has seen the ones before, a
\* new order never crosses the orders that reader knows, and a trade always hits
\* the order that has price-time priority for that reader.
FeedSpec == Feed!Spec

\* The two LimitTrees as their users see them: see BookSide.
SellSide ==
    INSTANCE BookSide WITH Orders <- 1..MaxOrders, side <- "Sell", queue <- queue["Sell"],
                           best <- best["Sell"]
BuySide ==
    INSTANCE BookSide WITH Orders <- 1..MaxOrders, side <- "Buy", queue <- queue["Buy"],
                           best <- best["Buy"]

\* The sets and sequences that stand for the two LimitTrees here change only as
\* the trees and lists of LimitTree may: an order joins at the end of its queue and
\* is never linked twice, one order leaves at a time, and LimitTree::best is the best
\* price through every insertion and removal, fills at both ends included.
UsesSides == SellSide!Spec /\ BuySide!Spec

\* Every call of the book returns: the loop of LimitTree::market ends, with zero
\* quantities on either side too.
CallReturns == ~Idle ~> Idle
=============================================================================
