------------------------------- MODULE Quotes -------------------------------
(***************************************************************************)
(* What the trading strategies decide, as a function of the book that      *)
(* their receiver shows.  A decision is the set of the orders it may lead  *)
(* to: random draws and the moving averages choose among them.             *)
(*                                                                         *)
(* The module adds no state: the book is DataFeed's, after whatever was    *)
(* received, lost or reordered.                                            *)
(***************************************************************************)
EXTENDS DataFeed

CONSTANTS
    Noises,   \* the distances that Noise::outside may draw
    Spread,   \* the spread market_arbitrage is configured with
    Budgets,  \* what may be left of a liquidity consumer's size
    Boundary  \* the decision_boundary momentum is configured with

ASSUME NoisesAssumption == Noises \subseteq Nat /\ Spread \in Nat /\ Budgets \subseteq Nat
ASSUME BoundaryAssumption == Boundary \in Nat \ {0}

\* ORDER_PRICE_MARKET
MarketPrice == 0

last_best_sell == book.last_best["Sell"]
last_best_buy  == book.last_best["Buy"]

-----------------------------------------------------------------------------
(* Noise                                                                   *)

\* LimitType::Cross
Cross == {[side |-> s, price |-> book.last_best[Opposite(s)]] : s \in Side}

\* Fault: the ask itself is taken for a price inside the spread.
Fault_Inside ==
    LET bid == IF last_best_buy >= MaxPrice - 1 THEN MaxPrice ELSE last_best_buy + 1
        ask == last_best_sell
    IN  IF bid >= ask THEN {} ELSE [side : Side, price : bid..ask]

\* LimitType::Inside
Inside ==
    LET bid == IF last_best_buy >= MaxPrice - 1 THEN MaxPrice ELSE last_best_buy + 1
        ask == IF last_best_sell <= 1 THEN 0 ELSE last_best_sell - 1
    IN  IF bid >= ask THEN {} ELSE [side : Side, price : bid..ask]

\* LimitType::Outside
Outside ==
    {[side |-> "Sell", price |-> IF last_best_sell >= MaxPrice - n THEN MaxPrice
                                 ELSE last_best_sell + n] : n \in Noises}
    \cup
    {[side |-> "Buy", price |-> IF last_best_buy <= n THEN 0
                                ELSE last_best_buy - n] : n \in Noises}

-----------------------------------------------------------------------------
(* MarketMaker, and LimitType::AtBest of Noise                             *)

\* A quote and its hedge, on the two sides at their last best prices.
AtBest == {[side |-> s, price |-> book.last_best[s]] : s \in Side}

-----------------------------------------------------------------------------
(* MeanReversion                                                           *)

\* Fault: the test for underflow is off by one.
Fault_Reversion ==
    {[side |-> "Sell", price |-> p - 1] : p \in {last_best_sell} \ {0}}
    \cup {[side |-> "Buy", price |-> p + 1] : p \in {last_best_buy} \ {MaxPrice - 1, MaxPrice}}

\* A sell just below the best sell, or a buy just above the best buy, unless the
\* price would leave its range.
Reversion ==
    {[side |-> "Sell", price |-> p - 1] : p \in {last_best_sell} \ {0, 1}}
    \cup {[side |-> "Buy", price |-> p + 1] : p \in {last_best_buy} \ {MaxPrice - 1, MaxPrice}}

-----------------------------------------------------------------------------
(* LiquidityConsumer                                                       *)

\* Fault: the volume of the whole side.
Fault_VolumeBest(s) == book.volume[s]

\* volume_sell_best and volume_buy_best
VolumeBest(s) == IF book.best[s] = NoPrice THEN 0 ELSE book.limit_volume[s][book.best[s]]

\* sell_order and buy_order: the quantity of the market order of side s when n is
\* left of the budget; 0 for no order.
Consume(s, n) == Min({VolumeBest(Opposite(s)), n})

-----------------------------------------------------------------------------
(* MarketArbitrage.  A market is given by its best prices, 0 for none.     *)

\* best_sell and best_buy of the book.
Top == [s \in Side |-> IF book.best[s] = NoPrice THEN 0 ELSE book.best[s]]

\* Fault: the sum of price and spread may wrap around.
Fault_DoesCross(here, there) ==
    /\ here["Sell"] # 0
    /\ (here["Sell"] + Spread) % (MaxPrice + 1) < there["Buy"]

\* does_cross
DoesCross(here, there) ==
    /\ here["Sell"] # 0
    /\ here["Sell"] <= MaxPrice - Spread
    /\ (here["Sell"] + Spread) % (MaxPrice + 1) < there["Buy"]

\* do_strategy: the market it buys on and the market it sells on, if any.
Arbitrage(A, B) ==
    IF DoesCross(A, B) THEN {[buy |-> A, sell |-> B]}
    ELSE IF DoesCross(B, A) THEN {[buy |-> B, sell |-> A]} ELSE {}

-----------------------------------------------------------------------------
(* Momentum                                                                *)

\* last_price of the book.  The sum does not wrap: prices are below 2^63.
LastPrice(b) == (b.last_best["Sell"] + b.last_best["Buy"]) \div 2

\* RateOfChange<Price>::process, from the oldest observation in the window to the
\* one just made.  The arithmetic is that of Price: unsigned, and integer division.
RateOfChange(oldest, observation) ==
    ((observation - oldest) % (MaxPrice + 1)) \div oldest

\* do_strategy, once the window is full: the side it places a market order on, if any.
Momentum(oldest, observation) ==
    LET rate == RateOfChange(oldest, observation)
    IN  IF rate >= Boundary THEN {"Buy"} ELSE IF rate <= -Boundary THEN {"Sell"} ELSE {}

-----------------------------------------------------------------------------
(* Properties                                                              *)

\* An order carries a limit, and would rest in the book the receiver shows.
WouldRest(r) == r.price # MarketPrice /\ ~Crosses(book, r.side, r.price)

\* There are orders on both sides, none of them at the sentinel price.
TwoSided == \A s \in Side : book.best[s] > 0

\* Orders that are meant to wait, wait, also in a receiver that has missed
\* messages.  The noise trader's orders inside the spread are limit orders that
\* rest: also after a side has emptied and its last best price is stale, and at
\* both ends of the range of prices.  The market maker's quotes on a two-sided book
\* neither take liquidity nor meet each other.
PassiveOrdersRest ==
    /\ \A r \in Inside : WouldRest(r)
    /\ TwoSided => /\ \A r \in AtBest : WouldRest(r)
                   /\ \A r, q \in AtBest : r.side # q.side => ~Meets(r.side, r.price, q.price)

\* The book after the request for order o, which may get the ID u, has been handled
\* the way the venue does it: price 0 asks for a market order.
OrderRequest(b, u, o) == IF o.price = MarketPrice THEN Market(b, o).book ELSE Limit(b, u, o)

\* A mean reversion order, placed in the book it was computed from, takes a position at
\* the head of its side: it is filled whole by what it crosses, or what is left of it
\* rests alone at the new best price.  This is so with a stale last best price, in a
\* receiver that has missed messages, and at both ends of the range of prices, where
\* the order must not turn into a market order.
ReversionLeads ==
    receiving =>
      \A r \in Reversion, n \in Budgets \ {0}, u \in (0..MaxMessages) \ DOMAIN book.orders :
        LET o == [side |-> r.side, price |-> r.price, quantity |-> n]
            b == OrderRequest(book, u, o)
        IN  r.price \in Prices =>
              \/ Market(book, o).order.quantity = 0
              \/ b.best[r.side] = r.price /\ b.queue[r.side][r.price] = <<u>>

\* Orders that are meant to trade at the best price trade there and nowhere else.
\* A liquidity consumer's market order, executed in the book it looked at, is
\* filled whole and leaves every other price as it was; the noise trader's orders
\* that cross the spread meet exactly the orders at the best opposite price.
TakesBestOnly ==
    /\ \A s \in Side, n \in Budgets :
          receiving /\ Consume(s, n) > 0 =>
            LET r == Market(book, [side |-> s, price |-> MarketPrice, quantity |-> Consume(s, n)])
                t == Opposite(s)
            IN  /\ r.order.quantity = 0
                /\ \A p \in Prices \ {book.best[t]} : r.book.queue[t][p] = book.queue[t][p]
    /\ \A r \in Cross :
          LET o == Opposite(r.side)
          IN  book.best[o] > 0 =>
                /\ Crosses(book, r.side, r.price)
                /\ {p \in Limits(book, o) : Meets(r.side, r.price, p)} = {book.best[o]}

\* The arbitrageur acts only when one market pays more than the spread above
\* what the other one asks, whatever the other market shows and at the top of the
\* range of prices too.
CrossPays ==
    \A other \in [Side -> Prices \cup {0}] :
        \A r \in Arbitrage(Top, other) : r.sell["Buy"] - r.buy["Sell"] > Spread

\* The momentum trader, acting before and after a message with the shortest window
\* and a two-sided book, buys when the price increases and sells when it decreases.
FollowsMomentum ==
    [][TwoSided /\ TwoSided' =>
         \A s \in Momentum(LastPrice(book), LastPrice(book')) :
            IF s = "Buy" THEN LastPrice(book') > LastPrice(book)
                         ELSE LastPrice(book') < LastPrice(book)]_dataVars

\* The noise trader's orders outside the spread of a two-sided book rest, deep in
\* the book.
OutsideRests == TwoSided => \A r \in Outside : WouldRest(r)
=============================================================================
