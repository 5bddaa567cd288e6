----------------------------- MODULE FeedSource -----------------------------
(***************************************************************************)
(* What the venue's book promises the readers of its data feed: the        *)
(* message it sends next is an AddOrder, a DeleteOrder or a Trade that is  *)
(* legal for the orders that the messages sent before have left.           *)
(*                                                                         *)
(* This is the abstract specification of the feed.  OrderBook implements   *)
(* it (OrderBook!FeedSpec); DataFeed uses it as the source of messages.    *)
(***************************************************************************)
EXTENDS Integers, Functions

CONSTANTS
    Prices,      \* the prices an order may rest at
    Quantities   \* the quantities an order may rest with

ASSUME FeedPricesAssumption     == Prices \subseteq Nat
ASSUME FeedQuantitiesAssumption == Quantities \subseteq Nat

VARIABLES
    live,   \* the resting orders, by order ID
    next    \* the next order ID

feedVars == <<live, next>>

Side == {"Sell", "Buy"}

\* An order as the feed describes it.
LiveOrder == [side : Side, price : Nat, quantity : Nat]

\* An order of side s with price p and one of the other side with price r trade.
Meets(s, p, r) == IF s = "Buy" THEN p >= r ELSE p <= r

\* Order u comes before order v of its side in price-time priority.
Before(u, v) ==
    \/ IF live[u].side = "Buy" THEN live[u].price > live[v].price
                               ELSE live[u].price < live[v].price
    \/ live[u].price = live[v].price /\ u <= v

\* Messages::AddOrder: the order has a new ID and does not cross the book.
AddOrder(s, p, q) ==
    /\ \A u \in DOMAIN live : live[u].side # s => ~Meets(s, p, live[u].price)
    /\ live' = [v \in DOMAIN live \cup {next} |->
                  IF v = next THEN [side |-> s, price |-> p, quantity |-> q] ELSE live[v]]
    /\ next' = next + 1

\* Messages::DeleteOrder
DeleteOrder(u) ==
    /\ live' = Restrict(live, DOMAIN live \ {u})
    /\ next' = next

\* Messages::Trade: n shares of the order that has priority on its side.
Trade(u, n) ==
    /\ \A v \in DOMAIN live : live[v].side = live[u].side => Before(u, v)
    /\ live' = IF live[u].quantity = n THEN Restrict(live, DOMAIN live \ {u})
                                       ELSE [live EXCEPT ![u].quantity = @ - n]
    /\ next' = next

Init ==
    /\ live = << >>
    /\ next = 1

Next ==
    \/ \E s \in Side, p \in Prices, q \in Quantities : AddOrder(s, p, q)
    \/ \E u \in DOMAIN live : DeleteOrder(u)
    \/ \E u \in DOMAIN live : \E n \in 0..live[u].quantity : Trade(u, n)

Spec == Init /\ [][Next]_feedVars
=============================================================================
