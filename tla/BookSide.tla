------------------------------ MODULE BookSide ------------------------------
(***************************************************************************)
(* What one side of a limit order book is for the code that uses it: a     *)
(* queue of orders per price, oldest first, and the best price that has    *)
(* one.                                                                    *)
(*                                                                         *)
(* This is the abstract specification of LimitTree.  LimitTree, with its   *)
(* search tree and linked lists, implements it; OrderBook, whose sides are *)
(* sets and sequences, uses its two sides only as it allows.               *)
(***************************************************************************)
EXTENDS Integers, Sequences, SequencesExt

CONSTANTS
    Orders,   \* the orders that may rest on the side
    Prices    \* the prices they may rest at

VARIABLES
    side,     \* "Sell" or "Buy": the template parameter, fixed for good
    queue,    \* per price, the orders in order of arrival
    best      \* the best price

sideVars == <<side, queue, best>>

\* The price of a best pointer that is nullptr.
NoPrice == -1

\* The prices that have orders.
Levels(q) == {p \in Prices : q[p] # << >>}

\* b is the highest price of P for buyers, the lowest for sellers.
IsBest(P, b) ==
    IF P = {} THEN b = NoPrice
              ELSE b \in P /\ \A r \in P : IF side = "Buy" THEN r <= b ELSE r >= b

Resting(u) == \E p \in Prices : Contains(queue[p], u)

\* Order u joins the end of the queue at price p.
Limit(u, p) ==
    /\ ~Resting(u)
    /\ queue' = [queue EXCEPT ![p] = Append(@, u)]
    /\ IsBest(Levels(queue'), best')
    /\ side' = side

\* The order at place i of the queue at price p leaves: filled, or cancelled.
Leave(p, i) ==
    /\ queue' = [queue EXCEPT ![p] = RemoveAt(@, i)]
    /\ IsBest(Levels(queue'), best')
    /\ side' = side

\* All orders leave.
Clear ==
    /\ queue' = [p \in Prices |-> << >>]
    /\ best' = NoPrice
    /\ side' = side

Init ==
    /\ side \in {"Sell", "Buy"}
    /\ queue = [p \in Prices |-> << >>]
    /\ best = NoPrice

Next ==
    \/ \E u \in Orders, p \in Prices : Limit(u, p)
    \/ \E p \in Prices : \E i \in DOMAIN queue[p] : Leave(p, i)
    \/ Clear

Spec == Init /\ [][Next]_sideVars
=============================================================================
