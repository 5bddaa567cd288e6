------------------------------ MODULE DataFeed ------------------------------
(***************************************************************************)
(* The market data feed: DataFeed::Sender multicasts the messages of the   *)
(* venue's book (FeedSource) and of the operator's session commands over   *)
(* UDP; DataFeed::Receiver, in the process of a strategy or a monitor,     *)
(* rebuilds the book from what arrives.                                    *)
(*                                                                         *)
(* Unless reliable, the network may lose, delay, reorder and duplicate     *)
(* datagrams: whatever has been sent may be received at any time, any      *)
(* number of times, or never.  A receiver that starts late is one that has *)
(* lost the first messages.                                                *)
(***************************************************************************)
EXTENDS FeedSource, Sequences, FiniteSets, FiniteSetsExt, SequencesExt, Collections

CONSTANTS
    MaxMessages,  \* bound on the messages the venue sends
    MaxPrice      \* std::numeric_limits<Price>::max(), scaled down

ASSUME MaxMessagesAssumption == MaxMessages \in Nat
ASSUME PriceRange == MaxPrice \in Nat /\ Prices \subseteq 0..MaxPrice

VARIABLES
    reliable,            \* the network delivers every datagram, in order
    is_session_active,   \* ServerCLI::is_session_active
    sequence,            \* Sender::sequence, the number of the next message
    output_buffer,       \* Sender::output_buffer, oldest message first
    sending,             \* an async_send_to is outstanding
    network,             \* the datagrams that may be received
    book,                \* Receiver::book
    session,             \* Receiver::_is_session_active
    last_sequence,       \* Receiver::last_sequence
    warned,              \* "out of sequence with server" has been logged
    receiving,           \* no exception has ended the receiver, and its lists are lists
    history              \* the venue's orders after each message it has sent

sender   == <<is_session_active, sequence, output_buffer, sending, history>>
receiver == <<book, session, last_sequence, warned, receiving>>
links    == <<reliable, network>>
dataVars == <<feedVars, sender, links, receiver>>

\* The price of a best pointer that is nullptr.
NoPrice == -1

Opposite(s) == IF s = "Sell" THEN "Buy" ELSE "Sell"

-----------------------------------------------------------------------------
(* DataFeed::LOB::LimitOrderBook as a value.  Of each LimitTree it has the *)
(* queues, the best price, last_best_price and the volumes; nothing reads  *)
(* the counts.                                                             *)

EmptyBook ==
    [orders       |-> << >>,
     queue        |-> [s \in Side |-> [p \in Prices |-> << >>]],
     best         |-> [s \in Side |-> NoPrice],
     last_best    |-> [s \in Side |-> 0],
     limit_volume |-> [s \in Side |-> [p \in Prices |-> 0]],
     volume       |-> [s \in Side |-> 0]]

\* The prices of side s that have a limit.
Limits(b, s) == {p \in Prices : b.queue[s][p] # << >>}

\* What set_best and find_best maintain.
BestOf(b, s) ==
    IF Limits(b, s) = {} THEN NoPrice
    ELSE IF s = "Buy" THEN Max(Limits(b, s)) ELSE Min(Limits(b, s))

\* Fault: last_best_price is cleared with the side.
Fault_LastBest(b, s) ==
    [b EXCEPT !.best[s] = BestOf(b, s),
              !.last_best[s] = IF BestOf(b, s) # NoPrice THEN BestOf(b, s) ELSE 0]

\* The best limit of side s, and last_best_price, after the limits have changed.
SetBest(b, s) ==
    [b EXCEPT !.best[s] = BestOf(b, s),
              !.last_best[s] = IF BestOf(b, s) # NoPrice THEN BestOf(b, s) ELSE @]

\* Fault: the total of the side is forgotten.
Fault_AddVolume(b, s, p, n) == [b EXCEPT !.limit_volume[s][p] = @ + n]

\* The update of Limit::volume and LimitTree::volume.
AddVolume(b, s, p, n) ==
    [b EXCEPT !.limit_volume[s][p] = @ + n, !.volume[s] = @ + n]

\* LimitTree::limit
Rest(b, u) ==
    LET o == b.orders[u]
        linked == [b EXCEPT !.queue[o.side][o.price] = Append(@, u)]
    IN  SetBest(AddVolume(linked, o.side, o.price, o.quantity), o.side)

\* DLL::remove
Without(q, u) == RemoveAt(q, CHOOSE k \in DOMAIN q : q[k] = u)

\* LimitTree::cancel, and the erase from the map that follows it.
Unlink(b, u) ==
    LET o == b.orders[u]
        unlinked == [b EXCEPT !.queue[o.side][o.price] = Without(@, u),
                              !.orders = Restrict(@, DOMAIN @ \ {u})]
    IN  SetBest(AddVolume(unlinked, o.side, o.price, -o.quantity), o.side)

\* The quantity of order u, its limit and its side drop by n.
Shrink(b, u, n) ==
    LET o == b.orders[u]
    IN  AddVolume([b EXCEPT !.orders[u].quantity = @ - n], o.side, o.price, -n)

\* LimitOrderBook::reduce, once the quantity is known to be there.
Reduced(b, u, n) == IF n = b.orders[u].quantity THEN Unlink(b, u) ELSE Shrink(b, u, n)

\* The condition of the loop of LimitTree::market, for an incoming order o: can_match
\* takes price 0 for no limit.
CanMatch(b, o) ==
    LET r == b.best[Opposite(o.side)]
    IN  r # NoPrice /\ (o.price = 0 \/ Meets(o.side, o.price, r))

\* The pass of the loop with number pass: the book, the incoming order, and whether
\* the loop has returned.  A loop that has ended stays as it is.
Match(r, pass) ==
    LET t == Opposite(r.order.side)
        u == Head(r.book.queue[t][r.book.best[t]])
        n == r.book.orders[u].quantity
        q == r.order.quantity
    IN  IF r.done \/ ~CanMatch(r.book, r.order) THEN r
        ELSE [book  |-> IF n >= q THEN Reduced(r.book, u, q) ELSE Unlink(r.book, u),
              order |-> [r.order EXCEPT !.quantity = IF n >= q THEN 0 ELSE q - n],
              done  |-> n >= q]

\* LimitTree::market: every pass but the last removes an order.
Market(b, o) ==
    FoldLeft(Match, [book |-> b, order |-> o, done |-> FALSE],
             [i \in 1..Cardinality(DOMAIN b.orders) |-> i])

\* The condition on which limit_sell and limit_buy go to the market first.
Crosses(b, s, p) ==
    LET r == b.best[Opposite(s)]
    IN  r # NoPrice /\ Meets(s, p, r)

\* LimitOrderBook::limit.  A receiver that has missed messages may find that the
\* order crosses what it believes to be there, and then matches it itself.
Limit(b, u, o) ==
    LET crosses == Crosses(b, o.side, o.price)
        r == IF crosses THEN Market(b, o) ELSE [book |-> b, order |-> o]
        kept == [r.book EXCEPT !.orders = [v \in DOMAIN @ \cup {u} |->
                                             IF v = u THEN r.order ELSE @[v]]]
    IN  IF crosses /\ r.order.quantity = 0 THEN r.book ELSE Rest(kept, u)

-----------------------------------------------------------------------------
(* The messages: the header's ID and sequence number, and the body.        *)

StartOfSessionMessage == [kind : {"StartOfSession"}, sequence : Nat]
EndOfSessionMessage   == [kind : {"EndOfSession"}, sequence : Nat]
DeleteOrderMessage    == [kind : {"DeleteOrder"}, uid : Nat, sequence : Nat]
TradeMessage          == [kind : {"Trade"}, uid : Nat, quantity : Nat, sequence : Nat]
AddOrderMessage ==
    [kind : {"AddOrder"}, uid : Nat, side : Side, price : Prices, quantity : Nat, sequence : Nat]

Message ==
    StartOfSessionMessage \cup EndOfSessionMessage \cup DeleteOrderMessage
        \cup TradeMessage \cup AddOrderMessage

-----------------------------------------------------------------------------
(* Sender and ServerCLI                                                    *)

\* Sender::send of message m, which has the next sequence number: the first message
\* in the buffer starts the sending loop.
Send(m) ==
    /\ sequence <= MaxMessages
    /\ output_buffer' = Append(output_buffer, m)
    /\ sequence' = sequence + 1
    /\ sending' = IF output_buffer = << >> THEN TRUE ELSE sending
    /\ history' = Append(history, live')

\* The book adds, deletes or executes an order.
PublishAdd(s, p, q) ==
    /\ AddOrder(s, p, q)
    /\ Send([kind |-> "AddOrder", uid |-> next, side |-> s, price |-> p, quantity |-> q,
             sequence |-> sequence])
    /\ UNCHANGED <<is_session_active, links, receiver>>

PublishDelete(u) ==
    /\ DeleteOrder(u)
    /\ Send([kind |-> "DeleteOrder", uid |-> u, sequence |-> sequence])
    /\ UNCHANGED <<is_session_active, links, receiver>>

PublishTrade(u, n) ==
    /\ Trade(u, n)
    /\ Send([kind |-> "Trade", uid |-> u, quantity |-> n, sequence |-> sequence])
    /\ UNCHANGED <<is_session_active, links, receiver>>

\* ServerCLI::start_of_session and end_of_session: the command that does not
\* change the state is answered on the console only.
PublishSession ==
    /\ UNCHANGED feedVars
    /\ Send([kind |-> IF is_session_active THEN "EndOfSession" ELSE "StartOfSession",
             sequence |-> sequence])
    /\ is_session_active' = ~is_session_active
    /\ UNCHANGED <<links, receiver>>

\* Fault: the completion handler does not send the next message.
Fault_SendMessage ==
    /\ sending
    /\ network' = network \cup {Head(output_buffer)}
    /\ output_buffer' = Tail(output_buffer)
    /\ sending' = FALSE
    /\ UNCHANGED <<feedVars, is_session_active, sequence, history, reliable, receiver>>

\* Sender::send_message and its completion: the next message, if there is one,
\* is sent.
SendMessage ==
    /\ sending
    /\ network' = network \cup {Head(output_buffer)}
    /\ output_buffer' = Tail(output_buffer)
    /\ sending' = (Len(output_buffer) > 1)
    /\ UNCHANGED <<feedVars, is_session_active, sequence, history, reliable, receiver>>

-----------------------------------------------------------------------------
(* The network                                                             *)

\* What async_receive_from may complete with.
Deliverable(m) == reliable => \A k \in network : m.sequence <= k.sequence

\* What may be received after m has been.
Remaining(m) == IF reliable THEN network \ {m} ELSE network

-----------------------------------------------------------------------------
(* Receiver                                                                *)

\* Fault: only messages that come too late are noticed.
Fault_OutOfSequence(m) == m.sequence <= last_sequence

\* The comparison of read_message.
OutOfSequence(m) == m.sequence # last_sequence + 1

\* read_message up to the switch on the message's kind.
ReadMessage(m) ==
    /\ receiving
    /\ Deliverable(m)
    /\ network' = Remaining(m)
    /\ warned' = (warned \/ OutOfSequence(m))
    /\ last_sequence' = m.sequence
    /\ UNCHANGED <<feedVars, sender, reliable>>

\* handle(StartOfSession) and handle(EndOfSession)
ReceiveSession(m) ==
    /\ m.kind \in {"StartOfSession", "EndOfSession"}
    /\ ReadMessage(m)
    /\ session' = (m.kind = "StartOfSession")
    /\ UNCHANGED <<book, receiving>>

\* handle(AddOrder)
ReceiveAddOrder(m) ==
    /\ m.kind = "AddOrder"
    /\ m.uid \notin DOMAIN book.orders
    /\ ReadMessage(m)
    /\ book' = Limit(book, m.uid, [side |-> m.side, price |-> m.price, quantity |-> m.quantity])
    /\ UNCHANGED <<session, receiving>>

\* handle(AddOrder) for an order that is in the map: emplace does nothing, nothing
\* crosses, and LimitTree::limit counts the order of the map a second time and links
\* it behind the last order of its list, which may be itself.  The list is a ring from
\* then on, whose next removal leaves a pointer to a deleted order, and the receiver
\* is not followed any further.
ReceiveDuplicate(m) ==
    /\ m.kind = "AddOrder"
    /\ m.uid \in DOMAIN book.orders
    /\ ReadMessage(m)
    /\ book' = Rest(book, m.uid)
    /\ receiving' = FALSE
    /\ UNCHANGED session

\* handle(DeleteOrder) and handle(Trade) for an order that is not in the map.
ReceiveUnknown(m) ==
    /\ m.kind \in {"DeleteOrder", "Trade"}
    /\ m.uid \notin DOMAIN book.orders
    /\ ReadMessage(m)
    /\ UNCHANGED <<book, session, receiving>>

\* handle(DeleteOrder)
ReceiveDeleteOrder(m) ==
    /\ m.kind = "DeleteOrder"
    /\ m.uid \in DOMAIN book.orders
    /\ ReadMessage(m)
    /\ book' = Unlink(book, m.uid)
    /\ UNCHANGED <<session, receiving>>

\* handle(Trade)
ReceiveTrade(m) ==
    /\ m.kind = "Trade"
    /\ m.uid \in DOMAIN book.orders
    /\ m.quantity <= book.orders[m.uid].quantity
    /\ ReadMessage(m)
    /\ book' = Reduced(book, m.uid, m.quantity)
    /\ UNCHANGED <<session, receiving>>

\* handle(Trade) for more than the order has: LimitOrderBook::reduce throws, and
\* nothing catches it before the receiver's process ends.
ReceiveExcessiveTrade(m) ==
    /\ m.kind = "Trade"
    /\ m.uid \in DOMAIN book.orders
    /\ m.quantity > book.orders[m.uid].quantity
    /\ ReadMessage(m)
    /\ receiving' = FALSE
    /\ UNCHANGED <<book, session>>

-----------------------------------------------------------------------------

DataInit ==
    /\ Init
    /\ reliable \in BOOLEAN
    /\ is_session_active = FALSE
    /\ sequence = 1
    /\ output_buffer = << >>
    /\ sending = FALSE
    /\ network = {}
    /\ book = EmptyBook
    /\ session = FALSE
    /\ last_sequence = 0
    /\ warned = FALSE
    /\ receiving = TRUE
    /\ history = << >>

Publish ==
    \/ \E s \in Side, p \in Prices, q \in Quantities : PublishAdd(s, p, q)
    \/ \E u \in DOMAIN live : PublishDelete(u)
    \/ \E u \in DOMAIN live : \E n \in 0..live[u].quantity : PublishTrade(u, n)
    \/ PublishSession

Receive(m) ==
    \/ ReceiveSession(m)
    \/ ReceiveAddOrder(m)
    \/ ReceiveDuplicate(m)
    \/ ReceiveUnknown(m)
    \/ ReceiveDeleteOrder(m)
    \/ ReceiveTrade(m)
    \/ ReceiveExcessiveTrade(m)

DataNext ==
    \/ Publish
    \/ SendMessage
    \/ \E m \in network : Receive(m)

DataSpec == DataInit /\ [][DataNext]_dataVars

\* Both event loops run what is ready: the completion of the send, and the arrival
\* of a datagram on a network that delivers it.
FairDataSpec ==
    /\ DataSpec
    /\ WF_dataVars(SendMessage)
    /\ WF_dataVars(reliable /\ \E m \in network : Receive(m))

-----------------------------------------------------------------------------
(* Properties                                                              *)

\* The variables have their types; the packets are messages, each of them in one
\* place, and only the buffer's first message is ever being sent.
DataTypeOK ==
    /\ is_session_active \in BOOLEAN /\ session \in BOOLEAN /\ reliable \in BOOLEAN
    /\ sequence \in 1..(MaxMessages + 1) /\ last_sequence \in 0..MaxMessages
    /\ \A i \in DOMAIN output_buffer : output_buffer[i] \in Message
    /\ sending = (output_buffer # << >>)
    /\ \A m \in network : m \in Message /\ m \notin Range(output_buffer)
    /\ warned \in BOOLEAN /\ receiving \in BOOLEAN
    /\ \A u \in DOMAIN book.orders : book.orders[u] \in LiveOrder
    /\ book.best \in [Side -> Prices \cup {NoPrice}]

\* The orders of a map on side s, those of them at price p, and the shares of a set
\* of orders.
OrdersOn(orders, s)    == {u \in DOMAIN orders : orders[u].side = s}
OrdersAt(orders, s, p) == {u \in OrdersOn(orders, s) : orders[u].price = p}
SharesOf(orders, S)    == SumOver([u \in S |-> orders[u].quantity], S)

\* The receiver's book has the orders, with their quantities and their places in
\* the queues: the oldest first.
Shows(b, orders) ==
    /\ b.orders = orders
    /\ \A s \in Side, p \in Prices :
          /\ Range(b.queue[s][p]) = OrdersAt(orders, s, p)
          /\ Ascending(b.queue[s][p])

\* The sequence check of read_message is enough: whatever the network loses, delays,
\* reorders or duplicates, a receiver that has logged no gap has exactly the book the
\* venue had when it sent the receiver's last message, has not thrown, and has not
\* linked an order twice.
ExactUntilWarned ==
    ~warned => /\ receiving
               /\ Shows(book, IF last_sequence = 0 THEN << >> ELSE history[last_sequence])

\* The volumes are the sums of the orders that are there.
VolumesAreShares ==
    \A s \in Side :
        /\ book.volume[s] = SharesOf(book.orders, OrdersOn(book.orders, s))
        /\ \A p \in Prices :
              book.limit_volume[s][p] = SharesOf(book.orders, OrdersAt(book.orders, s, p))

\* The receiver's own structures stay consistent after any loss, reordering and
\* duplication that does not put an order into a list twice, local matching included:
\* queues and map agree, the best prices are the best ones, the volumes are the sums
\* of what is there, and a strategy never sees a crossed book.  The order that is put
\* into a list twice does not disturb the prices at once.
ReceiverConsistent ==
    /\ DataTypeOK
    /\ \A s \in Side : book.best[s] = BestOf(book, s)
    /\ (\A s \in Side : book.best[s] # NoPrice) => book.best["Buy"] < book.best["Sell"]
    /\ receiving =>
          /\ VolumesAreShares
          /\ \A s \in Side, p \in Prices :
                /\ Range(book.queue[s][p]) = OrdersAt(book.orders, s, p)
                /\ IsInjective(book.queue[s][p])

\* last_best_price, which the strategies quote from, is the best price as long as
\* there is one, and outlives the last order of the side: it never goes to a price
\* at which no order of the side has rested.
LastBestKept ==
    [][\A s \in Side :
          IF book'.best[s] # NoPrice
          THEN book'.last_best[s] = book'.best[s]
          ELSE book'.last_best[s] \in Limits(book, s) \cup {book.last_best[s]}]_dataVars

\* Without loss the receiver catches up: the sending loop never stalls with
\* messages in the buffer, and in the end the receiver shows the venue's orders
\* and the session state.
CatchesUp == <>[](reliable => Shows(book, live) /\ session = is_session_active)
=============================================================================
