------------------------------- MODULE Venue -------------------------------
(***************************************************************************)
(* Order entry: the sessions of OrderEntry::Connection, the accounts of    *)
(* the Authorizer, and the OrderEntry::Client at the other end of each     *)
(* connection, around the book of module OrderBook.                        *)
(*                                                                         *)
(* The venue runs every handler to its end on one thread, so at most one   *)
(* `request' is being handled.  A handler that calls limit, market or      *)
(* cancel takes the steps of OrderBook that the call takes; the clients,   *)
(* which are other processes, receive responses in between.                *)
(*                                                                         *)
(* A client may send any request at any time, so requests on their way     *)
(* need no state.  The responses on their way to a client do: they are     *)
(* delivered in order, and what a client knows is what the responses it    *)
(* has received, or is going to receive, tell it.                          *)
(***************************************************************************)
EXTENDS OrderBook

CONSTANTS
    Connections,  \* TCP connections, each with the client at its other end
    Null,         \* nullptr, and the name of no account
    MaxPending    \* bound on the responses that wait when a request is handled

ASSUME NullAssumption       == Null \notin Accounts \cup Connections
ASSUME MaxPendingAssumption == MaxPending \in Nat \ {0}

VARIABLES
    open,         \* per connection, whether its read loop is running
    session,      \* per connection, Connection::account
    is_connected, \* per account, SystemAccount::is_connected
    handler,      \* per account, SystemAccount::handler
    request,      \* the request being handled
    responses,    \* per connection, the messages sent and not received yet
    client        \* per connection, the state of the Client

server    == <<session, is_connected, handler>>
venueVars == <<vars, open, server, request, responses, client>>

\* A request whose handler has called the book, or is purging.
Request == [kind : {"order", "replace", "purge"}, connection : Connections, canceled : Nat]

\* A request whose handler is between its calls of cancel and of limit.
ReplaceRequest ==
    [kind : {"replacing"}, connection : Connections, side : Side, quantity : Quantities,
     price : Prices, canceled : Nat]

\* No handler is running.
NoRequest == [kind |-> "none"]

\* An exception that left the event loop has ended the venue's process.
Stopped == [kind |-> "stopped"]

-----------------------------------------------------------------------------
(* Client                                                                  *)

\* A Client that has just connected.  `up' is whether its process runs.
NewClient ==
    [up |-> TRUE, is_authorized |-> FALSE, active_orders |-> {}, shares |-> 0, capital |-> 0]

\* A Client whose process has ended.
NoClient == [NewClient EXCEPT !.up = FALSE]

\* Fault: only a wrong password is taken for a refusal.
Fault_HandleLoginResponse(k, m) == [k EXCEPT !.is_authorized = m.status # "NotAuthorized"]

\* handle(LoginResponse)
HandleLoginResponse(k, m) ==
    [k EXCEPT !.is_authorized = m.status \in {"Accepted", "AlreadyAuthorized"}]

\* handle(LogoutResponse)
HandleLogoutResponse(k, m) == [k EXCEPT !.is_authorized = FALSE, !.active_orders = {}]

\* handle(OrderResponse)
HandleOrderResponse(k, m) ==
    IF m.status = "Rejected" \/ m.order_id = NoUID THEN k
    ELSE [k EXCEPT !.active_orders = @ \cup {m.order_id}]

\* handle(CancelResponse)
HandleCancelResponse(k, m) ==
    IF m.status = "Rejected" THEN k ELSE [k EXCEPT !.active_orders = @ \ {m.order_id}]

\* Fault: the order that was replaced stays in the set.
Fault_HandleReplaceResponse(k, m) ==
    IF m.status = "Rejected" \/ m.new_order_id = NoUID THEN k
    ELSE [k EXCEPT !.active_orders = @ \cup {m.new_order_id}]

\* handle(ReplaceResponse)
HandleReplaceResponse(k, m) ==
    IF m.status = "Rejected" THEN k
    ELSE [k EXCEPT !.active_orders = (@ \ {m.canceled}) \cup ({m.new_order_id} \ {NoUID})]

\* handle(PurgeResponse)
HandlePurgeResponse(k, m) ==
    IF m.status = "Rejected" THEN k ELSE [k EXCEPT !.active_orders = {}]

\* Fault: an order that was executed in part is forgotten.
Fault_HandleTradeResponse(k, m) ==
    [k EXCEPT !.shares = @ + Signed(m.side, m.quantity),
              !.capital = @ - Signed(m.side, m.quantity) * m.price,
              !.active_orders = @ \ {m.order_id}]

\* handle(TradeResponse)
HandleTradeResponse(k, m) ==
    [k EXCEPT !.shares = @ + Signed(m.side, m.quantity),
              !.capital = @ - Signed(m.side, m.quantity) * m.price,
              !.active_orders = IF m.leaves = 0 THEN @ \ {m.order_id} ELSE @]

\* Client::read_buffer's dispatch
HandleResponse(k, m) ==
    CASE m.type = "Login"   -> HandleLoginResponse(k, m)
      [] m.type = "Logout"  -> HandleLogoutResponse(k, m)
      [] m.type = "Order"   -> HandleOrderResponse(k, m)
      [] m.type = "Cancel"  -> HandleCancelResponse(k, m)
      [] m.type = "Replace" -> HandleReplaceResponse(k, m)
      [] m.type = "Purge"   -> HandlePurgeResponse(k, m)
      [] m.type = "Trade"   -> HandleTradeResponse(k, m)

\* The client takes the oldest response off its connection.
Receive(c) ==
    /\ client[c].up /\ responses[c] # << >>
    /\ client' = [client EXCEPT ![c] = HandleResponse(@, Head(responses[c]))]
    /\ responses' = [responses EXCEPT ![c] = Tail(@)]
    /\ UNCHANGED <<vars, open, server, request>>

\* The client's process ends, for whatever reason; what it had not received is
\* lost.  The venue will find out when it reads from the connection.
Disconnect(c) ==
    /\ client[c].up
    /\ client' = [client EXCEPT ![c] = NoClient]
    /\ responses' = [responses EXCEPT ![c] = << >>]
    /\ UNCHANGED <<vars, open, server, request>>

-----------------------------------------------------------------------------
(* Connection: sending                                                     *)

LoginResponse(status)        == [type |-> "Login", status |-> status]
LogoutResponse               == [type |-> "Logout"]
OrderResponse(u, status)     == [type |-> "Order", order_id |-> u, status |-> status]
CancelResponse(u, status)    == [type |-> "Cancel", order_id |-> u, status |-> status]
ReplaceResponse(u, v, status) ==
    [type |-> "Replace", canceled |-> u, new_order_id |-> v, status |-> status]
PurgeResponse(status)        == [type |-> "Purge", status |-> status]
TradeResponse(u, p, n, l, s) ==
    [type |-> "Trade", order_id |-> u, price |-> p, quantity |-> n, leaves |-> l, side |-> s]

\* The messages queued for connection c when ms are sent to connection d.  A
\* write to a client that is gone fails and is not repeated.
Queued(q, c, d, ms) == IF c = d /\ client[c].up THEN q \o ms ELSE q

\* send
Send(c, m) == responses' = [d \in Connections |-> Queued(responses[d], d, c, <<m>>)]

\* Fault: the owner of the resting order is not told.
Fault_Report(u, n) ==
    Send(handler[taker.account],
         TradeResponse(NoUID, orders[u].price, n, taker.quantity - n, taker.side))

\* SystemAccount's market_fill or market_partial for the order being executed,
\* then limit_fill or limit_partial for the resting order u.  An account without
\* a handler is told nothing.
Report(u, n) ==
    LET p == orders[u].price
        taken == <<TradeResponse(NoUID, p, n, taker.quantity - n, taker.side)>>
        made  == <<TradeResponse(u, p, n, orders[u].quantity - n, orders[u].side)>>
    IN  responses' = [c \in Connections |->
            Queued(Queued(responses[c], c, handler[taker.account], taken),
                   c, handler[orders[u].account], made)]

-----------------------------------------------------------------------------
(* Connection: sessions                                                    *)

\* The venue can handle a request of connection c.
CanHandle(c) == open[c] /\ request = NoRequest /\ Len(responses[c]) < MaxPending

\* accept, and Connection::start: a new connection, and the client that made it.
Accept(c) ==
    /\ ~open[c] /\ ~client[c].up /\ request = NoRequest
    /\ open' = [open EXCEPT ![c] = TRUE]
    /\ client' = [client EXCEPT ![c] = NewClient]
    /\ UNCHANGED <<vars, server, request, responses>>

\* Authorizer::is_valid: the name is known and the password is the right one.
IsValid(a, right) == a \in Accounts /\ right

\* Connection::logout
Logout(c) ==
    /\ is_connected' = [a \in Accounts |-> is_connected[a] /\ a # session[c]]
    /\ handler' = [a \in Accounts |-> IF a = session[c] THEN Null ELSE handler[a]]
    /\ session' = [session EXCEPT ![c] = Null]

\* Fault: a session in use is not noticed.
Fault_LoginStatus(c, a, right) ==
    IF session[c] # Null THEN "AlreadyAuthorized"
    ELSE IF ~IsValid(a, right) THEN "NotAuthorized" ELSE "Accepted"

\* handle(LoginRequest): what the client is told.
LoginStatus(c, a, right) ==
    IF session[c] # Null THEN "AlreadyAuthorized"
    ELSE IF ~IsValid(a, right) THEN "NotAuthorized"
    ELSE IF is_connected[a] THEN "SessionInUse" ELSE "Accepted"

\* handle(LoginRequest)
HandleLogin(c, a, right) ==
    LET status == LoginStatus(c, a, right)
    IN  /\ CanHandle(c)
        /\ Send(c, LoginResponse(status))
        /\ \/ /\ status = "Accepted"
              /\ session' = [session EXCEPT ![c] = a]
              /\ handler' = [handler EXCEPT ![a] = c]
              /\ is_connected' = [is_connected EXCEPT ![a] = TRUE]
           \/ status # "Accepted" /\ UNCHANGED server
        /\ UNCHANGED <<vars, open, request, client>>

\* handle(LogoutRequest), and handle(Header) for a message it does not know: both
\* log the connection out and say so.
HandleLogout(c) ==
    /\ CanHandle(c)
    /\ Logout(c)
    /\ Send(c, LogoutResponse)
    /\ UNCHANGED <<vars, open, request, client>>

\* Fault: the connection logs out and keeps reading.
Fault_HandleEof(c) ==
    /\ open[c] /\ ~client[c].up /\ request = NoRequest
    /\ Logout(c)
    /\ UNCHANGED <<vars, open, request, responses, client>>

\* The end of the stream: the connection logs out and is gone.
HandleEof(c) ==
    /\ open[c] /\ ~client[c].up /\ request = NoRequest
    /\ Logout(c)
    /\ open' = [open EXCEPT ![c] = FALSE]
    /\ UNCHANGED <<vars, request, responses, client>>

\* Any other error of a read (a connection reset) is thrown out of the loop: the
\* venue's process ends.
ReadError(c) ==
    /\ open[c] /\ ~client[c].up /\ request = NoRequest
    /\ request' = Stopped
    /\ UNCHANGED <<vars, open, server, responses, client>>

-----------------------------------------------------------------------------
(* Connection: orders                                                      *)

LoggedIn(c) == session[c] # Null

\* A request is rejected: the client is told, and nothing else happens.
Reject(c, m) ==
    /\ CanHandle(c)
    /\ Send(c, m)
    /\ UNCHANGED <<vars, open, server, request, client>>

\* The book is called for a request of connection c that replaced order u.
Call(kind, c, u) ==
    request' = [kind |-> kind, connection |-> c, canceled |-> u]

\* handle(OrderRequest).  Price 0 asks for a market order.
HandleOrder(c, s, q, p) ==
    \/ /\ ~LoggedIn(c)
       /\ Reject(c, OrderResponse(NoUID, "Rejected"))
    \/ /\ LoggedIn(c) /\ CanHandle(c)
       /\ Call("order", c, NoUID)
       /\ \/ p = 0 /\ MarketOrder(session[c], s, q)
          \/ p # 0 /\ LimitOrder(session[c], s, q, p)
       /\ UNCHANGED <<open, server, responses, client>>

\* Fault: a cancel is not checked for whose order it is.
Fault_Owns(c, u) == TRUE

\* The order belongs to the account that is logged in on connection c.
Owns(c, u) == orders[u].account = session[c]

\* handle(CancelRequest)
HandleCancel(c, u) ==
    \/ /\ ~(LoggedIn(c) /\ u \in DOMAIN orders /\ Owns(c, u))
       /\ Reject(c, CancelResponse(u, "Rejected"))
    \/ /\ LoggedIn(c) /\ CanHandle(c)
       /\ u \in DOMAIN orders /\ Owns(c, u)
       /\ Cancel(u)
       /\ Send(c, CancelResponse(u, "Accepted"))
       /\ UNCHANGED <<open, server, request, client>>

\* handle(ReplaceRequest), up to the cancel of the order to replace, if it is
\* still there.
HandleReplace(c, u, s, q, p) ==
    \/ /\ ~LoggedIn(c) \/ (u \in DOMAIN orders /\ ~Owns(c, u))
       /\ Reject(c, ReplaceResponse(u, NoUID, "Rejected"))
    \/ /\ LoggedIn(c) /\ CanHandle(c)
       /\ sequence <= MaxOrders
       /\ \/ u \in DOMAIN orders /\ Owns(c, u) /\ Cancel(u)
          \/ u \notin DOMAIN orders /\ UNCHANGED vars
       /\ request' = [kind |-> "replacing", connection |-> c, side |-> s, quantity |-> q,
                      price |-> p, canceled |-> IF u \in DOMAIN orders THEN u ELSE NoUID]
       /\ UNCHANGED <<open, server, responses, client>>

\* The new order of handle(ReplaceRequest): limit_sell or limit_buy, whatever the
\* price is.
PlaceReplacement ==
    /\ request.kind = "replacing"
    /\ LimitOrder(session[request.connection], request.side, request.quantity, request.price)
    /\ Call("replace", request.connection, request.canceled)
    /\ UNCHANGED <<open, server, responses, client>>

\* An iteration of the match loop, and what the two accounts report of it.
Execute ==
    /\ \/ MatchPartly /\ Report(Match, taker.quantity)
       \/ MatchWhole /\ Report(Match, orders[Match].quantity)
    /\ UNCHANGED <<open, server, request, client>>

\* The response to an order or replace request for which the book returned u.
Accepted(u) ==
    IF request.kind = "order" THEN OrderResponse(u, "Accepted")
                              ELSE ReplaceResponse(request.canceled, u, "Accepted")

\* Fault: the handler of a replace request does not end.
Fault_Respond ==
    /\ \/ (ReturnFilled \/ ReturnUnfilled) /\ Send(request.connection, Accepted(NoUID))
       \/ ReturnResting /\ Send(request.connection, Accepted(sequence))
    /\ request' = IF request.kind = "order" THEN NoRequest ELSE request
    /\ UNCHANGED <<open, server, client>>

\* The book's call returns, and the handler sends its response.
Respond ==
    /\ \/ (ReturnFilled \/ ReturnUnfilled) /\ Send(request.connection, Accepted(NoUID))
       \/ ReturnResting /\ Send(request.connection, Accepted(sequence))
    /\ request' = NoRequest
    /\ UNCHANGED <<open, server, client>>

\* handle(PurgeRequest), up to its loop.
HandlePurge(c) ==
    \/ ~LoggedIn(c) /\ Reject(c, PurgeResponse("Rejected"))
    \/ /\ LoggedIn(c) /\ CanHandle(c)
       /\ Call("purge", c, NoUID)
       /\ UNCHANGED <<vars, open, server, responses, client>>

\* Fault: the order leaves the account and not the book.
Fault_PurgeOne ==
    /\ request.kind = "purge"
    /\ active[session[request.connection]] # {}
    /\ active' = [active EXCEPT ![session[request.connection]] = {}]
    /\ UNCHANGED <<orders, tree, sequence, taker, shares, capital, published>>
    /\ UNCHANGED <<open, server, request, responses, client>>

\* One iteration of the loop: account->orders is ordered by address.
PurgeOne ==
    /\ request.kind = "purge"
    /\ \E u \in active[session[request.connection]] : Cancel(u)
    /\ UNCHANGED <<open, server, request, responses, client>>

\* The condition on which the loop ends.
Purged == active[session[request.connection]] = {}

\* The purge is done.
RespondPurge ==
    /\ request.kind = "purge"
    /\ Purged
    /\ Send(request.connection, PurgeResponse("Accepted"))
    /\ request' = NoRequest
    /\ UNCHANGED <<vars, open, server, client>>

\* The steps that carry a handler on once it has started.
ContinueRequest == PlaceReplacement \/ Execute \/ Respond \/ PurgeOne \/ RespondPurge

-----------------------------------------------------------------------------

VenueInit ==
    /\ Init
    /\ open = [c \in Connections |-> FALSE]
    /\ session = [c \in Connections |-> Null]
    /\ is_connected = [a \in Accounts |-> FALSE]
    /\ handler = [a \in Accounts |-> Null]
    /\ request = NoRequest
    /\ responses = [c \in Connections |-> << >>]
    /\ client = [c \in Connections |-> NoClient]

\* The IDs a client may name, of orders that exist or have existed.
KnownUIDs == 1..MaxOrders

HandleRequest(c) ==
    \/ \E a \in Accounts \cup {Null}, right \in BOOLEAN : HandleLogin(c, a, right)
    \/ HandleLogout(c)
    \/ \E s \in Side, q \in Quantities, p \in Prices \cup {0} : HandleOrder(c, s, q, p)
    \/ \E u \in KnownUIDs : HandleCancel(c, u)
    \/ \E u \in KnownUIDs, s \in Side, q \in Quantities, p \in Prices :
          HandleReplace(c, u, s, q, p)
    \/ HandlePurge(c)

VenueNext ==
    \/ \E c \in Connections :
          Accept(c) \/ HandleRequest(c) \/ HandleEof(c) \/ ReadError(c)
             \/ Receive(c) \/ Disconnect(c)
    \/ ContinueRequest

VenueSpec == VenueInit /\ [][VenueNext]_venueVars

\* The event loop takes every handler to its end, and reads the end of a closed
\* connection in its turn; the operating system delivers what was sent.
VenueFairSpec ==
    /\ VenueSpec
    /\ WF_venueVars(ContinueRequest)
    /\ \A c \in Connections : SF_venueVars(HandleEof(c) \/ ReadError(c))
    /\ \A c \in Connections : WF_venueVars(Receive(c))

-----------------------------------------------------------------------------
(* Properties                                                              *)

\* The state a client will be in when it has received what is on its way.
Informed(c) == FoldLeft(HandleResponse, client[c], responses[c])

SessionTypeOK ==
    /\ open \in [Connections -> BOOLEAN]
    /\ session \in [Connections -> Accounts \cup {Null}]
    /\ is_connected \in [Accounts -> BOOLEAN]
    /\ handler \in [Accounts -> Connections \cup {Null}]

RequestOK ==
    /\ request \in {NoRequest, Stopped} \cup Request \cup ReplaceRequest
    /\ request \notin {NoRequest, Stopped} => LoggedIn(request.connection)
    /\ Idle <=> request.kind \notin {"order", "replace"}

\* Every variable of the venue has its type, a handler that works for an account
\* has one, and the book is in a call exactly when a handler waits for it.
VenueTypeOK == SessionTypeOK /\ RequestOK

\* Connection::account, SystemAccount::handler and SystemAccount::is_connected,
\* three variables that three handlers set one by one, agree: an account has one
\* session at most, its trades are reported on the connection that holds the
\* session, and a connection that is gone holds none.
OneSession ==
    /\ \A c \in Connections, a \in Accounts : session[c] = a <=> handler[a] = c
    /\ \A a \in Accounts : is_connected[a] <=> handler[a] # Null
    /\ \A c \in Connections : LoggedIn(c) => open[c]

\* What a client believes about its session is, once it has received what is on
\* its way, what the venue believes.
LoginAgrees ==
    \A c \in Connections : client[c].up => (Informed(c).is_authorized <=> LoggedIn(c))

\* A client has no phantom orders: when no handler is at work, every ID in its
\* active_orders is, once it has received what is on its way, an order of its
\* account that rests in the book.
NoPhantomOrders ==
    request = NoRequest =>
        \A c \in Connections : client[c].up =>
            Informed(c).active_orders \subseteq
                (IF LoggedIn(c) THEN active[session[c]] ELSE {})

\* A client knows the orders of its session: an order that the session puts in
\* the book is in active_orders when the responses are in, and stays there as
\* long as it rests.
OrdersTracked ==
    [][\A c \in Connections :
          client'[c].up /\ LoggedIn(c) /\ session'[c] = session[c] =>
             \A u \in active'[session[c]] :
                 u \in Informed(c)'.active_orders
                     <=> (u \in active[session[c]] => u \in Informed(c).active_orders)]_venueVars

\* A client is told of every trade of its account during its session, of each
\* one once, on whichever side of it the account was, and of no other.
PositionTracked ==
    [][\A c \in Connections :
          client[c].up /\ client'[c].up =>
             LET stays == LoggedIn(c) /\ session'[c] = session[c]
             IN  /\ Informed(c)'.shares - Informed(c).shares =
                        (IF stays THEN shares'[session[c]] - shares[session[c]] ELSE 0)
                 /\ Informed(c)'.capital - Informed(c).capital =
                        (IF stays THEN capital'[session[c]] - capital[session[c]] ELSE 0)]_venueVars

\* Order u leaves the book in this step without having been executed.
Withdrawn(u) == Idle /\ u \in DOMAIN orders /\ u \notin DOMAIN orders'

\* Nobody but its owner takes an order out of the book: an account that is not
\* logged in loses orders to executions only.
OwnerWithdraws ==
    [][\A u \in DOMAIN orders : Withdrawn(u) => is_connected[orders[u].account]]_venueVars

\* A purge leaves the account without orders.
PurgeClears ==
    [][request.kind = "purge" /\ request' = NoRequest =>
          \A u \in DOMAIN orders' : orders'[u].account # session[request.connection]]_venueVars

\* The venue answers: a handler, with its loops, comes to an end.
RequestAnswered == request.kind \notin {"none", "stopped"} ~> request = NoRequest

\* A client that goes away without logging out does not keep its account locked.
SessionReleased ==
    \A c \in Connections :
        (open[c] /\ ~client[c].up) ~> (~open[c] \/ request = Stopped)

\* Whatever the clients send, in whichever order, and whenever they come and go,
\* the venue uses the book as the book's specification says: every step is a step
\* of one call, or leaves book and accounts alone.
UsesBook == Spec

\* The shares a client shows are the shares its account owns.
ClientOwnsShares ==
    \A c \in Connections :
        client[c].up /\ responses[c] = << >> /\ LoggedIn(c) /\ client[c].is_authorized =>
            client[c].shares = shares[session[c]]
=============================================================================
