---------------------------- MODULE VenueProofs ----------------------------
(***************************************************************************)
(* Proofs about order entry, for every set of accounts and connections.    *)
(*                                                                         *)
(* Every step of the venue is a step of the book or leaves it alone, so    *)
(* what OrderBookProofs shows of the book holds in the venue.  The         *)
(* inductive invariant adds the types and the agreement of the three       *)
(* variables that make up a session, and then what each client is going to *)
(* know when it has received the responses on their way to it.             *)
(***************************************************************************)
EXTENDS Venue, OrderBookProofs

\* What FoldLeft, which follows the responses to a client, computes.
Told == INSTANCE FoldProofs WITH Op <- HandleResponse

\* The invariant that every step of the venue keeps.
VenueInv == SessionTypeOK /\ RequestOK /\ OneSession

\* A handler that is at work, works for an account.
LEMMA AtWork ==
    ASSUME VenueInv, request \notin {NoRequest, Stopped}
    PROVE  /\ request.connection \in Connections
           /\ session[request.connection] \in Accounts
<1>1. request \in Request \cup ReplaceRequest
  BY DEF VenueInv, SessionTypeOK, RequestOK
<1>2. request.connection \in Connections
  BY <1>1 DEF Request, ReplaceRequest
<1> QED
  BY <1>2 DEF VenueInv, SessionTypeOK, RequestOK, LoggedIn

\* A connection that is logged in has an account.
LEMMA SessionAccount ==
    ASSUME VenueInv, NEW c \in Connections, LoggedIn(c)
    PROVE  session[c] \in Accounts
  BY DEF VenueInv, SessionTypeOK, RequestOK, LoggedIn

\* Every step of the venue is a step of the book, or leaves it alone.
LEMMA VenueStep == VenueInv /\ [VenueNext]_venueVars => [Next]_vars
<1> SUFFICES ASSUME VenueInv, [VenueNext]_venueVars PROVE [Next]_vars
  OBVIOUS
<1>1. ASSUME NEW c \in Connections,
             Accept(c) \/ HandleEof(c) \/ ReadError(c) \/ Receive(c) \/ Disconnect(c)
      PROVE  UNCHANGED vars
  BY <1>1 DEF Accept, HandleEof, ReadError, Receive, Disconnect
<1>2. ASSUME NEW c \in Connections, HandleRequest(c)
      PROVE  [Next]_vars
  <2>1. ASSUME NEW a \in Accounts \cup {Null}, NEW right \in BOOLEAN, HandleLogin(c, a, right)
        PROVE  UNCHANGED vars
    BY <2>1 DEF HandleLogin
  <2>2. CASE HandleLogout(c)
    BY <2>2 DEF HandleLogout
  <2>3. ASSUME NEW s \in Side, NEW q \in Quantities, NEW p \in Prices \cup {0},
               HandleOrder(c, s, q, p)
        PROVE  [Next]_vars
    <3>1. CASE ~LoggedIn(c)
      BY <2>3, <3>1 DEF HandleOrder, Reject
    <3>2. CASE LoggedIn(c)
      <4>1. session[c] \in Accounts
        BY <3>2, SessionAccount
      <4>2. \/ p = 0 /\ MarketOrder(session[c], s, q)
            \/ p \in Prices /\ LimitOrder(session[c], s, q, p)
        BY <2>3, <3>2 DEF HandleOrder
      <4> QED
        BY <4>1, <4>2 DEF Next
    <3> QED
      BY <3>1, <3>2
  <2>4. ASSUME NEW u \in KnownUIDs, HandleCancel(c, u) PROVE [Next]_vars
    BY <2>4 DEF HandleCancel, Reject, Next, Cancel
  <2>5. ASSUME NEW u \in KnownUIDs, NEW s \in Side, NEW q \in Quantities, NEW p \in Prices,
               HandleReplace(c, u, s, q, p)
        PROVE  [Next]_vars
    <3>1. UNCHANGED vars \/ (u \in DOMAIN orders /\ Cancel(u))
      BY <2>5 DEF HandleReplace, Reject
    <3> QED
      BY <3>1 DEF Next
  <2>6. CASE HandlePurge(c)
    BY <2>6 DEF HandlePurge, Reject
  <2> QED
    BY <1>2, <2>1, <2>2, <2>3, <2>4, <2>5, <2>6 DEF HandleRequest
<1>3. CASE PlaceReplacement
  <2>1. request \in ReplaceRequest
    BY <1>3 DEF PlaceReplacement, VenueInv, SessionTypeOK, RequestOK, Request, NoRequest, Stopped
  <2>2. /\ request.side \in Side /\ request.quantity \in Quantities /\ request.price \in Prices
        /\ request \notin {NoRequest, Stopped}
    BY <2>1 DEF ReplaceRequest, NoRequest, Stopped
  <2>3. session[request.connection] \in Accounts
    BY <2>2, AtWork
  <2> QED
    BY <1>3, <2>2, <2>3 DEF PlaceReplacement, Next
<1>4. CASE Execute
  BY <1>4 DEF Execute, Next, Continue
<1>5. CASE Respond
  BY <1>5 DEF Respond, Next, Continue
<1>6. CASE PurgeOne
  <2>1. \E u \in DOMAIN orders : Cancel(u)
    BY <1>6 DEF PurgeOne, Cancel
  <2> QED
    BY <2>1 DEF Next
<1>7. CASE RespondPurge
  BY <1>7 DEF RespondPurge
<1>8. CASE UNCHANGED venueVars
  BY <1>8 DEF venueVars
<1> QED
  BY <1>1, <1>2, <1>3, <1>4, <1>5, <1>6, <1>7, <1>8 DEF VenueNext, ContinueRequest

-----------------------------------------------------------------------------
(* Sessions                                                                *)

\* Connection::logout ends the session of one connection and of no other.
LEMMA LogoutSessions ==
    ASSUME SessionTypeOK, OneSession, NEW c \in Connections, Logout(c),
           open' = open \/ open' = [open EXCEPT ![c] = FALSE]
    PROVE  SessionTypeOK' /\ OneSession'
<1> USE NullAssumption
<1>1. /\ is_connected' = [a \in Accounts |-> is_connected[a] /\ a # session[c]]
      /\ handler' = [a \in Accounts |-> IF a = session[c] THEN Null ELSE handler[a]]
      /\ session' = [session EXCEPT ![c] = Null]
  BY DEF Logout
<1>2. SessionTypeOK'
  <2>1. is_connected' \in [Accounts -> BOOLEAN]
    BY <1>1, Zenon
  <2>2. open' \in [Connections -> BOOLEAN]
    BY DEF SessionTypeOK
  <2>3. handler' \in [Accounts -> Connections \cup {Null}]
    BY <1>1 DEF SessionTypeOK
  <2>4. session' \in [Connections -> Accounts \cup {Null}]
    BY <1>1 DEF SessionTypeOK
  <2> QED
    BY <2>1, <2>2, <2>3, <2>4 DEF SessionTypeOK
<1>3. ASSUME NEW d \in Connections, NEW a \in Accounts
      PROVE  session'[d] = a <=> handler'[a] = d
  <2>1. session[d] = a <=> handler[a] = d
    BY DEF OneSession
  <2>2. session[c] = a <=> handler[a] = c
    BY DEF OneSession
  <2>3. session'[d] = IF d = c THEN Null ELSE session[d]
    BY <1>1 DEF SessionTypeOK
  <2>4. handler'[a] = IF a = session[c] THEN Null ELSE handler[a]
    BY <1>1
  <2> QED
    BY <2>1, <2>2, <2>3, <2>4
<1>4. ASSUME NEW a \in Accounts PROVE is_connected'[a] <=> handler'[a] # Null
  <2>1. is_connected[a] <=> handler[a] # Null
    BY DEF OneSession
  <2>2. (is_connected'[a] <=> is_connected[a] /\ a # session[c])
    BY <1>1, Zenon
  <2>3. handler'[a] = IF a = session[c] THEN Null ELSE handler[a]
    BY <1>1
  <2> QED
    BY <2>1, <2>2, <2>3
<1>5. ASSUME NEW d \in Connections, session'[d] # Null PROVE open'[d]
  BY <1>1, <1>5 DEF SessionTypeOK, OneSession, LoggedIn
<1> QED
  BY <1>2, <1>3, <1>4, <1>5 DEF OneSession, LoggedIn

\* A login that is accepted gives the account its only session.
LEMMA LoginSessions ==
    ASSUME SessionTypeOK, OneSession, NEW c \in Connections, open[c], open' = open,
           NEW a \in Accounts \cup {Null}, NEW right \in BOOLEAN,
           LoginStatus(c, a, right) = "Accepted",
           session' = [session EXCEPT ![c] = a],
           handler' = [handler EXCEPT ![a] = c],
           is_connected' = [is_connected EXCEPT ![a] = TRUE]
    PROVE  SessionTypeOK' /\ OneSession'
<1> USE NullAssumption
<1>1. session[c] = Null /\ a \in Accounts /\ ~is_connected[a]
  BY DEF LoginStatus, IsValid
<1>2. SessionTypeOK'
  <2>1. is_connected' \in [Accounts -> BOOLEAN]
    BY DEF SessionTypeOK
  <2>2. handler' \in [Accounts -> Connections \cup {Null}]
    BY DEF SessionTypeOK
  <2>3. session' \in [Connections -> Accounts \cup {Null}]
    BY DEF SessionTypeOK
  <2> QED
    BY <2>1, <2>2, <2>3 DEF SessionTypeOK
<1>3. handler[a] = Null
  BY <1>1 DEF OneSession
<1>4. ASSUME NEW d \in Connections, NEW b \in Accounts
      PROVE  session'[d] = b <=> handler'[b] = d
  <2>1. session[d] = b <=> handler[b] = d
    BY DEF OneSession
  <2>2. session[d] # a /\ handler[b] # c
    BY <1>1, <1>3 DEF OneSession
  <2>3. session'[d] = IF d = c THEN a ELSE session[d]
    BY DEF SessionTypeOK
  <2>4. handler'[b] = IF b = a THEN c ELSE handler[b]
    BY DEF SessionTypeOK
  <2> QED
    BY <2>1, <2>2, <2>3, <2>4
<1>5. ASSUME NEW b \in Accounts PROVE is_connected'[b] <=> handler'[b] # Null
  BY <1>1 DEF SessionTypeOK, OneSession
<1>6. ASSUME NEW d \in Connections, session'[d] # Null PROVE open'[d]
  BY <1>6 DEF SessionTypeOK, OneSession, LoggedIn
<1> QED
  BY <1>2, <1>4, <1>5, <1>6 DEF OneSession, LoggedIn

\* A step that leaves the sessions alone.
LEMMA SameSessions ==
    ASSUME SessionTypeOK, OneSession, UNCHANGED <<open, server>>
    PROVE  SessionTypeOK' /\ OneSession' /\ \A c \in Connections : LoggedIn(c)' <=> LoggedIn(c)
  BY DEF SessionTypeOK, OneSession, server, LoggedIn

\* No handler is running after the step, or the venue has stopped.
LEMMA RequestDone ==
    ASSUME request' \in {NoRequest, Stopped}, Idle'
    PROVE  RequestOK'
  BY DEF RequestOK, NoRequest, Stopped

\* When no handler is running, the book is not in a call.
LEMMA NotInCall ==
    ASSUME RequestOK, request \in {NoRequest, Stopped}
    PROVE  Idle
  BY DEF RequestOK, NoRequest, Stopped

\* A step that changes neither the sessions nor the book nor the request.
LEMMA NothingChanges ==
    ASSUME VenueInv, UNCHANGED <<vars, open, server, request>>
    PROVE  VenueInv'
<1>1. SessionTypeOK' /\ OneSession'
  BY SameSessions DEF VenueInv
<1>2. RequestOK'
  BY DEF VenueInv, RequestOK, LoggedIn, server, Idle, vars
<1> QED
  BY <1>1, <1>2 DEF VenueInv

\* The handler of an order or replace request has just called the book.
LEMMA CallMade ==
    ASSUME VenueInv, NEW c \in Connections, LoggedIn(c), NEW u \in Nat,
           NEW kind \in {"order", "replace"}, Call(kind, c, u), ~Idle', UNCHANGED <<open, server>>
    PROVE  VenueInv'
<1>1. SessionTypeOK' /\ OneSession' /\ LoggedIn(c)'
  BY SameSessions DEF VenueInv
<1>2. request' = [kind |-> kind, connection |-> c, canceled |-> u]
  BY DEF Call
<1>3. RequestOK'
  BY <1>1, <1>2 DEF RequestOK, Request
<1> QED
  BY <1>1, <1>3 DEF VenueInv

\* The steps of sessions: the invariant survives logins, logouts and the end of a
\* connection at any moment between two requests.
LEMMA SessionStepInv ==
    ASSUME VenueInv, NEW c \in Connections,
           \/ Accept(c) \/ HandleEof(c) \/ ReadError(c) \/ Receive(c) \/ Disconnect(c)
           \/ HandleLogout(c)
           \/ \E a \in Accounts \cup {Null}, right \in BOOLEAN : HandleLogin(c, a, right)
    PROVE  VenueInv'
<1> USE DEF VenueInv
<1>1. CASE Receive(c) \/ Disconnect(c)
  <2>1. UNCHANGED <<vars, open, server, request>>
    BY <1>1 DEF Receive, Disconnect
  <2> QED
    BY <2>1, NothingChanges
<1>2. ASSUME request \in {NoRequest, Stopped}, request' \in {NoRequest, Stopped}, UNCHANGED vars
      PROVE  RequestOK'
  <2>1. Idle
    BY <1>2, NotInCall
  <2>2. Idle'
    BY <2>1, <1>2 DEF vars, Idle
  <2> QED
    BY <2>2, <1>2, RequestDone
<1>3. CASE Accept(c)
  <2>1. request = NoRequest /\ request' = NoRequest /\ UNCHANGED <<vars, server>>
    BY <1>3 DEF Accept
  <2>2. open' = [open EXCEPT ![c] = TRUE]
    BY <1>3 DEF Accept
  <2>3. SessionTypeOK' /\ OneSession'
    BY <2>1, <2>2 DEF SessionTypeOK, OneSession, server, LoggedIn
  <2> QED
    BY <2>1, <2>3, <1>2
<1>4. CASE HandleEof(c)
  <2>1. /\ request = NoRequest /\ request' = NoRequest /\ UNCHANGED vars /\ Logout(c)
        /\ open' = [open EXCEPT ![c] = FALSE]
    BY <1>4 DEF HandleEof
  <2> QED
    BY <2>1, <1>2, LogoutSessions
<1>5. CASE ReadError(c)
  <2>1. request = NoRequest /\ request' = Stopped /\ UNCHANGED <<vars, open, server>>
    BY <1>5 DEF ReadError
  <2> QED
    BY <2>1, <1>2, SameSessions
<1>6. CASE HandleLogout(c)
  <2>1. request = NoRequest /\ request' = NoRequest /\ UNCHANGED <<vars, open>> /\ Logout(c)
    BY <1>6 DEF HandleLogout, CanHandle
  <2> QED
    BY <2>1, <1>2, LogoutSessions
<1>7. ASSUME NEW a \in Accounts \cup {Null}, NEW right \in BOOLEAN, HandleLogin(c, a, right)
      PROVE  VenueInv'
  <2>1. request = NoRequest /\ request' = NoRequest /\ UNCHANGED <<vars, open>> /\ open[c]
    BY <1>7 DEF HandleLogin, CanHandle
  <2>2. \/ UNCHANGED server
        \/ /\ LoginStatus(c, a, right) = "Accepted"
           /\ session' = [session EXCEPT ![c] = a]
           /\ handler' = [handler EXCEPT ![a] = c]
           /\ is_connected' = [is_connected EXCEPT ![a] = TRUE]
    BY <1>7 DEF HandleLogin
  <2>3. SessionTypeOK' /\ OneSession'
    BY <2>1, <2>2, SameSessions, LoginSessions
  <2> QED
    BY <2>1, <2>3, <1>2
<1> QED
  BY <1>1, <1>3, <1>4, <1>5, <1>6, <1>7

\* A request that is rejected changes nothing that the invariant is about.
LEMMA RejectInv ==
    ASSUME VenueInv, NEW c, NEW msg, Reject(c, msg)
    PROVE  VenueInv'
<1>1. UNCHANGED <<vars, open, server, request>>
  BY DEF Reject
<1> QED
  BY <1>1, NothingChanges

\* handle(OrderRequest)
LEMMA HandleOrderInv ==
    ASSUME VenueInv, NEW c \in Connections, NEW s \in Side, NEW q \in Quantities,
           NEW p \in Prices \cup {0}, HandleOrder(c, s, q, p)
    PROVE  VenueInv'
<1>1. CASE ~LoggedIn(c)
  BY <1>1, RejectInv DEF HandleOrder
<1>2. CASE LoggedIn(c)
  <2>1. Call("order", c, NoUID) /\ UNCHANGED <<open, server>>
    BY <1>2 DEF HandleOrder
  <2>2. MarketOrder(session[c], s, q) \/ LimitOrder(session[c], s, q, p)
    BY <1>2 DEF HandleOrder
  <2>3. ~Idle'
    BY <2>2 DEF MarketOrder, LimitOrder, Idle
  <2> QED
    BY <2>1, <2>3, <1>2, CallMade DEF NoUID
<1> QED
  BY <1>1, <1>2

\* handle(CancelRequest)
LEMMA HandleCancelInv ==
    ASSUME VenueInv, NEW c \in Connections, NEW u \in KnownUIDs, HandleCancel(c, u)
    PROVE  VenueInv'
<1>1. CASE ~(LoggedIn(c) /\ u \in DOMAIN orders /\ Owns(c, u))
  BY <1>1, RejectInv DEF HandleCancel
<1>2. CASE LoggedIn(c) /\ u \in DOMAIN orders /\ Owns(c, u)
  <2>1. request = NoRequest /\ Cancel(u) /\ UNCHANGED <<open, server, request>>
    BY <1>2 DEF HandleCancel, CanHandle
  <2>2. Idle'
    BY <2>1 DEF Cancel, Idle
  <2> QED
    BY <2>1, <2>2, SameSessions, RequestDone DEF VenueInv
<1> QED
  BY <1>1, <1>2

\* handle(ReplaceRequest)
LEMMA HandleReplaceInv ==
    ASSUME VenueInv, NEW c \in Connections, NEW u \in KnownUIDs, NEW s \in Side,
           NEW q \in Quantities, NEW p \in Prices, HandleReplace(c, u, s, q, p)
    PROVE  VenueInv'
<1>1. CASE ~LoggedIn(c) \/ (u \in DOMAIN orders /\ ~Owns(c, u))
  BY <1>1, RejectInv DEF HandleReplace
<1>2. CASE LoggedIn(c) /\ ~(u \in DOMAIN orders /\ ~Owns(c, u))
  <2> DEFINE r == [kind |-> "replacing", connection |-> c, side |-> s, quantity |-> q,
                   price |-> p, canceled |-> IF u \in DOMAIN orders THEN u ELSE NoUID]
  <2>1. /\ request = NoRequest /\ request' = r /\ UNCHANGED <<open, server>>
        /\ Cancel(u) \/ UNCHANGED vars
    BY <1>2 DEF HandleReplace, CanHandle
  <2>2. Idle
    BY <2>1, NotInCall DEF VenueInv
  <2>3. Idle'
    BY <2>1, <2>2 DEF Cancel, Idle, vars
  <2>4. r \in ReplaceRequest /\ r.kind = "replacing" /\ r.connection = c
    BY MaxOrdersAssumption DEF ReplaceRequest, KnownUIDs, NoUID
  <2>5. SessionTypeOK' /\ OneSession' /\ LoggedIn(c)'
    BY <2>1, <1>2, SameSessions DEF VenueInv
  <2> HIDE DEF r
  <2>6. RequestOK'
    BY <2>1, <2>3, <2>4, <2>5 DEF RequestOK
  <2> QED
    BY <2>5, <2>6 DEF VenueInv
<1> QED
  BY <1>1, <1>2

\* handle(PurgeRequest)
LEMMA HandlePurgeInv ==
    ASSUME VenueInv, NEW c \in Connections, HandlePurge(c)
    PROVE  VenueInv'
<1>1. CASE ~LoggedIn(c)
  BY <1>1, RejectInv DEF HandlePurge
<1>2. CASE LoggedIn(c)
  <2> DEFINE r == [kind |-> "purge", connection |-> c, canceled |-> NoUID]
  <2>1. request = NoRequest /\ request' = r /\ UNCHANGED <<vars, open, server>>
    BY <1>2 DEF HandlePurge, CanHandle, Call
  <2>2. Idle
    BY <2>1, NotInCall DEF VenueInv
  <2>3. Idle'
    BY <2>1, <2>2 DEF Idle, vars
  <2>4. r \in Request /\ r.kind = "purge" /\ r.connection = c
    BY DEF Request, NoUID
  <2>5. SessionTypeOK' /\ OneSession' /\ LoggedIn(c)'
    BY <2>1, <1>2, SameSessions DEF VenueInv
  <2> HIDE DEF r
  <2>6. RequestOK'
    BY <2>1, <2>3, <2>4, <2>5 DEF RequestOK
  <2> QED
    BY <2>5, <2>6 DEF VenueInv
<1> QED
  BY <1>1, <1>2

\* The steps that carry a handler on.
LEMMA ContinueInv ==
    ASSUME VenueInv, TypeOK, ContinueRequest
    PROVE  VenueInv'
<1> USE DEF VenueInv
<1>1. CASE PlaceReplacement
  <2>1. request \in ReplaceRequest
    BY <1>1 DEF PlaceReplacement, RequestOK, Request, NoRequest, Stopped
  <2>2. request.connection \in Connections /\ request.canceled \in Nat
    BY <2>1 DEF ReplaceRequest
  <2>3. LoggedIn(request.connection)
    BY <2>1 DEF RequestOK, ReplaceRequest, NoRequest, Stopped
  <2>4. ~Idle'
    BY <1>1 DEF PlaceReplacement, LimitOrder, Idle
  <2>5. Call("replace", request.connection, request.canceled) /\ UNCHANGED <<open, server>>
    BY <1>1 DEF PlaceReplacement
  <2> QED
    BY <2>2, <2>3, <2>4, <2>5, CallMade
<1>2. CASE Execute
  <2>1. UNCHANGED <<open, server, request>> /\ (MatchPartly \/ MatchWhole)
    BY <1>2 DEF Execute
  <2>2. taker.phase = "market" /\ \E n : taker' = TakerAfter(n)
    BY <2>1 DEF MatchPartly, MatchWhole
  <2>3. ~Idle
    BY <2>2 DEF Idle
  <2>4. ~Idle'
    <3>1. PICK n : taker' = TakerAfter(n)
      BY <2>2
    <3>2. taker \in Taker
      BY <2>2 DEF TypeOK, NoTaker
    <3>3. taker'.phase = IF n = taker.quantity THEN "filled" ELSE "market"
      BY <3>1, <3>2 DEF TakerAfter, Taker
    <3> QED
      BY <3>3 DEF Idle
  <2>5. SessionTypeOK' /\ OneSession'
    BY <2>1, SameSessions
  <2>6. RequestOK'
    BY <2>1, <2>3, <2>4 DEF RequestOK, LoggedIn, server
  <2> QED
    BY <2>5, <2>6
<1>3. CASE Respond
  <2>1. UNCHANGED <<open, server>> /\ request' = NoRequest
    BY <1>3 DEF Respond
  <2>2. taker' = NoTaker
    BY <1>3 DEF Respond, ReturnFilled, ReturnUnfilled, ReturnResting
  <2>3. Idle'
    BY <2>2 DEF Idle, NoTaker
  <2> QED
    BY <2>1, <2>3, SameSessions, RequestDone
<1>4. CASE PurgeOne
  <2>1. UNCHANGED <<open, server, request>> /\ \E u : Cancel(u)
    BY <1>4 DEF PurgeOne
  <2>2. taker' = taker
    BY <2>1 DEF Cancel
  <2>3. SessionTypeOK' /\ OneSession'
    BY <2>1, SameSessions
  <2>4. RequestOK'
    BY <2>1, <2>2 DEF RequestOK, LoggedIn, server, Idle
  <2> QED
    BY <2>3, <2>4
<1>5. CASE RespondPurge
  <2>1. UNCHANGED <<vars, open, server>> /\ request' = NoRequest /\ request.kind = "purge"
    BY <1>5 DEF RespondPurge
  <2>2. Idle
    BY <2>1 DEF RequestOK
  <2>3. Idle'
    BY <2>1, <2>2 DEF Idle, vars
  <2> QED
    BY <2>1, <2>3, SameSessions, RequestDone
<1> QED
  BY <1>1, <1>2, <1>3, <1>4, <1>5 DEF ContinueRequest

\* The venue starts without sessions.
LEMMA VenueInitInv == VenueInit => VenueInv
<1> SUFFICES ASSUME VenueInit PROVE VenueInv
  OBVIOUS
<1> USE NullAssumption
<1>1. SessionTypeOK /\ OneSession
  BY DEF VenueInit, SessionTypeOK, OneSession, LoggedIn
<1>2. RequestOK
  BY DEF VenueInit, Init, RequestOK, NoRequest, Stopped, Idle, NoTaker
<1> QED
  BY <1>1, <1>2 DEF VenueInv

\* Every step of the venue keeps the invariant.
LEMMA VenueNextInv == VenueInv /\ Inv /\ [VenueNext]_venueVars => VenueInv' /\ Inv'
<1> SUFFICES ASSUME VenueInv, Inv, [VenueNext]_venueVars PROVE VenueInv'
  BY VenueStep, NextInv
<1>1. ASSUME NEW c \in Connections,
             Accept(c) \/ HandleEof(c) \/ ReadError(c) \/ Receive(c) \/ Disconnect(c)
      PROVE  VenueInv'
  BY <1>1, SessionStepInv
<1>2. ASSUME NEW c \in Connections, HandleRequest(c) PROVE VenueInv'
  <2>1. CASE \/ HandleLogout(c)
             \/ \E a \in Accounts \cup {Null}, right \in BOOLEAN : HandleLogin(c, a, right)
    BY <2>1, SessionStepInv
  <2>2. CASE \E s \in Side, q \in Quantities, p \in Prices \cup {0} : HandleOrder(c, s, q, p)
    BY <2>2, HandleOrderInv
  <2>3. CASE \E u \in KnownUIDs : HandleCancel(c, u)
    BY <2>3, HandleCancelInv
  <2>4. CASE \E u \in KnownUIDs, s \in Side, q \in Quantities, p \in Prices :
                HandleReplace(c, u, s, q, p)
    BY <2>4, HandleReplaceInv
  <2>5. CASE HandlePurge(c)
    BY <2>5, HandlePurgeInv
  <2> QED
    BY <1>2, <2>1, <2>2, <2>3, <2>4, <2>5 DEF HandleRequest
<1>3. CASE ContinueRequest
  BY <1>3, ContinueInv DEF Inv
<1>4. CASE UNCHANGED venueVars
  <2>1. UNCHANGED <<vars, open, server, request>>
    BY <1>4 DEF venueVars
  <2> QED
    BY <2>1, NothingChanges
<1> QED
  BY <1>1, <1>2, <1>3, <1>4 DEF VenueNext

-----------------------------------------------------------------------------
(* Theorems                                                                *)

\* The invariants of the sessions and of the book hold in every behaviour of the
\* venue.
THEOREM VenueInvariance == VenueSpec => [](VenueInv /\ Inv)
<1>1. VenueInit => VenueInv /\ Inv
  BY VenueInitInv, InitInv DEF VenueInit
<1>2. VenueInv /\ Inv /\ [VenueNext]_venueVars => VenueInv' /\ Inv'
  BY VenueNextInv
<1> QED
  BY <1>1, <1>2, PTL DEF VenueSpec

\* Every variable of the venue has its type, and the book is in a call exactly
\* when a handler of Connection waits for it.
THEOREM VenueTypeCorrect == VenueSpec => []VenueTypeOK
<1>1. VenueInv => VenueTypeOK
  BY DEF VenueInv, VenueTypeOK
<1> QED
  BY <1>1, VenueInvariance, PTL

\* An account has at most one session, and Connection::account, handler and
\* is_connected agree on it, however logins, logouts and lost connections of any
\* number of clients are interleaved.
THEOREM SessionsExclusive == VenueSpec => []OneSession
<1>1. VenueInv => OneSession
  BY DEF VenueInv
<1> QED
  BY <1>1, VenueInvariance, PTL

\* The venue implements the specification of the book: every handler of Connection
\* uses LimitOrderBook by its calls, one at a time, each to its end.
THEOREM VenueImplementsBook == VenueSpec => UsesBook
<1>1. VenueInit => Init
  BY DEF VenueInit
<1>2. VenueInv /\ [VenueNext]_venueVars => [Next]_vars
  BY VenueStep
<1> QED
  BY <1>1, <1>2, VenueInvariance, PTL DEF VenueSpec, Spec, UsesBook

\* In the venue, too, the book is not crossed, Account::orders is the set of the
\* account's orders, and every execution has priority in price and time.
THEOREM VenueTrades ==
    VenueSpec => [](NotCrossed /\ AccountsHoldOrders) /\ PriceTimePriority
<1>1. Inv => NotCrossed /\ AccountsHoldOrders
  BY DEF Inv
<1> QED
  BY <1>1, VenueImplementsBook, Invariance, Priority, PTL DEF UsesBook

\* A purge leaves the account without orders: the loop of handle(PurgeRequest)
\* walks a set that is the account's orders, so an empty set means none.
THEOREM PurgesComplete == VenueSpec => PurgeClears
<1> DEFINE Step == request.kind = "purge" /\ request' = NoRequest =>
                      \A u \in DOMAIN orders' : orders'[u].account # session[request.connection]
<1>1. VenueInv /\ Inv /\ VenueNext => Step
  <2> SUFFICES ASSUME VenueInv, Inv, VenueNext, request.kind = "purge", request' = NoRequest,
                      NEW u \in DOMAIN orders'
               PROVE  orders'[u].account # session[request.connection]
    OBVIOUS
  <2>1. request \notin {NoRequest, Stopped} /\ request # NoRequest /\ request' # request
    BY DEF NoRequest, Stopped
  <2>2. Idle
    BY DEF VenueInv, RequestOK
  <2>3. session[request.connection] \in Accounts
    BY <2>1, AtWork
  <2>4. RespondPurge
    <3>1. ASSUME NEW c \in Connections PROVE ~HandleRequest(c)
      BY <2>1 DEF HandleRequest, HandleLogin, HandleLogout, HandleOrder, HandleCancel,
                  HandleReplace, HandlePurge, Reject, CanHandle
    <3>2. ASSUME NEW c \in Connections
          PROVE  ~(Accept(c) \/ HandleEof(c) \/ ReadError(c) \/ Receive(c) \/ Disconnect(c))
      BY <2>1 DEF Accept, HandleEof, ReadError, Receive, Disconnect
    <3>3. ~PlaceReplacement /\ ~PurgeOne /\ ~Execute
      BY <2>1 DEF PlaceReplacement, PurgeOne, Execute
    <3>4. ~Respond
      BY <2>2 DEF Respond, ReturnFilled, ReturnUnfilled, ReturnResting, Idle
    <3> QED
      BY <3>1, <3>2, <3>3, <3>4 DEF VenueNext, ContinueRequest
  <2>5. active[session[request.connection]] = {} /\ orders' = orders
    BY <2>4 DEF RespondPurge, Purged, vars
  <2> QED
    BY <2>3, <2>5 DEF Inv, AccountsHoldOrders
<1>2. VenueInv /\ Inv /\ [VenueNext]_venueVars => [Step]_venueVars
  BY <1>1
<1> QED
  BY <1>2, VenueInvariance, PTL DEF VenueSpec, PurgeClears

\* Nobody but its owner takes an order out of the book.
THEOREM OwnersOnly == VenueSpec => OwnerWithdraws
<1> DEFINE Step == \A u \in DOMAIN orders : Withdrawn(u) => is_connected[orders[u].account]
<1>1. VenueInv /\ Inv /\ VenueNext => Step
  <2> SUFFICES ASSUME VenueInv, Inv, VenueNext, NEW u \in DOMAIN orders, Withdrawn(u)
               PROVE  is_connected[orders[u].account]
    OBVIOUS
  <2>1. Idle /\ u \notin DOMAIN orders'
    BY DEF Withdrawn
  <2>2. ASSUME UNCHANGED vars PROVE FALSE
    BY <2>1, <2>2 DEF vars
  <2>3. ASSUME NEW c \in Connections, session[c] = orders[u].account
        PROVE  is_connected[orders[u].account]
    <3>1. orders[u].account \in Accounts
      BY DEF Inv, TypeOK, BookTypeOK, Order
    <3> QED
      BY <3>1, <2>3, NullAssumption DEF VenueInv, OneSession
  <2>4. ASSUME NEW v, Cancel(v) PROVE v = u
    BY <2>1, <2>4 DEF Cancel, TreeRemove, Restrict
  <2>5. ASSUME NEW a, NEW s, NEW q, NEW p, MarketOrder(a, s, q) \/ LimitOrder(a, s, q, p)
        PROVE  FALSE
    BY <2>1, <2>5 DEF MarketOrder, LimitOrder
  <2>6. ASSUME NEW c \in Connections, HandleRequest(c) PROVE is_connected[orders[u].account]
    <3>1. CASE HandleLogout(c) \/ HandlePurge(c) \/ \E a, right : HandleLogin(c, a, right)
      BY <3>1, <2>2 DEF HandleLogout, HandlePurge, HandleLogin, Reject
    <3>2. CASE \E s, q, p : HandleOrder(c, s, q, p)
      BY <3>2, <2>2, <2>5 DEF HandleOrder, Reject
    <3>3. CASE \E v : HandleCancel(c, v)
      BY <3>3, <2>2, <2>3, <2>4 DEF HandleCancel, Reject, Owns
    <3>4. CASE \E v, s, q, p : HandleReplace(c, v, s, q, p)
      BY <3>4, <2>2, <2>3, <2>4 DEF HandleReplace, Reject, Owns
    <3> QED
      BY <2>6, <3>1, <3>2, <3>3, <3>4 DEF HandleRequest
  <2>7. ASSUME NEW c \in Connections,
               Accept(c) \/ HandleEof(c) \/ ReadError(c) \/ Receive(c) \/ Disconnect(c)
        PROVE  FALSE
    BY <2>2, <2>7 DEF Accept, HandleEof, ReadError, Receive, Disconnect
  <2>8. CASE PlaceReplacement \/ RespondPurge
    BY <2>2, <2>5, <2>8 DEF PlaceReplacement, RespondPurge
  <2>9. CASE Execute \/ Respond
    BY <2>1, <2>9 DEF Execute, Respond, MatchPartly, MatchWhole, ReturnFilled,
                      ReturnUnfilled, ReturnResting, Idle
  <2>10. CASE PurgeOne
    <3>1. request \notin {NoRequest, Stopped}
      BY <2>10 DEF PurgeOne, NoRequest, Stopped
    <3>2. request.connection \in Connections /\ session[request.connection] \in Accounts
      BY <3>1, AtWork
    <3>3. u \in active[session[request.connection]]
      BY <2>4, <2>10 DEF PurgeOne
    <3>4. orders[u].account = session[request.connection]
      BY <3>2, <3>3 DEF Inv, AccountsHoldOrders
    <3> QED
      BY <3>2, <3>4, <2>3
  <2> QED
    BY <2>6, <2>7, <2>8, <2>9, <2>10 DEF VenueNext, ContinueRequest
<1>2. VenueInv /\ Inv /\ [VenueNext]_venueVars => [Step]_venueVars
  BY <1>1
<1> QED
  BY <1>2, VenueInvariance, PTL DEF VenueSpec, OwnerWithdraws

-----------------------------------------------------------------------------
(* What the clients are told                                               *)

\* The responses.
Response ==
    [type : {"Login"}, status : {"Accepted", "AlreadyAuthorized", "NotAuthorized", "SessionInUse"}]
    \cup [type : {"Logout"}]
    \cup [type : {"Order", "Cancel"}, order_id : Nat, status : {"Accepted", "Rejected"}]
    \cup [type : {"Replace"}, canceled : Nat, new_order_id : Nat, status : {"Accepted", "Rejected"}]
    \cup [type : {"Purge"}, status : {"Accepted", "Rejected"}]
    \cup [type : {"Trade"}, order_id : Nat, price : Int, quantity : Int, leaves : Int, side : Side]

\* The states of a client.
ClientState ==
    [up : BOOLEAN, is_authorized : BOOLEAN, active_orders : SUBSET Nat, shares : Int, capital : Int]

\* Clients and responses have their types, and nothing is on its way to a client
\* that is gone.
ClientTypeOK ==
    /\ client \in [Connections -> ClientState]
    /\ responses \in [Connections -> Seq(Response)]
    /\ \A c \in Connections :
          Informed(c) \in ClientState /\ (~client[c].up => responses[c] = << >>)

\* The call of the book that a handler waits for was made for the handler's account,
\* and the order that a replace request took out of the book stays out.
HandlerOK ==
    /\ request.kind \in {"order", "replace"} => taker.account = session[request.connection]
    /\ request.kind \in {"replacing", "replace"} =>
          request.canceled \notin DOMAIN orders /\ request.canceled < sequence

\* The orders that the handler at work may have taken out of the book of connection
\* c's account without having told the client.
Unsaid(c) ==
    {v \in Nat : /\ request.kind \in {"replacing", "replace", "purge"}
                 /\ request.connection = c
                 /\ request.kind = "purge" \/ v = request.canceled}

\* The orders that the client on connection c may show.
MayShow(c) == IF LoggedIn(c) THEN active[session[c]] \cup Unsaid(c) ELSE {}

\* What holds of each client that is up, between any two steps.
LoginOK(c) == client[c].up => (Informed(c).is_authorized <=> LoggedIn(c))
ShownOK(c) == client[c].up => Informed(c).active_orders \subseteq MayShow(c)

\* The invariant that adds the clients' view to the venue's.
ClientInv ==
    /\ ClientTypeOK
    /\ HandlerOK
    /\ \A c \in Connections : LoginOK(c) /\ ShownOK(c)

\* Informed(c) is what FoldProofs is about.
LEMMA InformedFold ==
    ASSUME NEW c
    PROVE  /\ Informed(c) = Told!Folded(client[c], responses[c])
           /\ Informed(c)' = Told!Folded(client'[c], responses'[c])
  BY DEF Informed, FoldLeft, MapThenFoldSet, Max, Told!Folded, Told!FoldLeft,
         Told!MapThenFoldSet, Told!Max

\* A response is a message, whichever handler sends it.
LEMMA ResponseTypes ==
    /\ \A st \in {"Accepted", "AlreadyAuthorized", "NotAuthorized", "SessionInUse"} :
          LoginResponse(st) \in Response
    /\ LogoutResponse \in Response
    /\ \A u, v \in Nat, st \in {"Accepted", "Rejected"} :
          /\ OrderResponse(u, st) \in Response /\ CancelResponse(u, st) \in Response
          /\ ReplaceResponse(u, v, st) \in Response /\ PurgeResponse(st) \in Response
    /\ \A u \in Nat, p, n, l \in Int, s \in Side : TradeResponse(u, p, n, l, s) \in Response
  BY DEF Response, LoginResponse, LogoutResponse, OrderResponse, CancelResponse,
         ReplaceResponse, PurgeResponse, TradeResponse

\* Client k becomes client h: what it takes itself to be logged in, its orders and
\* its position.
Becomes(k, h, authorized, ids, owned, cash) ==
    /\ h \in ClientState /\ h.up = k.up
    /\ h.is_authorized <=> authorized
    /\ h.active_orders = ids /\ h.shares = owned /\ h.capital = cash

\* What each response does to a client.
LEMMA LoginEffect ==
    ASSUME NEW k \in ClientState, NEW st
    PROVE  Becomes(k, HandleResponse(k, LoginResponse(st)),
                   st \in {"Accepted", "AlreadyAuthorized"}, k.active_orders, k.shares, k.capital)
<1> DEFINE b == st \in {"Accepted", "AlreadyAuthorized"}
<1>1. HandleResponse(k, LoginResponse(st)) = [k EXCEPT !.is_authorized = b]
  BY DEF HandleResponse, LoginResponse, HandleLoginResponse
<1>2. b \in BOOLEAN
  BY SMT
<1> HIDE DEF b
<1>3. Becomes(k, HandleResponse(k, LoginResponse(st)), b, k.active_orders, k.shares, k.capital)
  BY <1>1, <1>2 DEF Becomes, ClientState
<1> QED
  BY <1>3 DEF b

LEMMA LogoutEffect ==
    ASSUME NEW k \in ClientState
    PROVE  Becomes(k, HandleResponse(k, LogoutResponse), FALSE, {}, k.shares, k.capital)
<1>1. HandleResponse(k, LogoutResponse) = [k EXCEPT !.is_authorized = FALSE, !.active_orders = {}]
  BY DEF HandleResponse, LogoutResponse, HandleLogoutResponse
<1> QED
  BY <1>1 DEF Becomes, ClientState

\* A client whose orders change.
LEMMA NewOrders ==
    ASSUME NEW k \in ClientState, NEW A \in SUBSET Nat
    PROVE  /\ Becomes(k, [k EXCEPT !.active_orders = A], k.is_authorized, A, k.shares, k.capital)
           /\ [k EXCEPT !.active_orders = k.active_orders] = k
  BY DEF Becomes, ClientState

\* A refusal leaves the client as it is.
LEMMA RefusalEffect ==
    ASSUME NEW k \in ClientState, NEW u, NEW v
    PROVE  /\ HandleResponse(k, OrderResponse(u, "Rejected")) = k
           /\ HandleResponse(k, CancelResponse(u, "Rejected")) = k
           /\ HandleResponse(k, ReplaceResponse(u, v, "Rejected")) = k
           /\ HandleResponse(k, PurgeResponse("Rejected")) = k
<1>1. HandleResponse(k, OrderResponse(u, "Rejected")) = k
  BY DEF HandleResponse, OrderResponse, HandleOrderResponse
<1>2. HandleResponse(k, CancelResponse(u, "Rejected")) = k
  BY DEF HandleResponse, CancelResponse, HandleCancelResponse
<1>3. HandleResponse(k, ReplaceResponse(u, v, "Rejected")) = k
  BY DEF HandleResponse, ReplaceResponse, HandleReplaceResponse
<1>4. HandleResponse(k, PurgeResponse("Rejected")) = k
  BY DEF HandleResponse, PurgeResponse, HandlePurgeResponse
<1> QED
  BY <1>1, <1>2, <1>3, <1>4

LEMMA OrderEffect ==
    ASSUME NEW k \in ClientState, NEW u \in Nat
    PROVE  Becomes(k, HandleResponse(k, OrderResponse(u, "Accepted")), k.is_authorized,
                   k.active_orders \cup ({u} \ {NoUID}), k.shares, k.capital)
<1> DEFINE A == k.active_orders \cup ({u} \ {NoUID})
<1>1. HandleResponse(k, OrderResponse(u, "Accepted")) =
          IF u = NoUID THEN k ELSE [k EXCEPT !.active_orders = @ \cup {u}]
  BY DEF HandleResponse, OrderResponse, HandleOrderResponse
<1>2. A \in SUBSET Nat /\ A = IF u = NoUID THEN k.active_orders ELSE k.active_orders \cup {u}
  BY DEF ClientState
<1> HIDE DEF A
<1>3. HandleResponse(k, OrderResponse(u, "Accepted")) = [k EXCEPT !.active_orders = A]
  BY <1>1, <1>2, NewOrders
<1> QED
  BY <1>2, <1>3, NewOrders DEF A

LEMMA CancelEffect ==
    ASSUME NEW k \in ClientState, NEW u
    PROVE  Becomes(k, HandleResponse(k, CancelResponse(u, "Accepted")), k.is_authorized,
                   k.active_orders \ {u}, k.shares, k.capital)
<1>1. HandleResponse(k, CancelResponse(u, "Accepted")) = [k EXCEPT !.active_orders = @ \ {u}]
  BY DEF HandleResponse, CancelResponse, HandleCancelResponse
<1>2. k.active_orders \ {u} \in SUBSET Nat
  BY DEF ClientState
<1> QED
  BY <1>1, <1>2, NewOrders

LEMMA ReplaceEffect ==
    ASSUME NEW k \in ClientState, NEW u, NEW v \in Nat
    PROVE  Becomes(k, HandleResponse(k, ReplaceResponse(u, v, "Accepted")), k.is_authorized,
                   (k.active_orders \ {u}) \cup ({v} \ {NoUID}), k.shares, k.capital)
<1>1. HandleResponse(k, ReplaceResponse(u, v, "Accepted")) =
          [k EXCEPT !.active_orders = (@ \ {u}) \cup ({v} \ {NoUID})]
  BY DEF HandleResponse, ReplaceResponse, HandleReplaceResponse
<1>2. (k.active_orders \ {u}) \cup ({v} \ {NoUID}) \in SUBSET Nat
  BY DEF ClientState
<1> QED
  BY <1>1, <1>2, NewOrders

LEMMA PurgeEffect ==
    ASSUME NEW k \in ClientState
    PROVE  Becomes(k, HandleResponse(k, PurgeResponse("Accepted")), k.is_authorized,
                   {}, k.shares, k.capital)
<1>1. HandleResponse(k, PurgeResponse("Accepted")) = [k EXCEPT !.active_orders = {}]
  BY DEF HandleResponse, PurgeResponse, HandlePurgeResponse
<1> QED
  BY <1>1, NewOrders

LEMMA TradeEffect ==
    ASSUME NEW k \in ClientState, NEW u, NEW p \in Int, NEW n \in Int, NEW l, NEW s
    PROVE  Becomes(k, HandleResponse(k, TradeResponse(u, p, n, l, s)), k.is_authorized,
                   IF l = 0 THEN k.active_orders \ {u} ELSE k.active_orders,
                   k.shares + Signed(s, n), k.capital - Signed(s, n) * p)
<1> DEFINE x == k.shares + Signed(s, n)
           y == k.capital - Signed(s, n) * p
           A == IF l = 0 THEN k.active_orders \ {u} ELSE k.active_orders
<1>1. HandleResponse(k, TradeResponse(u, p, n, l, s)) =
          [k EXCEPT !.shares = x, !.capital = y, !.active_orders = A]
  BY DEF HandleResponse, TradeResponse, HandleTradeResponse, ClientState
<1>2. Signed(s, n) \in Int
  BY DEF Signed
<1>3. Signed(s, n) * p \in Int
  BY <1>2
<1>4. x \in Int /\ y \in Int /\ A \in SUBSET Nat
  BY <1>2, <1>3 DEF ClientState
<1> HIDE DEF x, y, A
<1>5. Becomes(k, HandleResponse(k, TradeResponse(u, p, n, l, s)), k.is_authorized, A, x, y)
  <2>1. Becomes(k, [k EXCEPT !.shares = x, !.capital = y, !.active_orders = A],
                k.is_authorized, A, x, y)
    BY <1>4 DEF Becomes, ClientState
  <2> QED
    BY <1>1, <2>1, Zenon
<1> QED
  BY <1>5 DEF x, y, A

\* A client stays a client, whichever response it handles.
LEMMA EffectTypes ==
    ASSUME NEW k \in ClientState, NEW msg \in Response
    PROVE  HandleResponse(k, msg) \in ClientState /\ HandleResponse(k, msg).up = k.up
<1> DEFINE St == {"Accepted", "Rejected"}
           Lg == {"Accepted", "AlreadyAuthorized", "NotAuthorized", "SessionInUse"}
<1>1. ASSUME NEW st \in Lg, msg = LoginResponse(st)
      PROVE  HandleResponse(k, msg) \in ClientState /\ HandleResponse(k, msg).up = k.up
  BY <1>1, LoginEffect DEF Becomes
<1>2. ASSUME msg = LogoutResponse
      PROVE  HandleResponse(k, msg) \in ClientState /\ HandleResponse(k, msg).up = k.up
  BY <1>2, LogoutEffect DEF Becomes
<1>3. ASSUME NEW u \in Nat, NEW st \in St,
             msg = OrderResponse(u, st) \/ msg = CancelResponse(u, st) \/ msg = PurgeResponse(st)
      PROVE  HandleResponse(k, msg) \in ClientState /\ HandleResponse(k, msg).up = k.up
  <2>1. CASE st = "Rejected"
    BY <1>3, <2>1, RefusalEffect
  <2>2. CASE st = "Accepted" /\ msg = OrderResponse(u, st)
    BY <2>2, OrderEffect DEF Becomes
  <2>3. CASE st = "Accepted" /\ msg = CancelResponse(u, st)
    BY <2>3, CancelEffect DEF Becomes
  <2>4. CASE st = "Accepted" /\ msg = PurgeResponse(st)
    BY <2>4, PurgeEffect DEF Becomes
  <2> QED
    BY <1>3, <2>1, <2>2, <2>3, <2>4
<1>4. ASSUME NEW u \in Nat, NEW v \in Nat, NEW st \in St, msg = ReplaceResponse(u, v, st)
      PROVE  HandleResponse(k, msg) \in ClientState /\ HandleResponse(k, msg).up = k.up
  BY <1>4, RefusalEffect, ReplaceEffect DEF Becomes
<1>5. ASSUME NEW u \in Nat, NEW p \in Int, NEW n \in Int, NEW l \in Int, NEW s \in Side,
             msg = TradeResponse(u, p, n, l, s)
      PROVE  HandleResponse(k, msg) \in ClientState /\ HandleResponse(k, msg).up = k.up
  <2>1. Becomes(k, HandleResponse(k, TradeResponse(u, p, n, l, s)), k.is_authorized,
                IF l = 0 THEN k.active_orders \ {u} ELSE k.active_orders,
                k.shares + Signed(s, n), k.capital - Signed(s, n) * p)
    BY TradeEffect
  <2> QED
    BY <1>5, <2>1 DEF Becomes
<1>6. CASE msg \in [type : {"Login"}, status : Lg]
  BY <1>6, <1>1 DEF LoginResponse
<1>7. CASE msg \in [type : {"Logout"}]
  BY <1>7, <1>2 DEF LogoutResponse
<1>8. CASE msg \in [type : {"Order", "Cancel"}, order_id : Nat, status : St]
  <2>1. msg = OrderResponse(msg.order_id, msg.status) \/ msg = CancelResponse(msg.order_id, msg.status)
    BY <1>8 DEF OrderResponse, CancelResponse
  <2>2. msg.order_id \in Nat /\ msg.status \in St
    BY <1>8
  <2> QED
    BY <2>1, <2>2, <1>3
<1>9. CASE msg \in [type : {"Replace"}, canceled : Nat, new_order_id : Nat, status : St]
  <2>1. msg = ReplaceResponse(msg.canceled, msg.new_order_id, msg.status)
    BY <1>9 DEF ReplaceResponse
  <2>2. msg.canceled \in Nat /\ msg.new_order_id \in Nat /\ msg.status \in St
    BY <1>9
  <2> QED
    BY <2>1, <2>2, <1>4
<1>10. CASE msg \in [type : {"Purge"}, status : St]
  <2>1. msg = PurgeResponse(msg.status) /\ msg.status \in St
    BY <1>10 DEF PurgeResponse
  <2> QED
    BY <2>1, <1>3
<1>11. CASE msg \in [type : {"Trade"}, order_id : Nat, price : Int, quantity : Int, leaves : Int,
                     side : Side]
  <2>1. msg = TradeResponse(msg.order_id, msg.price, msg.quantity, msg.leaves, msg.side)
    BY <1>11 DEF TradeResponse
  <2>2. /\ msg.order_id \in Nat /\ msg.price \in Int /\ msg.quantity \in Int
        /\ msg.leaves \in Int /\ msg.side \in Side
    BY <1>11
  <2> QED
    BY <2>1, <2>2, <1>5
<1> QED
  BY <1>6, <1>7, <1>8, <1>9, <1>10, <1>11 DEF Response

-----------------------------------------------------------------------------
(* How what a client is going to know changes.                             *)

\* Nothing is sent to the client.
LEMMA ToldNothing ==
    ASSUME NEW c, client'[c] = client[c], responses'[c] = responses[c]
    PROVE  Informed(c)' = Informed(c)
  BY InformedFold

\* Sending appends.
LEMMA OneMore ==
    ASSUME NEW S, NEW q \in Seq(S), NEW x \in S
    PROVE  q \o <<x>> = Append(q, x) /\ Append(q, x) \in Seq(S)
  OBVIOUS

\* One response is sent.
LEMMA ToldOne ==
    ASSUME NEW c, responses[c] \in Seq(Response), NEW msg \in Response,
           client'[c] = client[c], responses'[c] = responses[c] \o <<msg>>
    PROVE  Informed(c)' = HandleResponse(Informed(c), msg) /\ responses'[c] \in Seq(Response)
<1>1. responses'[c] = Append(responses[c], msg) /\ responses'[c] \in Seq(Response)
  BY OneMore
<1>2. Told!Folded(client[c], Append(responses[c], msg)) =
          HandleResponse(Told!Folded(client[c], responses[c]), msg)
  BY Told!FoldedAppend
<1>3. Informed(c)' = Told!Folded(client[c], Append(responses[c], msg))
  BY <1>1, InformedFold
<1> QED
  BY <1>1, <1>2, <1>3, InformedFold

\* Two responses are sent.
LEMMA ToldTwo ==
    ASSUME NEW c, responses[c] \in Seq(Response), NEW msg \in Response, NEW nxt \in Response,
           client'[c] = client[c], responses'[c] = (responses[c] \o <<msg>>) \o <<nxt>>
    PROVE  /\ Informed(c)' = HandleResponse(HandleResponse(Informed(c), msg), nxt)
           /\ responses'[c] \in Seq(Response)
<1> DEFINE q == Append(responses[c], msg)
<1>0. q \in Seq(Response) /\ responses[c] \o <<msg>> = q
  BY OneMore
<1>2. Told!Folded(client[c], q) = HandleResponse(Told!Folded(client[c], responses[c]), msg)
  BY Told!FoldedAppend
<1> HIDE DEF q
<1>1. responses'[c] = Append(q, nxt) /\ responses'[c] \in Seq(Response)
  <2>1. responses'[c] = q \o <<nxt>>
    BY <1>0, Zenon
  <2>2. q \o <<nxt>> = Append(q, nxt) /\ q \o <<nxt>> \in Seq(Response)
    BY <1>0, OneMore
  <2> QED
    BY <2>1, <2>2, Zenon
<1>3. Told!Folded(client[c], Append(q, nxt)) = HandleResponse(Told!Folded(client[c], q), nxt)
  BY <1>0, Told!FoldedAppend
<1>4. Informed(c)' = Told!Folded(client[c], Append(q, nxt))
  BY <1>1, InformedFold
<1> QED
  BY <1>1, <1>2, <1>3, <1>4, InformedFold

\* The client receives a response: it only comes to know what it was going to.
LEMMA Received ==
    ASSUME ClientTypeOK, NEW c \in Connections, Receive(c)
    PROVE  /\ Informed(c)' = Informed(c)
           /\ client'[c].up = client[c].up
           /\ client' \in [Connections -> ClientState] /\ responses' \in [Connections -> Seq(Response)]
           /\ \A d \in Connections : d # c => client'[d] = client[d] /\ responses'[d] = responses[d]
<1> DEFINE q == responses[c]
<1>1. /\ q \in Seq(Response) /\ q # << >>
      /\ client' = [client EXCEPT ![c] = HandleResponse(@, Head(q))]
      /\ responses' = [responses EXCEPT ![c] = Tail(@)]
  BY DEF Receive, ClientTypeOK
<1>2. Head(q) \in Response /\ Tail(q) \in Seq(Response)
  BY <1>1
<1>3. client[c] \in ClientState
  BY DEF ClientTypeOK
<1>4. HandleResponse(client[c], Head(q)) \in ClientState
      /\ HandleResponse(client[c], Head(q)).up = client[c].up
  BY <1>2, <1>3, EffectTypes
<1>5. client'[c] = HandleResponse(client[c], Head(q)) /\ responses'[c] = Tail(q)
  BY <1>1 DEF ClientTypeOK
<1>6. Told!Folded(client[c], q) = Told!Folded(HandleResponse(client[c], Head(q)), Tail(q))
  BY <1>1, Told!FoldedHead
<1>7. Informed(c)' = Informed(c)
  BY <1>5, <1>6, InformedFold
<1>8. client' \in [Connections -> ClientState] /\ responses' \in [Connections -> Seq(Response)]
  BY <1>1, <1>2, <1>4 DEF ClientTypeOK
<1> QED
  BY <1>1, <1>4, <1>5, <1>7, <1>8 DEF ClientTypeOK

\* A response to the client on connection c, and nothing to the others.
LEMMA SendTells ==
    ASSUME ClientTypeOK, NEW c \in Connections, NEW msg \in Response, Send(c, msg), client' = client
    PROVE  /\ ClientTypeOK'
           /\ \A d \in Connections : d # c \/ ~client[d].up => Informed(d)' = Informed(d)
           /\ client[c].up => Informed(c)' = HandleResponse(Informed(c), msg)
<1>1. ASSUME NEW d \in Connections
      PROVE  /\ responses'[d] = IF d = c /\ client[d].up THEN responses[d] \o <<msg>> ELSE responses[d]
             /\ client'[d] = client[d] /\ responses[d] \in Seq(Response)
             /\ Informed(d) \in ClientState
             /\ ~client[d].up => responses[d] = << >>
  BY DEF Send, Queued, ClientTypeOK
<1>2. ASSUME NEW d \in Connections, d # c \/ ~client[d].up
      PROVE  Informed(d)' = Informed(d) /\ responses'[d] = responses[d]
  BY <1>1, <1>2, ToldNothing
<1>3. ASSUME client[c].up
      PROVE  Informed(c)' = HandleResponse(Informed(c), msg) /\ responses'[c] \in Seq(Response)
  BY <1>1, <1>3, ToldOne
<1>4. \A d \in Connections : responses'[d] \in Seq(Response)
  BY <1>1, <1>2, <1>3
<1>5. \A d \in Connections : Informed(d)' \in ClientState
  BY <1>1, <1>2, <1>3, EffectTypes
<1>6. DOMAIN responses' = Connections /\ responses' = [d \in Connections |-> responses'[d]]
  BY DEF Send
<1>7. responses' \in [Connections -> Seq(Response)]
  BY <1>4, <1>6
<1>8. ClientTypeOK'
  BY <1>1, <1>2, <1>5, <1>7 DEF ClientTypeOK
<1> QED
  BY <1>2, <1>3, <1>8

\* What a step does not break for the client on connection c: the invariants, and the
\* two action properties.
TrackStep(c) ==
    client'[c].up /\ LoggedIn(c) /\ session'[c] = session[c] =>
        \A u \in active'[session[c]] :
            u \in Informed(c)'.active_orders
                <=> (u \in active[session[c]] => u \in Informed(c).active_orders)

PositionStep(c) ==
    client[c].up /\ client'[c].up =>
        LET stays == LoggedIn(c) /\ session'[c] = session[c]
        IN  /\ Informed(c)'.shares - Informed(c).shares =
                   (IF stays THEN shares'[session[c]] - shares[session[c]] ELSE 0)
            /\ Informed(c)'.capital - Informed(c).capital =
                   (IF stays THEN capital'[session[c]] - capital[session[c]] ELSE 0)

Kept(c) == LoginOK(c)' /\ ShownOK(c)' /\ TrackStep(c) /\ PositionStep(c)

\* A client that is gone after the step.
LEMMA GoneKept ==
    ASSUME NEW c \in Connections, ~client'[c].up
    PROVE  Kept(c)
  BY DEF Kept, LoginOK, ShownOK, TrackStep, PositionStep

\* Numbers that do not change.
LEMMA NoDifference == \A x \in Int : x - x = 0
  OBVIOUS

\* A client that learns nothing and whose account does not change.
LEMMA BystanderKept ==
    ASSUME ClientInv, Inv, VenueInv, NEW c \in Connections,
           client'[c].up = client[c].up, Informed(c)' = Informed(c), session'[c] = session[c],
           LoggedIn(c) => /\ active'[session[c]] = active[session[c]]
                          /\ shares'[session[c]] = shares[session[c]]
                          /\ capital'[session[c]] = capital[session[c]],
           LoggedIn(c) => Unsaid(c) \subseteq Unsaid(c)'
    PROVE  Kept(c)
<1>1. LoggedIn(c)' <=> LoggedIn(c)
  BY DEF LoggedIn
<1>2. LoginOK(c)'
  BY <1>1 DEF ClientInv, LoginOK
<1>3. MayShow(c) \subseteq MayShow(c)'
  BY <1>1 DEF MayShow
<1>4. ShownOK(c)'
  BY <1>3 DEF ClientInv, ShownOK
<1>5. TrackStep(c)
  BY DEF TrackStep
<1>6. Informed(c).shares \in Int /\ Informed(c).capital \in Int
  BY DEF ClientInv, ClientTypeOK, ClientState
<1>7. LoggedIn(c) => shares[session[c]] \in Int /\ capital[session[c]] \in Int
  BY SessionAccount DEF Inv, TypeOK, AccountsTypeOK
<1>8. PositionStep(c)
  BY <1>6, <1>7, NoDifference DEF PositionStep
<1> QED
  BY <1>2, <1>4, <1>5, <1>8 DEF Kept

-----------------------------------------------------------------------------
(* The clients, step by step.                                              *)

\* What is shown of every step.
Good == ClientTypeOK' /\ HandlerOK' /\ \A c \in Connections : Kept(c)

\* The step leaves the book alone, or there is nothing left unsaid before it.
LEMMA SameBookKept ==
    ASSUME ClientInv, Inv, VenueInv, NEW c \in Connections,
           client'[c].up = client[c].up, Informed(c)' = Informed(c), session'[c] = session[c],
           UNCHANGED vars, request' = request \/ request \in {NoRequest, Stopped}
    PROVE  Kept(c)
<1>1. Unsaid(c) \subseteq Unsaid(c)'
  BY DEF Unsaid, NoRequest, Stopped
<1>2. active' = active /\ shares' = shares /\ capital' = capital
  BY DEF vars, accounts
<1> QED
  BY <1>1, <1>2, BystanderKept

\* No handler is at work after the step.
LEMMA NoHandler ==
    ASSUME request' \in {NoRequest, Stopped}
    PROVE  HandlerOK' /\ \A c : Unsaid(c)' = {}
  BY DEF HandlerOK, NoRequest, Stopped, Unsaid

\* The book and the request stay.
LEMMA SameHandler ==
    ASSUME HandlerOK, UNCHANGED <<vars, request>>, session' = session
    PROVE  HandlerOK'
  BY DEF HandlerOK, vars

\* The client before and after its life.
LEMMA NewClients ==
    /\ NewClient \in ClientState /\ NoClient \in ClientState
    /\ ~NoClient.up /\ NewClient.is_authorized = FALSE /\ NewClient.active_orders = {}
<1>1. NewClient \in ClientState /\ NewClient.is_authorized = FALSE /\ NewClient.active_orders = {}
  BY DEF NewClient, ClientState
<1>2. NoClient \in ClientState /\ ~NoClient.up
  <2>1. NoClient = [NewClient EXCEPT !.up = FALSE]
    BY DEF NoClient
  <2> QED
    BY <1>1, <2>1 DEF ClientState
<1> QED
  BY <1>1, <1>2

\* The clients' own steps, and those of connections.
LEMMA ConnectionSteps ==
    ASSUME ClientInv, Inv, VenueInv, NEW c \in Connections,
           Receive(c) \/ Disconnect(c) \/ Accept(c) \/ HandleEof(c) \/ ReadError(c)
    PROVE  Good
<1>0. ClientTypeOK /\ HandlerOK
  BY DEF ClientInv
<1>1. CASE Receive(c)
  <2>1. /\ Informed(c)' = Informed(c) /\ client'[c].up = client[c].up
        /\ client' \in [Connections -> ClientState] /\ responses' \in [Connections -> Seq(Response)]
        /\ \A d \in Connections : d # c => client'[d] = client[d] /\ responses'[d] = responses[d]
    BY <1>0, <1>1, Received
  <2>2. UNCHANGED <<vars, request>> /\ session' = session /\ client[c].up
    BY <1>1 DEF Receive, server
  <2>3. ASSUME NEW d \in Connections
        PROVE  Informed(d)' = Informed(d) /\ client'[d].up = client[d].up
    BY <2>1, ToldNothing
  <2>4. ClientTypeOK'
    BY <2>1, <2>2, <2>3, <1>0 DEF ClientTypeOK
  <2>5. \A d \in Connections : Kept(d)
    BY <2>2, <2>3, SameBookKept
  <2> QED
    BY <2>2, <2>4, <2>5, <1>0, SameHandler DEF Good
<1>2. CASE Disconnect(c) \/ Accept(c)
  <2> DEFINE k == IF Accept(c) THEN NewClient ELSE NoClient
  <2>1. /\ client' = [client EXCEPT ![c] = k]
        /\ responses' = [responses EXCEPT ![c] = << >>]
    BY <1>2, <1>0 DEF Disconnect, Accept, ClientTypeOK
  <2>2. UNCHANGED <<vars, request>> /\ session' = session
    BY <1>2 DEF Disconnect, Accept, server
  <2>3. /\ NewClient \in ClientState /\ NoClient \in ClientState /\ k \in ClientState
        /\ ~NoClient.up /\ NewClient.is_authorized = FALSE /\ NewClient.active_orders = {}
    BY NewClients
  <2>4. client'[c] = k /\ responses'[c] = << >>
    BY <2>1, <1>0 DEF ClientTypeOK
  <2> HIDE DEF k
  <2>5. Informed(c)' = k
    BY <2>4, InformedFold, Told!FoldedEmpty
  <2>6. ASSUME NEW d \in Connections, d # c
        PROVE  Informed(d)' = Informed(d) /\ client'[d] = client[d] /\ responses'[d] = responses[d]
    BY <2>1, <2>6, <1>0, ToldNothing DEF ClientTypeOK
  <2>7. client' \in [Connections -> ClientState] /\ responses' \in [Connections -> Seq(Response)]
    BY <2>1, <2>3, <1>0 DEF ClientTypeOK
  <2>8. ClientTypeOK'
    BY <2>3, <2>4, <2>5, <2>6, <2>7, <1>0 DEF ClientTypeOK
  <2>9. Kept(c)
    <3>1. CASE Accept(c)
      <4>1. ~client[c].up /\ ~LoggedIn(c) /\ Informed(c)' = NewClient
        BY <3>1, <2>5 DEF Accept, VenueInv, OneSession, k
      <4>2. ~LoggedIn(c)'
        BY <4>1, <2>2 DEF LoggedIn
      <4> QED
        BY <4>1, <4>2, <2>3 DEF Kept, LoginOK, ShownOK, TrackStep, PositionStep
    <3>2. CASE ~Accept(c)
      BY <3>2, <2>3, <2>4, GoneKept DEF k
    <3> QED
      BY <3>1, <3>2
  <2>10. \A d \in Connections : Kept(d)
    BY <2>2, <2>6, <2>9, SameBookKept
  <2> QED
    BY <2>2, <2>8, <2>10, <1>0, SameHandler DEF Good
<1>3. CASE HandleEof(c) \/ ReadError(c)
  <2>1. /\ UNCHANGED vars /\ client' = client /\ responses' = responses /\ ~client[c].up
        /\ request = NoRequest /\ request' \in {NoRequest, Stopped}
    BY <1>3 DEF HandleEof, ReadError
  <2>2. \A d \in Connections : Informed(d)' = Informed(d)
    BY <2>1, ToldNothing
  <2>3. ClientTypeOK'
    BY <2>1, <2>2, <1>0 DEF ClientTypeOK
  <2>4. ASSUME NEW d \in Connections, d # c PROVE session'[d] = session[d]
    BY <1>3, <2>4 DEF HandleEof, ReadError, Logout, server, VenueInv, SessionTypeOK
  <2>5. \A d \in Connections : Kept(d)
    BY <2>1, <2>2, <2>4, SameBookKept, GoneKept
  <2> QED
    BY <2>1, <2>3, <2>5, NoHandler DEF Good
<1> QED
  BY <1>1, <1>2, <1>3

\* handle(LoginRequest) and handle(LogoutRequest)
LEMMA LoginSteps ==
    ASSUME ClientInv, Inv, VenueInv, NEW c \in Connections,
           \/ HandleLogout(c)
           \/ \E a \in Accounts \cup {Null}, right \in BOOLEAN : HandleLogin(c, a, right)
    PROVE  Good
<1>0. ClientTypeOK /\ LoginOK(c) /\ ShownOK(c)
  BY DEF ClientInv
<1>1. /\ UNCHANGED vars /\ client' = client /\ request = NoRequest /\ request' = NoRequest
  BY DEF HandleLogout, HandleLogin, CanHandle
<1>2. Unsaid(c) = {} /\ Unsaid(c)' = {}
  BY <1>1 DEF Unsaid, NoRequest
<1>3. ASSUME NEW d \in Connections, d # c PROVE session'[d] = session[d]
  BY <1>3 DEF HandleLogout, Logout, HandleLogin, server, VenueInv, SessionTypeOK
<1>4. PICK msg \in Response :
        /\ Send(c, msg)
        /\ \/ /\ msg = LogoutResponse /\ session'[c] = Null
           \/ \E a \in Accounts \cup {Null}, right \in BOOLEAN :
                 /\ msg = LoginResponse(LoginStatus(c, a, right))
                 /\ session'[c] = IF LoginStatus(c, a, right) = "Accepted" THEN a ELSE session[c]
  <2>1. CASE HandleLogout(c)
    BY <2>1, ResponseTypes DEF HandleLogout, Logout, VenueInv, SessionTypeOK
  <2>2. ASSUME NEW a \in Accounts \cup {Null}, NEW right \in BOOLEAN, HandleLogin(c, a, right)
        PROVE  /\ LoginResponse(LoginStatus(c, a, right)) \in Response
               /\ Send(c, LoginResponse(LoginStatus(c, a, right)))
               /\ session'[c] = IF LoginStatus(c, a, right) = "Accepted" THEN a ELSE session[c]
    <3>1. LoginStatus(c, a, right) \in {"Accepted", "AlreadyAuthorized", "NotAuthorized", "SessionInUse"}
      BY DEF LoginStatus
    <3>2. session'[c] = IF LoginStatus(c, a, right) = "Accepted" THEN a ELSE session[c]
      BY <2>2 DEF HandleLogin, server, VenueInv, SessionTypeOK
    <3> QED
      BY <2>2, <3>1, <3>2, ResponseTypes DEF HandleLogin
  <2> QED
    BY <2>1, <2>2
<1>5. /\ ClientTypeOK'
      /\ \A d \in Connections : d # c \/ ~client[d].up => Informed(d)' = Informed(d)
      /\ client[c].up => Informed(c)' = HandleResponse(Informed(c), msg)
  BY <1>0, <1>1, <1>4, SendTells
<1>6. ASSUME client[c].up PROVE Kept(c)
  <2> DEFINE k == Informed(c)
             h == Informed(c)'
  <2>1. k \in ClientState /\ h = HandleResponse(k, msg) /\ client'[c].up
    BY <1>0, <1>1, <1>5, <1>6 DEF ClientTypeOK
  <2>2. k.shares \in Int /\ k.capital \in Int
    BY <2>1 DEF ClientState
  <2>3. active' = active /\ shares' = shares /\ capital' = capital
    BY <1>1 DEF vars, accounts
  <2>4. LoggedIn(c) => shares[session[c]] \in Int /\ capital[session[c]] \in Int
    BY SessionAccount DEF Inv, TypeOK, AccountsTypeOK
  <2> HIDE DEF k, h
  <2>5. CASE msg = LogoutResponse /\ session'[c] = Null
    <3>1. Becomes(k, h, FALSE, {}, k.shares, k.capital)
      BY <2>1, <2>5, LogoutEffect
    <3>2. ~LoggedIn(c)'
      BY <2>5 DEF LoggedIn
    <3>3. LoginOK(c)' /\ ShownOK(c)' /\ TrackStep(c)
      BY <3>1, <3>2, <2>5 DEF LoginOK, ShownOK, TrackStep, LoggedIn, Becomes, h
    <3>4. PositionStep(c)
      BY <3>1, <2>2, <2>5, NoDifference DEF PositionStep, LoggedIn, Becomes, h, k
    <3> QED
      BY <3>3, <3>4 DEF Kept
  <2>6. ASSUME NEW a \in Accounts \cup {Null}, NEW right \in BOOLEAN,
               msg = LoginResponse(LoginStatus(c, a, right)),
               session'[c] = IF LoginStatus(c, a, right) = "Accepted" THEN a ELSE session[c]
        PROVE  Kept(c)
    <3> DEFINE st == LoginStatus(c, a, right)
    <3>1. Becomes(k, h, st \in {"Accepted", "AlreadyAuthorized"}, k.active_orders, k.shares, k.capital)
      BY <2>1, <2>6, LoginEffect
    <3>2. LoggedIn(c)' <=> st \in {"Accepted", "AlreadyAuthorized"}
      BY <2>6, NullAssumption DEF LoggedIn, LoginStatus, IsValid
    <3>3. LoggedIn(c) => st = "AlreadyAuthorized" /\ session'[c] = session[c]
      BY <2>6 DEF LoggedIn, LoginStatus
    <3> HIDE DEF st
    <3>4. LoginOK(c)'
      BY <3>1, <3>2 DEF LoginOK, Becomes, h
    <3>5. k.active_orders \subseteq MayShow(c)
      BY <1>0, <1>6 DEF ShownOK, k
    <3>6. ShownOK(c)'
      <4>1. CASE LoggedIn(c)
        <5>1. LoggedIn(c)' /\ session'[c] = session[c]
          BY <3>3, <4>1 DEF LoggedIn
        <5> QED
          BY <3>1, <3>5, <4>1, <5>1, <1>2, <2>3 DEF ShownOK, MayShow, Becomes, h
      <4>2. CASE ~LoggedIn(c)
        BY <3>1, <3>5, <4>2 DEF ShownOK, MayShow, Becomes, h
      <4> QED
        BY <4>1, <4>2
    <3>7. TrackStep(c)
      BY <3>1, <2>3 DEF TrackStep, Becomes, h, k
    <3>8. PositionStep(c)
      BY <3>1, <3>3, <2>2, <2>3, <2>4, NoDifference DEF PositionStep, Becomes, h, k
    <3> QED
      BY <3>4, <3>6, <3>7, <3>8 DEF Kept
  <2> QED
    BY <1>4, <2>5, <2>6
<1>7. \A d \in Connections : Kept(d)
  BY <1>1, <1>3, <1>5, <1>6, SameBookKept, GoneKept
<1> QED
  BY <1>1, <1>5, <1>7, NoHandler DEF Good

\* A request is rejected.
LEMMA RejectSteps ==
    ASSUME ClientInv, Inv, VenueInv, NEW c \in Connections, NEW u \in Nat, NEW v \in Nat, NEW msg,
           msg \in {OrderResponse(u, "Rejected"), CancelResponse(u, "Rejected"),
                    ReplaceResponse(u, v, "Rejected"), PurgeResponse("Rejected")},
           Reject(c, msg)
    PROVE  Good
<1>0. ClientTypeOK /\ HandlerOK
  BY DEF ClientInv
<1>1. UNCHANGED <<vars, request>> /\ client' = client /\ session' = session /\ Send(c, msg)
  BY DEF Reject, server
<1>2. msg \in Response
  BY ResponseTypes
<1>3. /\ ClientTypeOK'
      /\ \A d \in Connections : d # c \/ ~client[d].up => Informed(d)' = Informed(d)
      /\ client[c].up => Informed(c)' = HandleResponse(Informed(c), msg)
  BY <1>0, <1>1, <1>2, SendTells
<1>4. HandleResponse(Informed(c), msg) = Informed(c)
  <2>1. Informed(c) \in ClientState
    BY <1>0 DEF ClientTypeOK
  <2> QED
    BY <2>1, RefusalEffect
<1>5. \A d \in Connections : Informed(d)' = Informed(d)
  BY <1>3, <1>4
<1>6. \A d \in Connections : Kept(d)
  BY <1>1, <1>5, SameBookKept
<1> QED
  BY <1>0, <1>1, <1>3, <1>6, SameHandler DEF Good

\* Two connections that are logged in have different accounts.
LEMMA SessionsApart ==
    ASSUME VenueInv, NEW c \in Connections, NEW d \in Connections, LoggedIn(c), d # c
    PROVE  session[d] # session[c]
<1>1. session[c] \in Accounts
  BY SessionAccount
<1> QED
  BY <1>1 DEF VenueInv, OneSession

\* No client is told anything.
LEMMA Silence ==
    ASSUME ClientTypeOK, UNCHANGED <<responses, client>>
    PROVE  /\ ClientTypeOK'
           /\ \A d \in Connections : Informed(d)' = Informed(d) /\ client'[d].up = client[d].up
<1>1. \A d \in Connections : Informed(d)' = Informed(d)
  BY ToldNothing
<1> QED
  BY <1>1 DEF ClientTypeOK

\* handle(OrderRequest)
LEMMA OrderSteps ==
    ASSUME ClientInv, Inv, VenueInv, NEW c \in Connections, NEW s, NEW q, NEW p,
           HandleOrder(c, s, q, p)
    PROVE  Good
<1>1. CASE ~LoggedIn(c)
  <2>1. Reject(c, OrderResponse(NoUID, "Rejected")) /\ NoUID \in Nat
    BY <1>1 DEF HandleOrder, NoUID
  <2> QED
    BY <2>1, RejectSteps
<1>2. CASE LoggedIn(c)
  <2>0. ClientTypeOK
    BY DEF ClientInv
  <2>1. /\ request = NoRequest /\ request' = [kind |-> "order", connection |-> c, canceled |-> NoUID]
        /\ UNCHANGED <<responses, client>> /\ session' = session
    BY <1>2 DEF HandleOrder, CanHandle, Call, server
  <2>2. /\ taker'.account = session[c]
        /\ UNCHANGED <<orders, sequence, accounts>>
    BY <1>2 DEF HandleOrder, MarketOrder, LimitOrder
  <2>3. HandlerOK'
    BY <2>1, <2>2 DEF HandlerOK
  <2>4. /\ ClientTypeOK'
        /\ \A d \in Connections : Informed(d)' = Informed(d) /\ client'[d].up = client[d].up
    BY <2>0, <2>1, Silence
  <2>5. \A d \in Connections : Unsaid(d) = {}
    BY <2>1 DEF Unsaid, NoRequest
  <2>6. \A d \in Connections : Kept(d)
    BY <2>1, <2>2, <2>4, <2>5, BystanderKept DEF accounts
  <2> QED
    BY <2>3, <2>4, <2>6 DEF Good
<1> QED
  BY <1>1, <1>2

\* A cancel takes one order from one account.
LEMMA CancelOnly ==
    ASSUME Inv, NEW u, Cancel(u)
    PROVE  /\ u \in DOMAIN orders /\ orders[u].account \in Accounts /\ DOMAIN orders' = DOMAIN orders \ {u}
           /\ active'[orders[u].account] = active[orders[u].account] \ {u}
           /\ \A a \in Accounts : a # orders[u].account => active'[a] = active[a]
           /\ shares' = shares /\ capital' = capital /\ sequence' = sequence /\ taker' = taker
           /\ u \in UID /\ u < sequence
<1>1. u \in DOMAIN orders /\ orders[u] \in Order /\ u \in UID /\ u < sequence
  BY DEF Cancel, Inv, TypeOK, BookTypeOK, IDsHandedOut
<1>2. orders' = Restrict(orders, DOMAIN orders \ {u})
  BY DEF Cancel, TreeRemove
<1>3. DOMAIN orders' = DOMAIN orders \ {u}
  BY <1>2 DEF Restrict
<1>4. orders[u].account \in Accounts
  BY <1>1 DEF Order
<1>5. active' = [active EXCEPT ![orders[u].account] = @ \ {u}] /\ active \in [Accounts -> SUBSET UID]
  BY DEF Cancel, AccountCancel, Inv, TypeOK, AccountsTypeOK
<1> QED
  BY <1>1, <1>3, <1>4, <1>5 DEF Cancel

\* handle(CancelRequest)
LEMMA CancelSteps ==
    ASSUME ClientInv, Inv, VenueInv, NEW c \in Connections, NEW u \in KnownUIDs, HandleCancel(c, u)
    PROVE  Good
<1>0. u \in Nat /\ NoUID \in Nat
  BY MaxOrdersAssumption DEF KnownUIDs, NoUID
<1>1. CASE ~(LoggedIn(c) /\ u \in DOMAIN orders /\ Owns(c, u))
  <2>1. Reject(c, CancelResponse(u, "Rejected"))
    BY <1>1 DEF HandleCancel
  <2> QED
    BY <2>1, <1>0, RejectSteps
<1>2. CASE LoggedIn(c) /\ u \in DOMAIN orders /\ Owns(c, u)
  <2> DEFINE msg == CancelResponse(u, "Accepted")
             k == Informed(c)
             h == Informed(c)'
  <2>0. ClientTypeOK /\ LoginOK(c) /\ ShownOK(c)
    BY DEF ClientInv
  <2>1. /\ request = NoRequest /\ request' = NoRequest /\ client' = client /\ session' = session
        /\ Cancel(u) /\ Send(c, msg) /\ orders[u].account = session[c]
    BY <1>2 DEF HandleCancel, CanHandle, Owns, server
  <2>2. /\ active'[session[c]] = active[session[c]] \ {u}
        /\ \A a \in Accounts : a # session[c] => active'[a] = active[a]
        /\ shares' = shares /\ capital' = capital
    BY <2>1, CancelOnly
  <2>3. msg \in Response
    BY <1>0, ResponseTypes
  <2>4. /\ ClientTypeOK'
        /\ \A d \in Connections : d # c \/ ~client[d].up => Informed(d)' = Informed(d)
        /\ client[c].up => Informed(c)' = HandleResponse(Informed(c), msg)
    BY <2>0, <2>1, <2>3, SendTells
  <2>5. \A d \in Connections : Unsaid(d) = {}
    BY <2>1 DEF Unsaid, NoRequest
  <2>6. ASSUME NEW d \in Connections, d # c PROVE Kept(d)
    <3>1. LoggedIn(d) => active'[session[d]] = active[session[d]]
      BY <1>2, <2>2, <2>6, SessionsApart, SessionAccount
    <3> QED
      BY <3>1, <2>1, <2>2, <2>4, <2>5, <2>6, BystanderKept
  <2>7. ASSUME client[c].up PROVE Kept(c)
    <3>1. k \in ClientState
      BY <2>0 DEF ClientTypeOK
    <3>2. Becomes(k, h, k.is_authorized, k.active_orders \ {u}, k.shares, k.capital)
      BY <3>1, <2>4, <2>7, CancelEffect
    <3>3. k.shares \in Int /\ k.capital \in Int
      BY <3>1 DEF ClientState
    <3>4. shares[session[c]] \in Int /\ capital[session[c]] \in Int
      BY <1>2, SessionAccount DEF Inv, TypeOK, AccountsTypeOK
    <3>5. (k.is_authorized <=> LoggedIn(c)) /\ k.active_orders \subseteq active[session[c]]
      BY <1>2, <2>0, <2>5, <2>7 DEF LoginOK, ShownOK, MayShow
    <3> HIDE DEF k, h
    <3>6. LoggedIn(c)'
      BY <1>2, <2>1 DEF LoggedIn
    <3>7. LoginOK(c)'
      BY <3>2, <3>5, <3>6, <1>2 DEF LoginOK, Becomes, h
    <3>8. ShownOK(c)'
      BY <3>2, <3>5, <3>6, <2>1, <2>2 DEF ShownOK, MayShow, Becomes, h
    <3>9. TrackStep(c)
      BY <3>2, <2>2 DEF TrackStep, Becomes, h, k
    <3>10. PositionStep(c)
      BY <3>2, <3>3, <3>4, <2>1, <2>2, NoDifference DEF PositionStep, Becomes, h, k
    <3> QED
      BY <3>7, <3>8, <3>9, <3>10 DEF Kept
  <2>8. \A d \in Connections : Kept(d)
    BY <2>1, <2>6, <2>7, GoneKept
  <2> QED
    BY <2>1, <2>4, <2>8, NoHandler DEF Good
<1> QED
  BY <1>1, <1>2

\* A client whose account trades x shares for -y, and that is told so.
LEMMA LearnerKept ==
    ASSUME ClientInv, Inv, VenueInv, NEW c \in Connections, LoggedIn(c), client[c].up,
           session'[c] = session[c], NEW ids, NEW x \in Int, NEW y \in Int,
           Becomes(Informed(c), Informed(c)', Informed(c).is_authorized, ids,
                   Informed(c).shares + x, Informed(c).capital + y),
           shares'[session[c]] = shares[session[c]] + x,
           capital'[session[c]] = capital[session[c]] + y,
           ids \subseteq active'[session[c]] \cup Unsaid(c)',
           \A u \in active'[session[c]] :
               u \in ids <=> (u \in active[session[c]] => u \in Informed(c).active_orders)
    PROVE  Kept(c)
<1> DEFINE k == Informed(c)
           h == Informed(c)'
<1>1. LoggedIn(c)' /\ session'[c] = session[c]
  BY DEF LoggedIn
<1>2. k.is_authorized <=> LoggedIn(c)
  BY DEF ClientInv, LoginOK
<1>3. k.shares \in Int /\ k.capital \in Int
  BY DEF ClientInv, ClientTypeOK, ClientState
<1>4. shares[session[c]] \in Int /\ capital[session[c]] \in Int
  BY SessionAccount DEF Inv, TypeOK, AccountsTypeOK
<1>5. /\ h.is_authorized <=> k.is_authorized
      /\ h.active_orders = ids /\ h.shares = k.shares + x /\ h.capital = k.capital + y
  BY DEF Becomes
<1> HIDE DEF k, h
<1>6. LoginOK(c)'
  BY <1>1, <1>2, <1>5 DEF LoginOK, h
<1>7. ShownOK(c)'
  BY <1>1, <1>5 DEF ShownOK, MayShow, h
<1>8. TrackStep(c)
  BY <1>5 DEF TrackStep, h
<1>9. /\ h.shares - k.shares = shares'[session[c]] - shares[session[c]]
      /\ h.capital - k.capital = capital'[session[c]] - capital[session[c]]
  <2>1. \A i, j, d \in Int : (i + d) - i = (j + d) - j
    OBVIOUS
  <2> QED
    BY <1>3, <1>4, <1>5, <2>1
<1>10. PositionStep(c)
  BY <1>1, <1>9 DEF PositionStep, h, k
<1> QED
  BY <1>6, <1>7, <1>8, <1>10 DEF Kept

\* A client that is told nothing while orders leave its account.
LEMMA DarkKept ==
    ASSUME ClientInv, Inv, VenueInv, NEW c \in Connections, LoggedIn(c), client[c].up,
           session'[c] = session[c], Informed(c)' = Informed(c),
           shares' = shares, capital' = capital,
           active'[session[c]] \subseteq active[session[c]],
           Informed(c).active_orders \subseteq active'[session[c]] \cup Unsaid(c)'
    PROVE  Kept(c)
<1> DEFINE k == Informed(c)
<1>1. k \in ClientState /\ k.shares \in Int /\ k.capital \in Int
  BY DEF ClientInv, ClientTypeOK, ClientState
<1>2. shares[session[c]] \in Int /\ capital[session[c]] \in Int
  BY SessionAccount DEF Inv, TypeOK, AccountsTypeOK
<1>3. 0 \in Int /\ \A i \in Int : i + 0 = i
  OBVIOUS
<1>4. Becomes(k, Informed(c)', k.is_authorized, k.active_orders, k.shares + 0, k.capital + 0)
  BY <1>1, <1>3 DEF Becomes
<1>5. /\ shares'[session[c]] = shares[session[c]] + 0
      /\ capital'[session[c]] = capital[session[c]] + 0
  BY <1>2, <1>3
<1>6. \A u \in active'[session[c]] :
          u \in k.active_orders <=> (u \in active[session[c]] => u \in k.active_orders)
  OBVIOUS
<1> QED
  BY <1>3, <1>4, <1>5, <1>6, LearnerKept

\* handle(ReplaceRequest)
LEMMA ReplaceSteps ==
    ASSUME ClientInv, Inv, VenueInv, NEW c \in Connections, NEW u \in KnownUIDs, NEW s, NEW q, NEW p,
           HandleReplace(c, u, s, q, p)
    PROVE  Good
<1>0. u \in Nat /\ NoUID \in Nat
  BY MaxOrdersAssumption DEF KnownUIDs, NoUID
<1>1. CASE ~LoggedIn(c) \/ (u \in DOMAIN orders /\ ~Owns(c, u))
  <2>1. Reject(c, ReplaceResponse(u, NoUID, "Rejected"))
    BY <1>1 DEF HandleReplace
  <2> QED
    BY <2>1, <1>0, RejectSteps
<1>2. CASE LoggedIn(c) /\ (u \in DOMAIN orders => Owns(c, u))
  <2> DEFINE w == IF u \in DOMAIN orders THEN u ELSE NoUID
  <2>0. ClientTypeOK /\ ShownOK(c) /\ session[c] \in Accounts
    BY <1>2, SessionAccount DEF ClientInv
  <2>1. /\ request = NoRequest /\ UNCHANGED <<responses, client>> /\ session' = session
        /\ request' = [kind |-> "replacing", connection |-> c, side |-> s, quantity |-> q,
                       price |-> p, canceled |-> w]
        /\ IF u \in DOMAIN orders THEN Cancel(u) /\ orders[u].account = session[c] ELSE UNCHANGED vars
    BY <1>2 DEF HandleReplace, CanHandle, Owns, server
  <2>2. /\ active'[session[c]] = active[session[c]] \ {w}
        /\ \A a \in Accounts : a # session[c] => active'[a] = active[a]
        /\ shares' = shares /\ capital' = capital
        /\ w \in Nat /\ w \notin DOMAIN orders' /\ w < sequence'
    <3>1. CASE u \in DOMAIN orders
      BY <3>1, <1>0, <2>1, CancelOnly
    <3>2. CASE u \notin DOMAIN orders
      <4>1. NoUID \notin UID /\ \A i \in UID : NoUID < i
        BY DEF UID, NoUID
      <4>2. DOMAIN orders \subseteq UID /\ sequence \in UID /\ active[session[c]] \subseteq UID
        BY <2>0 DEF Inv, TypeOK, BookTypeOK, AccountsTypeOK
      <4> QED
        BY <3>2, <1>0, <2>1, <4>1, <4>2 DEF vars, accounts
    <3> QED
      BY <3>1, <3>2
  <2> HIDE DEF w
  <2>3. HandlerOK'
    BY <2>1, <2>2 DEF HandlerOK
  <2>4. /\ ClientTypeOK'
        /\ \A d \in Connections : Informed(d)' = Informed(d) /\ client'[d].up = client[d].up
    BY <2>0, <2>1, Silence
  <2>5. \A d \in Connections : Unsaid(d) = {}
    BY <2>1 DEF Unsaid, NoRequest
  <2>6. ASSUME NEW d \in Connections, d # c PROVE Kept(d)
    <3>1. LoggedIn(d) => active'[session[d]] = active[session[d]]
      BY <1>2, <2>2, <2>6, SessionsApart, SessionAccount
    <3> QED
      BY <3>1, <2>1, <2>2, <2>4, <2>5, <2>6, BystanderKept
  <2>7. ASSUME client[c].up PROVE Kept(c)
    <3>1. Informed(c).active_orders \subseteq active[session[c]]
      BY <1>2, <2>0, <2>5, <2>7 DEF ShownOK, MayShow
    <3>2. w \in Unsaid(c)'
      BY <2>1, <2>2 DEF Unsaid
    <3> QED
      BY <3>1, <3>2, <1>2, <2>1, <2>2, <2>4, <2>7, DarkKept
  <2>8. \A d \in Connections : Kept(d)
    BY <2>1, <2>6, <2>7, GoneKept
  <2> QED
    BY <2>3, <2>4, <2>8 DEF Good
<1> QED
  BY <1>1, <1>2

\* handle(ReplaceRequest), once the old order is gone
LEMMA ReplacementSteps ==
    ASSUME ClientInv, Inv, VenueInv, PlaceReplacement
    PROVE  Good
<1>0. ClientTypeOK /\ HandlerOK
  BY DEF ClientInv
<1>1. /\ request.kind = "replacing"
      /\ request' = [kind |-> "replace", connection |-> request.connection,
                     canceled |-> request.canceled]
      /\ UNCHANGED <<responses, client>> /\ session' = session
  BY DEF PlaceReplacement, Call, server
<1>2. taker'.account = session[request.connection] /\ UNCHANGED <<orders, sequence, accounts>>
  BY DEF PlaceReplacement, LimitOrder
<1>3. HandlerOK'
  BY <1>0, <1>1, <1>2 DEF HandlerOK
<1>4. /\ ClientTypeOK'
      /\ \A d \in Connections : Informed(d)' = Informed(d) /\ client'[d].up = client[d].up
  BY <1>0, <1>1, Silence
<1>5. \A d \in Connections : Unsaid(d) \subseteq Unsaid(d)'
  BY <1>1 DEF Unsaid
<1>6. \A d \in Connections : Kept(d)
  BY <1>1, <1>2, <1>4, <1>5, BystanderKept DEF accounts
<1> QED
  BY <1>3, <1>4, <1>6 DEF Good

\* handle(PurgeRequest)
LEMMA PurgeSteps ==
    ASSUME ClientInv, Inv, VenueInv, NEW c \in Connections, HandlePurge(c)
    PROVE  Good
<1>1. CASE ~LoggedIn(c)
  <2>1. Reject(c, PurgeResponse("Rejected")) /\ NoUID \in Nat
    BY <1>1 DEF HandlePurge, NoUID
  <2> QED
    BY <2>1, RejectSteps
<1>2. CASE LoggedIn(c)
  <2>0. ClientTypeOK
    BY DEF ClientInv
  <2>1. /\ request = NoRequest /\ request' = [kind |-> "purge", connection |-> c, canceled |-> NoUID]
        /\ UNCHANGED <<responses, client>> /\ session' = session /\ UNCHANGED vars
    BY <1>2 DEF HandlePurge, CanHandle, Call, server
  <2>2. HandlerOK'
    BY <2>1 DEF HandlerOK
  <2>3. /\ ClientTypeOK'
        /\ \A d \in Connections : Informed(d)' = Informed(d) /\ client'[d].up = client[d].up
    BY <2>0, <2>1, Silence
  <2>4. \A d \in Connections : Kept(d)
    BY <2>1, <2>3, SameBookKept
  <2> QED
    BY <2>2, <2>3, <2>4 DEF Good
<1> QED
  BY <1>1, <1>2

\* One order of a purge
LEMMA PurgeOneSteps ==
    ASSUME ClientInv, Inv, VenueInv, PurgeOne
    PROVE  Good
<1>0. ClientTypeOK
  BY DEF ClientInv
<1>1. /\ request.kind = "purge" /\ request' = request
      /\ UNCHANGED <<responses, client>> /\ session' = session
  BY DEF PurgeOne, server
<1>2. PICK c \in Connections : c = request.connection /\ session[c] \in Accounts /\ LoggedIn(c)
  BY <1>1, AtWork DEF NoRequest, Stopped, VenueInv, RequestOK
<1>3. PICK u \in active[session[c]] : Cancel(u)
  BY <1>2 DEF PurgeOne
<1>4. orders[u].account = session[c]
  BY <1>2, <1>3 DEF Inv, AccountsHoldOrders
<1>5. /\ active'[session[c]] = active[session[c]] \ {u}
      /\ \A a \in Accounts : a # session[c] => active'[a] = active[a]
      /\ shares' = shares /\ capital' = capital
  BY <1>3, <1>4, CancelOnly
<1>6. HandlerOK'
  BY <1>1 DEF HandlerOK
<1>7. /\ ClientTypeOK'
      /\ \A d \in Connections : Informed(d)' = Informed(d) /\ client'[d].up = client[d].up
  BY <1>0, <1>1, Silence
<1>8. \A d \in Connections : Unsaid(d) = Unsaid(d)'
  BY <1>1 DEF Unsaid
<1>9. ASSUME NEW d \in Connections, d # c PROVE Kept(d)
  <2>1. LoggedIn(d) => active'[session[d]] = active[session[d]]
    BY <1>2, <1>5, <1>9, SessionsApart, SessionAccount
  <2> QED
    BY <2>1, <1>1, <1>5, <1>7, <1>8, <1>9, BystanderKept
<1>10. ASSUME client[c].up PROVE Kept(c)
  <2>1. Informed(c).active_orders \subseteq Nat
    BY <1>0, <1>2 DEF ClientTypeOK, ClientState
  <2>2. Unsaid(c)' = Nat
    BY <1>1, <1>2 DEF Unsaid
  <2> QED
    BY <2>1, <2>2, <1>1, <1>2, <1>5, <1>7, <1>10, DarkKept
<1>11. \A d \in Connections : Kept(d)
  BY <1>1, <1>9, <1>10, GoneKept
<1> QED
  BY <1>6, <1>7, <1>11 DEF Good

\* What a response of the handler that ends tells its client, and leaves the others.
LEMMA AnswerSteps ==
    ASSUME ClientInv, Inv, VenueInv, NEW c \in Connections, LoggedIn(c),
           NEW msg \in Response, Send(c, msg), UNCHANGED <<client, session>>,
           c = request.connection, request' = NoRequest, shares' = shares, capital' = capital,
           \A a \in Accounts : a # session[c] => active'[a] = active[a],
           NEW ids,
           Becomes(Informed(c), HandleResponse(Informed(c), msg), Informed(c).is_authorized, ids,
                   Informed(c).shares, Informed(c).capital),
           client[c].up => ids \subseteq active'[session[c]],
           client[c].up => \A u \in active'[session[c]] :
               u \in ids <=> (u \in active[session[c]] => u \in Informed(c).active_orders)
    PROVE  Good
<1>0. ClientTypeOK
  BY DEF ClientInv
<1>1. /\ ClientTypeOK'
      /\ \A d \in Connections : d # c \/ ~client[d].up => Informed(d)' = Informed(d)
      /\ client[c].up => Informed(c)' = HandleResponse(Informed(c), msg)
  BY <1>0, SendTells
<1>2. ASSUME NEW d \in Connections, d # c PROVE Kept(d)
  <2>1. LoggedIn(d) => active'[session[d]] = active[session[d]]
    BY <1>2, SessionsApart, SessionAccount
  <2>2. Unsaid(d) = {}
    BY <1>2 DEF Unsaid
  <2> QED
    BY <2>1, <2>2, <1>1, <1>2, BystanderKept
<1>3. ASSUME client[c].up PROVE Kept(c)
  <2> DEFINE k == Informed(c)
  <2>1. k.shares \in Int /\ k.capital \in Int
    BY <1>0 DEF ClientTypeOK, ClientState
  <2>2. shares[session[c]] \in Int /\ capital[session[c]] \in Int
    BY SessionAccount DEF Inv, TypeOK, AccountsTypeOK
  <2>3. 0 \in Int /\ \A i \in Int : i + 0 = i
    OBVIOUS
  <2>4. Becomes(k, Informed(c)', k.is_authorized, ids, k.shares + 0, k.capital + 0)
    BY <1>1, <1>3, <2>1, <2>3 DEF Becomes
  <2>5. /\ shares'[session[c]] = shares[session[c]] + 0
        /\ capital'[session[c]] = capital[session[c]] + 0
    BY <2>2, <2>3
  <2> QED
    BY <1>3, <2>3, <2>4, <2>5, LearnerKept
<1>4. \A d \in Connections : Kept(d)
  BY <1>2, <1>3, GoneKept
<1> QED
  BY <1>1, <1>4, NoHandler DEF Good

\* The end of a purge
LEMMA RespondPurgeSteps ==
    ASSUME ClientInv, Inv, VenueInv, RespondPurge
    PROVE  Good
<1> DEFINE msg == PurgeResponse("Accepted")
<1>1. /\ request.kind = "purge" /\ request' = NoRequest
      /\ UNCHANGED <<client, session>> /\ shares' = shares /\ capital' = capital /\ active' = active
  BY DEF RespondPurge, vars, accounts, server
<1>2. PICK c \in Connections : c = request.connection /\ session[c] \in Accounts /\ LoggedIn(c)
  BY <1>1, AtWork DEF NoRequest, Stopped, VenueInv, RequestOK
<1>3. active[session[c]] = {} /\ Send(c, msg)
  BY <1>2 DEF RespondPurge, Purged
<1>4. msg \in Response
  BY ResponseTypes
<1>5. Informed(c) \in ClientState
  BY <1>2 DEF ClientInv, ClientTypeOK
<1>6. Becomes(Informed(c), HandleResponse(Informed(c), msg), Informed(c).is_authorized, {},
              Informed(c).shares, Informed(c).capital)
  BY <1>5, PurgeEffect
<1> QED
  BY <1>1, <1>2, <1>3, <1>4, <1>6, AnswerSteps

\* A call of the book that returns order ID v, or none, has put that order, and nothing
\* else, in the book.
LEMMA ReturnOnly ==
    ASSUME Inv, NEW v,
           \/ v = NoUID /\ (ReturnFilled \/ ReturnUnfilled)
           \/ v = sequence /\ ReturnResting
    PROVE  /\ v \in Nat /\ shares' = shares /\ capital' = capital
           /\ taker.account \in Accounts
           /\ \A a \in Accounts :
                 active'[a] = active[a] \cup (IF a = taker.account THEN {v} \ {NoUID} ELSE {})
           /\ \A a \in Accounts : v \notin active[a]
<1>1. /\ sequence \in Nat /\ sequence # NoUID /\ sequence \notin DOMAIN orders
      /\ NoUID \in Nat /\ NoUID \notin DOMAIN orders
  BY DEF Inv, TypeOK, BookTypeOK, IDsHandedOut, UID, NoUID
<1>2. \A a \in Accounts : v \notin active[a]
  BY <1>1 DEF Inv, AccountsHoldOrders
<1>3. taker.account \in Accounts
  <2>1. taker # NoTaker
    BY DEF ReturnFilled, ReturnUnfilled, ReturnResting, NoTaker, Idle
  <2> QED
    BY <2>1 DEF Inv, TypeOK, Taker
<1>4. CASE v = NoUID /\ (ReturnFilled \/ ReturnUnfilled)
  BY <1>1, <1>2, <1>3, <1>4 DEF ReturnFilled, ReturnUnfilled, accounts
<1>5. CASE v = sequence /\ ReturnResting
  <2>1. active' = [active EXCEPT ![taker.account] = @ \cup {sequence}]
    BY <1>5 DEF ReturnResting, TreeLimit, AccountLimit
  <2>2. shares' = shares /\ capital' = capital
    BY <1>5 DEF ReturnResting
  <2>3. \A a \in Accounts :
            active'[a] = active[a] \cup (IF a = taker.account THEN {v} \ {NoUID} ELSE {})
    BY <1>1, <1>5, <2>1 DEF Inv, TypeOK, AccountsTypeOK
  <2> QED
    BY <1>1, <1>2, <1>3, <1>5, <2>2, <2>3
<1> QED
  BY <1>4, <1>5

\* The response to an order or to a replace request
LEMMA RespondSteps ==
    ASSUME ClientInv, Inv, VenueInv, Respond
    PROVE  Good
<1>1. ~Idle
  BY DEF Respond, ReturnFilled, ReturnUnfilled, ReturnResting, Idle
<1>2. request.kind \in {"order", "replace"}
  BY <1>1 DEF VenueInv, RequestOK
<1>3. PICK c \in Connections : c = request.connection /\ session[c] \in Accounts /\ LoggedIn(c)
  BY <1>2, AtWork DEF NoRequest, Stopped, VenueInv, RequestOK
<1>4. PICK v : /\ \/ v = NoUID /\ (ReturnFilled \/ ReturnUnfilled)
                  \/ v = sequence /\ ReturnResting
               /\ Send(c, Accepted(v))
  BY <1>3 DEF Respond
<1>5. /\ request' = NoRequest /\ UNCHANGED <<client, session>>
  BY DEF Respond, server
<1>6. taker.account = session[c]
  BY <1>2, <1>3 DEF ClientInv, HandlerOK
<1>7. /\ v \in Nat /\ shares' = shares /\ capital' = capital
      /\ active'[session[c]] = active[session[c]] \cup ({v} \ {NoUID})
      /\ v \notin active[session[c]]
      /\ \A a \in Accounts : a # session[c] => active'[a] = active[a]
  <2>1. /\ v \in Nat /\ shares' = shares /\ capital' = capital
        /\ \A a \in Accounts :
              active'[a] = active[a] \cup (IF a = taker.account THEN {v} \ {NoUID} ELSE {})
        /\ \A a \in Accounts : v \notin active[a]
    BY <1>4, ReturnOnly, Zenon
  <2>2. \A a \in Accounts : a # session[c] => active'[a] = active[a]
    BY <2>1, <1>6
  <2> QED
    BY <2>1, <2>2, <1>3, <1>6
<1> DEFINE k == Informed(c)
<1>8. k \in ClientState
  BY <1>3 DEF ClientInv, ClientTypeOK
<1>9. client[c].up => k.active_orders \subseteq active[session[c]] \cup Unsaid(c)
  BY <1>3 DEF ClientInv, ShownOK, MayShow
<1>10. CASE request.kind = "order"
  <2> DEFINE ids == k.active_orders \cup ({v} \ {NoUID})
             msg == OrderResponse(v, "Accepted")
  <2>1. Send(c, msg) /\ msg \in Response
    BY <1>4, <1>7, <1>10, ResponseTypes DEF Accepted
  <2>2. Becomes(k, HandleResponse(k, msg), k.is_authorized, ids, k.shares, k.capital)
    BY <1>7, <1>8, OrderEffect
  <2>3. Unsaid(c) = {}
    BY <1>10 DEF Unsaid
  <2>4. client[c].up => ids \subseteq active'[session[c]]
    BY <1>7, <1>9, <2>3
  <2>5. \A u \in active'[session[c]] :
            u \in ids <=> (u \in active[session[c]] => u \in k.active_orders)
    BY <1>7
  <2> HIDE DEF ids, msg
  <2> QED
    BY <1>3, <1>5, <1>7, <2>1, <2>2, <2>4, <2>5, AnswerSteps
<1>11. CASE request.kind = "replace"
  <2> DEFINE w == request.canceled
  <2>1. w \in Nat /\ w \notin active[session[c]]
    <3>1. request \in Request
      BY <1>11 DEF VenueInv, RequestOK, ReplaceRequest, NoRequest, Stopped
    <3>2. w \notin DOMAIN orders
      BY <1>11 DEF ClientInv, HandlerOK
    <3> QED
      BY <1>3, <3>1, <3>2 DEF Request, Inv, AccountsHoldOrders
  <2>2. Unsaid(c) = {w}
    BY <1>3, <1>11, <2>1 DEF Unsaid
  <2> PICK x \in Nat : x = w
    BY <2>1
  <2>3. Send(c, ReplaceResponse(x, v, "Accepted")) /\ ReplaceResponse(x, v, "Accepted") \in Response
    BY <1>4, <1>7, <1>11, ResponseTypes DEF Accepted
  <2>4. Becomes(k, HandleResponse(k, ReplaceResponse(x, v, "Accepted")), k.is_authorized,
                (k.active_orders \ {x}) \cup ({v} \ {NoUID}), k.shares, k.capital)
    BY <1>7, <1>8, ReplaceEffect
  <2>5. client[c].up => (k.active_orders \ {x}) \cup ({v} \ {NoUID}) \subseteq active'[session[c]]
    BY <1>7, <1>9, <2>2
  <2>6. \A u \in active'[session[c]] :
            u \in (k.active_orders \ {x}) \cup ({v} \ {NoUID})
                <=> (u \in active[session[c]] => u \in k.active_orders)
    BY <1>7, <2>1
  <2> QED
    BY <1>3, <1>5, <1>7, <2>3, <2>4, <2>5, <2>6, AnswerSteps
<1> QED
  BY <1>2, <1>10, <1>11

\* A trade of n shares of resting order u: what it does to the accounts.
LEMMA TradeOnly ==
    ASSUME Inv, NEW u, u = Match, NEW n,
           (MatchPartly /\ n = taker.quantity) \/ (MatchWhole /\ n = orders[u].quantity)
    PROVE  /\ taker \in Taker /\ u \in UID /\ orders[u] \in Order
           /\ n \in Nat /\ Traded(u, n)
           /\ taker'.account = taker.account /\ sequence' = sequence
           /\ DOMAIN orders' \subseteq DOMAIN orders
           /\ \A a \in Accounts :
                 active'[a] = active[a] \ (IF a = orders[u].account /\ orders[u].quantity - n = 0
                                           THEN {u} ELSE {})
<1>1. /\ taker.phase = "market" /\ CanContinue
      /\ taker' = TakerAfter(n) /\ sequence' = sequence
      /\ (n = taker.quantity /\ FillsPartly(u)) \/ (n = orders[u].quantity /\ FillsWhole(u))
  BY DEF MatchPartly, MatchWhole, FillsPartly, FillsWhole
<1>2. taker \in Taker /\ u \in DOMAIN orders
  BY <1>1, InvCore, MatchProperties
<1>3. u \in UID /\ orders[u] \in Order
  BY <1>2 DEF Inv, TypeOK, BookTypeOK
<1>4. n \in Nat /\ taker.quantity \in Nat /\ orders[u].quantity \in Nat /\ orders[u].account \in Accounts
  BY <1>2, <1>3 DEF Taker, Order
<1>5. taker'.account = taker.account /\ Traded(u, n)
  <2>1. AccountsTypeOK
    BY DEF Inv, TypeOK
  <2>2. Traded(u, n)
    BY <2>1, <1>1, <1>2, <1>3, FillsTrade
  <2> QED
    BY <2>2, <1>1, <1>2 DEF TakerAfter, Taker
<1>6. active \in [Accounts -> SUBSET UID]
  BY DEF Inv, TypeOK, AccountsTypeOK
<1>7. CASE MatchPartly /\ n = taker.quantity
  <2>1. ~Exhausts(u) /\ active' = active /\ orders' = [orders EXCEPT ![u].quantity = @ - n]
    BY <1>7 DEF MatchPartly
  <2>2. orders[u].quantity - n # 0
    BY <1>4, <1>7, <2>1 DEF Exhausts
  <2>3. DOMAIN orders' = DOMAIN orders
    BY <2>1
  <2> QED
    BY <1>1, <1>2, <1>3, <1>4, <1>5, <2>1, <2>2, <2>3
<1>8. CASE MatchWhole /\ n = orders[u].quantity
  <2>1. AccountCancel(u) /\ TreeRemove(u)
    BY <1>8 DEF MatchWhole
  <2>2. active' = [active EXCEPT ![orders[u].account] = @ \ {u}]
    BY <2>1 DEF AccountCancel
  <2>3. orders' = Restrict(orders, DOMAIN orders \ {u})
    BY <2>1 DEF TreeRemove
  <2>4. DOMAIN orders' \subseteq DOMAIN orders
    BY <2>3 DEF Restrict
  <2>5. orders[u].quantity - n = 0
    BY <1>4, <1>8
  <2> QED
    BY <1>1, <1>2, <1>3, <1>4, <1>5, <1>6, <2>2, <2>4, <2>5
<1> QED
  BY <1>7, <1>8

\* A client, of account b, that is told of a trade if its account is a.
LEMMA TradeMaybe ==
    ASSUME NEW k \in ClientState, NEW b, NEW a, NEW u, NEW p \in Int, NEW n \in Int, NEW l, NEW s
    PROVE  Becomes(k, IF b = a THEN HandleResponse(k, TradeResponse(u, p, n, l, s)) ELSE k,
                   k.is_authorized,
                   IF b = a /\ l = 0 THEN k.active_orders \ {u} ELSE k.active_orders,
                   k.shares + (IF b = a THEN Signed(s, n) ELSE 0),
                   k.capital + (IF b = a THEN -(Signed(s, n) * p) ELSE 0))
<1>1. k.shares \in Int /\ k.capital \in Int
  BY DEF ClientState
<1>2. CASE b = a
  <2>1. Becomes(k, HandleResponse(k, TradeResponse(u, p, n, l, s)), k.is_authorized,
                IF l = 0 THEN k.active_orders \ {u} ELSE k.active_orders,
                k.shares + Signed(s, n), k.capital - Signed(s, n) * p)
    BY <1>2, TradeEffect
  <2>2. Signed(s, n) \in Int
    BY DEF Signed
  <2>3. \A i \in Int : k.capital - i = k.capital + (-i)
    BY <1>1
  <2>4. Signed(s, n) * p \in Int
    BY <2>2
  <2>5. k.capital - Signed(s, n) * p = k.capital + (-(Signed(s, n) * p))
    BY <2>3, <2>4
  <2> QED
    BY <1>2, <2>1, <2>5
<1>3. CASE b # a
  <2>1. \A i \in Int : i + 0 = i
    OBVIOUS
  <2> QED
    BY <1>1, <1>3, <2>1 DEF Becomes
<1> QED
  BY <1>2, <1>3

\* What is paid for what is bought and sold at one price.
LEMMA Paid ==
    ASSUME NEW p \in Int, NEW i \in Int, NEW j \in Int
    PROVE  -(p * (i + j)) = (-(i * p)) + (-(j * p))
<1>1. p * (i + j) = i * p + j * p
  BY SMT
<1>2. i * p \in Int /\ j * p \in Int
  BY SMT
<1> QED
  BY <1>1, <1>2

\* Who is told of a trade: the clients, if any, whose sessions the two accounts have.
LEMMA ReportTells ==
    ASSUME ClientTypeOK, VenueInv, taker.account \in Accounts, NEW u, orders[u].account \in Accounts,
           NEW n, Report(u, n), client' = client,
           NEW taken \in Response, NEW made \in Response,
           taken = TradeResponse(NoUID, orders[u].price, n, taker.quantity - n, taker.side),
           made = TradeResponse(u, orders[u].price, n, orders[u].quantity - n, orders[u].side)
    PROVE  /\ ClientTypeOK'
           /\ \A d \in Connections :
                 ~client[d].up => Informed(d)' = Informed(d)
           /\ \A d \in Connections : client[d].up =>
                 \E k \in ClientState :
                    /\ k = IF session[d] = taker.account
                           THEN HandleResponse(Informed(d), taken) ELSE Informed(d)
                    /\ Informed(d)' = IF session[d] = orders[u].account
                                      THEN HandleResponse(k, made) ELSE k
<1> DEFINE R(d) == responses[d]
           F(d) == IF session[d] = taker.account /\ client[d].up THEN R(d) \o <<taken>> ELSE R(d)
           G(d) == IF session[d] = orders[u].account /\ client[d].up THEN F(d) \o <<made>> ELSE F(d)
<1>1. \A d \in Connections : /\ d = handler[taker.account] <=> session[d] = taker.account
                             /\ d = handler[orders[u].account] <=> session[d] = orders[u].account
  BY DEF VenueInv, OneSession
<1>2. responses' = [d \in Connections |-> G(d)]
  BY <1>1 DEF Report, Queued
<1>3. ASSUME NEW d \in Connections
      PROVE  /\ responses'[d] = G(d) /\ client'[d] = client[d] /\ responses[d] \in Seq(Response)
             /\ Informed(d) \in ClientState
             /\ ~client[d].up => responses[d] = << >>
  BY <1>2 DEF ClientTypeOK
<1>4. ASSUME NEW d \in Connections, ~client[d].up
      PROVE  Informed(d)' = Informed(d) /\ responses'[d] = responses[d]
  BY <1>3, <1>4, ToldNothing
<1>5. ASSUME NEW d \in Connections, client[d].up
      PROVE  /\ responses'[d] \in Seq(Response) /\ Informed(d)' \in ClientState
             /\ \E k \in ClientState :
                    /\ k = IF session[d] = taker.account
                           THEN HandleResponse(Informed(d), taken) ELSE Informed(d)
                    /\ Informed(d)' = IF session[d] = orders[u].account
                                      THEN HandleResponse(k, made) ELSE k
  <2> DEFINE k == IF session[d] = taker.account
                  THEN HandleResponse(Informed(d), taken) ELSE Informed(d)
  <2>1. k \in ClientState
    BY <1>3, EffectTypes
  <2>2. /\ Informed(d)' = IF session[d] = orders[u].account THEN HandleResponse(k, made) ELSE k
        /\ responses'[d] \in Seq(Response)
    <3>1. CASE session[d] = taker.account /\ session[d] = orders[u].account
      BY <1>3, <1>5, <3>1, ToldTwo
    <3>2. CASE session[d] = taker.account /\ session[d] # orders[u].account
      BY <1>3, <1>5, <3>2, ToldOne
    <3>3. CASE session[d] # taker.account /\ session[d] = orders[u].account
      BY <1>3, <1>5, <3>3, ToldOne
    <3>4. CASE session[d] # taker.account /\ session[d] # orders[u].account
      BY <1>3, <1>5, <3>4, ToldNothing
    <3> QED
      BY <3>1, <3>2, <3>3, <3>4
  <2>3. Informed(d)' \in ClientState
    BY <2>1, <2>2, EffectTypes
  <2> HIDE DEF k
  <2>4. \E x \in ClientState : x = k
    BY <2>1
  <2> QED
    BY <2>2, <2>3, <2>4 DEF k
<1>6. \A d \in Connections : responses'[d] \in Seq(Response) /\ Informed(d)' \in ClientState
  BY <1>3, <1>4, <1>5
<1>7. responses' \in [Connections -> Seq(Response)]
  BY <1>2, <1>6
<1>8. ClientTypeOK'
  BY <1>3, <1>4, <1>6, <1>7 DEF ClientTypeOK
<1> QED
  BY <1>4, <1>5, <1>8

\* An iteration of the match loop
LEMMA ExecuteSteps ==
    ASSUME ClientInv, Inv, VenueInv, Execute
    PROVE  Good
<1>0. ClientTypeOK /\ HandlerOK
  BY DEF ClientInv
<1>1. client' = client /\ session' = session /\ request' = request
  BY DEF Execute, server
<1>2. PICK u, n : /\ u = Match /\ Report(u, n)
                  /\ \/ MatchPartly /\ n = taker.quantity
                     \/ MatchWhole /\ n = orders[u].quantity
  BY DEF Execute
<1>3. /\ taker \in Taker /\ u \in UID /\ orders[u] \in Order
      /\ n \in Nat /\ Traded(u, n)
      /\ taker'.account = taker.account /\ sequence' = sequence
      /\ DOMAIN orders' \subseteq DOMAIN orders
      /\ \A a \in Accounts :
            active'[a] = active[a] \ (IF a = orders[u].account /\ orders[u].quantity - n = 0
                                      THEN {u} ELSE {})
  BY <1>2, TradeOnly
<1>a. /\ orders[u].price \in Int /\ taker.quantity - n \in Int /\ orders[u].quantity - n \in Int
      /\ taker.side \in Side /\ orders[u].side \in Side
      /\ taker.account \in Accounts /\ orders[u].account \in Accounts
  <2>1. taker \in Taker
    BY <1>3
  <2>2. orders[u] \in Order
    BY <1>3
  <2>3. n \in Nat
    BY <1>3
  <2>4. taker.quantity \in Nat /\ taker.side \in Side /\ taker.account \in Accounts
    BY <2>1 DEF Taker
  <2>5. /\ orders[u].price \in Prices /\ orders[u].quantity \in Nat
        /\ orders[u].side \in Side /\ orders[u].account \in Accounts
    BY <2>2 DEF Order
  <2>6. orders[u].price \in Int
    <3>1. \A x \in Prices : x \in Int
      BY PricesAssumption
    <3> QED
      BY <2>5, <3>1
  <2>7. \A i, j \in Nat : i - j \in Int
    OBVIOUS
  <2>8. taker.quantity - n \in Int /\ orders[u].quantity - n \in Int
    BY <2>3, <2>4, <2>5, <2>7
  <2> QED
    BY <2>4, <2>5, <2>6, <2>8
<1>b. PICK p \in Int, l1 \in Int, l2 \in Int :
          p = orders[u].price /\ l1 = taker.quantity - n /\ l2 = orders[u].quantity - n
  BY <1>a, Zenon
<1>c. PICK s1 \in Side, s2 \in Side, t \in Accounts, a \in Accounts :
          /\ s1 = taker.side /\ s2 = orders[u].side
          /\ t = taker.account /\ a = orders[u].account
  BY <1>a, Zenon
<1>4. /\ p = orders[u].price /\ l1 = taker.quantity - n /\ l2 = orders[u].quantity - n
      /\ s1 = taker.side /\ s2 = orders[u].side
      /\ t = taker.account /\ a = orders[u].account
  BY <1>b, <1>c
<1>d. n \in Int
  <2>1. n \in Nat
    BY <1>3
  <2> QED
    BY <2>1
<1> DEFINE taken == TradeResponse(NoUID, p, n, l1, s1)
           made == TradeResponse(u, p, n, l2, s2)
<1>5. taken \in Response /\ made \in Response
  BY <1>3, ResponseTypes DEF UID, NoUID
<1>6. /\ ClientTypeOK'
      /\ \A d \in Connections : ~client[d].up => Informed(d)' = Informed(d)
      /\ \A d \in Connections : client[d].up =>
            \E k \in ClientState :
               /\ k = IF session[d] = t THEN HandleResponse(Informed(d), taken) ELSE Informed(d)
               /\ Informed(d)' = IF session[d] = a THEN HandleResponse(k, made) ELSE k
  BY <1>0, <1>1, <1>2, <1>4, <1>5, ReportTells
<1>7. HandlerOK'
  BY <1>0, <1>1, <1>3 DEF HandlerOK
<1>8. \A d \in Connections : Unsaid(d)' = Unsaid(d)
  BY <1>1 DEF Unsaid
<1> DEFINE X(b) == IF b = t THEN Signed(s1, n) ELSE 0
           Y(b) == IF b = a THEN Signed(s2, n) ELSE 0
<1>9. Signed(s1, n) \in Int /\ Signed(s2, n) \in Int
  BY <1>3 DEF Signed
<1>10. ASSUME NEW b \in Accounts
       PROVE  /\ X(b) \in Int /\ Y(b) \in Int /\ shares[b] \in Int /\ capital[b] \in Int
              /\ shares'[b] = shares[b] + (X(b) + Y(b))
              /\ capital'[b] = capital[b] + ((-(X(b) * p)) + (-(Y(b) * p)))
  <2>1. X(b) \in Int /\ Y(b) \in Int /\ shares[b] \in Int /\ capital[b] \in Int
    BY <1>9 DEF Inv, TypeOK, AccountsTypeOK
  <2>2. shares'[b] = shares[b] + (X(b) + Y(b)) /\ capital'[b] = capital[b] - p * (X(b) + Y(b))
    BY <1>3, <1>4 DEF Traded, Delta
  <2> HIDE DEF X, Y
  <2>3. p * (X(b) + Y(b)) \in Int
    BY <2>1
  <2>4. \A i, j \in Int : i - j = i + (-j)
    OBVIOUS
  <2>5. -(p * (X(b) + Y(b))) = (-(X(b) * p)) + (-(Y(b) * p))
    BY <2>1, Paid
  <2> QED
    BY <2>1, <2>2, <2>3, <2>4, <2>5
<1>11. ASSUME NEW d \in Connections, client[d].up, LoggedIn(d)
       PROVE  Kept(d)
  <2> DEFINE b == session[d]
             k == Informed(d)
  <2>1. b \in Accounts /\ k \in ClientState /\ k.active_orders \subseteq active[b] \cup Unsaid(d)
    BY <1>0, <1>11, SessionAccount DEF ClientTypeOK, ClientInv, ShownOK, MayShow
  <2>2. PICK m \in ClientState :
               /\ m = IF b = t THEN HandleResponse(k, taken) ELSE k
               /\ Informed(d)' = IF b = a THEN HandleResponse(m, made) ELSE m
    BY <1>6, <1>11
  <2>3. Becomes(k, m, k.is_authorized,
                IF b = t /\ l1 = 0 THEN k.active_orders \ {NoUID} ELSE k.active_orders,
                k.shares + (IF b = t THEN Signed(s1, n) ELSE 0),
                k.capital + (IF b = t THEN -(Signed(s1, n) * p) ELSE 0))
    <3>1. Becomes(k, IF b = t THEN HandleResponse(k, TradeResponse(NoUID, p, n, l1, s1)) ELSE k,
                  k.is_authorized,
                  IF b = t /\ l1 = 0 THEN k.active_orders \ {NoUID} ELSE k.active_orders,
                  k.shares + (IF b = t THEN Signed(s1, n) ELSE 0),
                  k.capital + (IF b = t THEN -(Signed(s1, n) * p) ELSE 0))
      BY <2>1, <1>d, TradeMaybe
    <3> QED
      BY <2>2, <3>1
  <2>4. Becomes(m, Informed(d)', m.is_authorized,
                IF b = a /\ l2 = 0 THEN m.active_orders \ {u} ELSE m.active_orders,
                m.shares + (IF b = a THEN Signed(s2, n) ELSE 0),
                m.capital + (IF b = a THEN -(Signed(s2, n) * p) ELSE 0))
    <3>1. Becomes(m, IF b = a THEN HandleResponse(m, TradeResponse(u, p, n, l2, s2)) ELSE m,
                  m.is_authorized,
                  IF b = a /\ l2 = 0 THEN m.active_orders \ {u} ELSE m.active_orders,
                  m.shares + (IF b = a THEN Signed(s2, n) ELSE 0),
                  m.capital + (IF b = a THEN -(Signed(s2, n) * p) ELSE 0))
      BY <1>d, TradeMaybe
    <3> QED
      BY <2>2, <3>1
  <2> DEFINE ids == IF b = a /\ l2 = 0 THEN m.active_orders \ {u} ELSE m.active_orders
  <2>5. /\ (IF b = t THEN -(Signed(s1, n) * p) ELSE 0) = -(X(b) * p)
        /\ (IF b = a THEN -(Signed(s2, n) * p) ELSE 0) = -(Y(b) * p)
    OBVIOUS
  <2>6. k.shares \in Int /\ k.capital \in Int
    BY <2>1 DEF ClientState
  <2>7. -(X(b) * p) \in Int /\ -(Y(b) * p) \in Int /\ X(b) \in Int /\ Y(b) \in Int
    BY <1>9
  <2>8. Becomes(k, Informed(d)', k.is_authorized, ids, k.shares + (X(b) + Y(b)),
                k.capital + ((-(X(b) * p)) + (-(Y(b) * p))))
    <3>1. \A i, j, h \in Int : (i + j) + h = i + (j + h)
      OBVIOUS
    <3> QED
      BY <2>3, <2>4, <2>5, <2>6, <2>7, <3>1 DEF Becomes
  <2>9. m.active_orders = IF b = t /\ l1 = 0 THEN k.active_orders \ {NoUID} ELSE k.active_orders
    BY <2>3 DEF Becomes
  <2>10. active'[b] = active[b] \ (IF b = a /\ l2 = 0 THEN {u} ELSE {})
    BY <1>3, <1>4, <2>1
  <2>11. ids \subseteq active'[b] \cup Unsaid(d)'
    BY <2>1, <2>9, <2>10, <1>8
  <2>12. NoUID \notin active[b]
    BY <2>1 DEF Inv, TypeOK, AccountsTypeOK, UID, NoUID
  <2>13. \A v \in active'[b] : v \in ids <=> (v \in active[b] => v \in k.active_orders)
    BY <2>9, <2>10, <2>12
  <2>14. /\ shares'[b] = shares[b] + (X(b) + Y(b)) /\ X(b) + Y(b) \in Int
         /\ capital'[b] = capital[b] + ((-(X(b) * p)) + (-(Y(b) * p)))
         /\ (-(X(b) * p)) + (-(Y(b) * p)) \in Int
    BY <1>10, <2>1, <2>7
  <2> HIDE DEF X, Y, ids
  <2> QED
    BY <1>1, <1>11, <2>8, <2>11, <2>13, <2>14, LearnerKept
<1>12. ASSUME NEW d \in Connections, client[d].up, ~LoggedIn(d)
       PROVE  Kept(d)
  <2>1. session[d] = Null /\ Null # t /\ Null # a
    BY <1>12, NullAssumption DEF LoggedIn
  <2>2. Informed(d)' = Informed(d)
    BY <1>6, <1>12, <2>1
  <2> QED
    BY <1>1, <1>12, <2>2, BystanderKept
<1>13. \A d \in Connections : Kept(d)
  BY <1>1, <1>11, <1>12, GoneKept
<1> QED
  BY <1>6, <1>7, <1>13 DEF Good

\* Every step of the venue
LEMMA VenueSteps == ClientInv /\ Inv /\ VenueInv /\ [VenueNext]_venueVars => Good
<1> SUFFICES ASSUME ClientInv, Inv, VenueInv, [VenueNext]_venueVars PROVE Good
  OBVIOUS
<1>1. ASSUME NEW c \in Connections,
             Receive(c) \/ Disconnect(c) \/ Accept(c) \/ HandleEof(c) \/ ReadError(c)
      PROVE  Good
  BY <1>1, ConnectionSteps
<1>2. ASSUME NEW c \in Connections, HandleRequest(c) PROVE Good
  <2>1. CASE \/ HandleLogout(c)
             \/ \E a \in Accounts \cup {Null}, right \in BOOLEAN : HandleLogin(c, a, right)
    BY <2>1, LoginSteps
  <2>2. CASE \E s \in Side, q \in Quantities, p \in Prices \cup {0} : HandleOrder(c, s, q, p)
    BY <2>2, OrderSteps
  <2>3. CASE \E u \in KnownUIDs : HandleCancel(c, u)
    BY <2>3, CancelSteps
  <2>4. CASE \E u \in KnownUIDs, s \in Side, q \in Quantities, p \in Prices :
                HandleReplace(c, u, s, q, p)
    BY <2>4, ReplaceSteps
  <2>5. CASE HandlePurge(c)
    BY <2>5, PurgeSteps
  <2> QED
    BY <1>2, <2>1, <2>2, <2>3, <2>4, <2>5 DEF HandleRequest
<1>3. CASE ContinueRequest
  BY <1>3, ReplacementSteps, ExecuteSteps, RespondSteps, PurgeOneSteps, RespondPurgeSteps
     DEF ContinueRequest
<1>4. CASE UNCHANGED venueVars
  <2>1. UNCHANGED <<vars, request, responses, client>> /\ session' = session
    BY <1>4 DEF venueVars, server
  <2>2. ClientTypeOK /\ HandlerOK
    BY DEF ClientInv
  <2>3. /\ ClientTypeOK'
        /\ \A d \in Connections : Informed(d)' = Informed(d) /\ client'[d].up = client[d].up
    BY <2>1, <2>2, Silence
  <2>4. \A d \in Connections : Kept(d)
    BY <2>1, <2>3, SameBookKept
  <2> QED
    BY <2>1, <2>2, <2>3, <2>4, SameHandler DEF Good
<1> QED
  BY <1>1, <1>2, <1>3, <1>4 DEF VenueNext

\* The venue starts without clients.
LEMMA ClientInitInv == VenueInit => ClientInv
<1> SUFFICES ASSUME VenueInit PROVE ClientInv
  OBVIOUS
<1>1. ASSUME NEW c \in Connections
      PROVE  /\ client[c] = NoClient /\ responses[c] = << >>
             /\ Informed(c) = NoClient
  <2>1. client[c] = NoClient /\ responses[c] = << >>
    BY DEF VenueInit
  <2>2. Told!Folded(NoClient, << >>) = NoClient
    BY Told!FoldedEmpty
  <2> QED
    BY <2>1, <2>2, InformedFold
<1>2. client = [c \in Connections |-> NoClient] /\ responses = [c \in Connections |-> << >>]
  BY DEF VenueInit
<1>3. << >> \in Seq(Response)
  OBVIOUS
<1>4. ClientTypeOK
  BY <1>1, <1>2, <1>3, NewClients DEF ClientTypeOK
<1>5. HandlerOK
  BY DEF VenueInit, HandlerOK, NoRequest
<1>6. \A c \in Connections : LoginOK(c) /\ ShownOK(c)
  BY <1>1, NewClients DEF LoginOK, ShownOK
<1> QED
  BY <1>4, <1>5, <1>6 DEF ClientInv

\* What each client knows, or is going to know, stays in step with the venue.
THEOREM ClientInvariance == VenueSpec => [](ClientInv /\ VenueInv /\ Inv)
<1>1. ClientInv /\ VenueInv /\ Inv /\ [VenueNext]_venueVars => ClientInv'
  BY VenueSteps DEF Good, Kept, ClientInv
<1> QED
  BY <1>1, ClientInitInv, VenueInvariance, PTL DEF VenueSpec

\* A client and the venue agree on whether the client is logged in, once it has
\* received what is on its way: no interleaving of logins, refusals, logouts, lost
\* connections and new ones makes a Client and its Connection part.
THEOREM LoginsAgree == VenueSpec => []LoginAgrees
<1>1. ClientInv => LoginAgrees
  BY DEF ClientInv, LoginOK, LoginAgrees
<1> QED
  BY <1>1, ClientInvariance, PTL

\* Client::active_orders has no phantoms: fills, partial fills, cancels, replacements
\* and purges, of one's own and by others' orders, leave it within the orders that
\* rest in the book for the client's account.
THEOREM NoPhantoms == VenueSpec => []NoPhantomOrders
<1>1. ClientInv => NoPhantomOrders
  <2> SUFFICES ASSUME ClientInv, request = NoRequest, NEW c \in Connections, client[c].up
               PROVE  Informed(c).active_orders \subseteq
                          (IF LoggedIn(c) THEN active[session[c]] ELSE {})
    BY DEF NoPhantomOrders
  <2>1. Unsaid(c) = {}
    BY DEF Unsaid, NoRequest
  <2>2. Informed(c).active_orders \subseteq MayShow(c)
    BY DEF ClientInv, ShownOK
  <2> QED
    BY <2>1, <2>2 DEF MayShow
<1> QED
  BY <1>1, ClientInvariance, PTL

\* A client knows every order that its session puts in the book, as long as it rests.
THEOREM OrdersTrackedCorrect == VenueSpec => OrdersTracked
<1> DEFINE Step == \A c \in Connections :
          client'[c].up /\ LoggedIn(c) /\ session'[c] = session[c] =>
             \A u \in active'[session[c]] :
                 u \in Informed(c)'.active_orders
                     <=> (u \in active[session[c]] => u \in Informed(c).active_orders)
<1>1. ClientInv /\ VenueInv /\ Inv /\ [VenueNext]_venueVars => [Step]_venueVars
  BY VenueSteps DEF Good, Kept, TrackStep
<1> QED
  BY <1>1, ClientInvariance, PTL DEF VenueSpec, OrdersTracked

\* A client's shares and capital move exactly as those of its account do during its
\* session: SystemAccount's four fill methods report every trade once, to the right
\* client, with the right quantity and price.
THEOREM PositionsTracked == VenueSpec => PositionTracked
<1> DEFINE Step == \A c \in Connections :
          client[c].up /\ client'[c].up =>
             LET stays == LoggedIn(c) /\ session'[c] = session[c]
             IN  /\ Informed(c)'.shares - Informed(c).shares =
                        (IF stays THEN shares'[session[c]] - shares[session[c]] ELSE 0)
                 /\ Informed(c)'.capital - Informed(c).capital =
                        (IF stays THEN capital'[session[c]] - capital[session[c]] ELSE 0)
<1>1. ClientInv /\ VenueInv /\ Inv /\ [VenueNext]_venueVars => [Step]_venueVars
  BY VenueSteps DEF Good, Kept, PositionStep
<1> QED
  BY <1>1, ClientInvariance, PTL DEF VenueSpec, PositionTracked
=============================================================================
