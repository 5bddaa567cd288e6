# A TLA+ model of the CBOE emulator

The repository emulates an exchange: a venue with a limit order book that
clients trade on over TCP, a UDP multicast feed of what happens in the book, and
agents that rebuild the book from the feed and trade on it. This directory has
TLA+ modules for the parts that carry its logic, TLC runs that check them on
small instances, and TLAPS proofs for every instance.

Paths below are relative to the repository; `oe/` is `include/order_entry/` and
`df/` is `include/data_feed/`.

## The system

    client process            venue process (one thread)           agent process
    Client  --- requests --->  Connection --> LimitOrderBook        Receiver (feed thread)
            <-- responses ---      |  ^            |                    | book, session
                               SystemAccount <-- fills                  v
                                               Sender --- UDP --->  strategy (trading thread)
    operator --- console --->  ServerCLI ---------^                 Client --> venue

| Part | State | Operations | What makes it correct |
| --- | --- | --- | --- |
| Matching engine, `oe/limit_order_book/` | map of orders, tree of limits per side with a queue each, best pointers, counts and volumes at two levels, next ID | `limit_sell/_buy`, `market_sell/_buy`, `cancel` (and `reduce`, `clear`, which nothing calls) | the structures agree; price-time priority; limit prices respected; never crossed; calls return |
| Accounts, `structures.hpp`, `oe/system_account.hpp` | shares, capital, set of active orders, session handler | the four fill methods, `limit`, `cancel` | nothing is created or lost; active orders are the orders in the book |
| Server and connections, `oe/server.hpp`, `oe/connection.hpp` | session account, output buffer | accept, login, logout, order, cancel, replace, purge, end of stream | one session per account; only owners cancel; every request is answered; lost clients are released |
| Client, `oe/client.hpp` | authorised flag, active orders, shares, capital | one handler per response | agrees with the venue about its session, orders and position |
| Feed sender, `df/sender.hpp`, and console, `oe/handlers/server_cli.hpp` | sequence number, output buffer, session flag | `send`, the sending loop, start and end of session | messages leave in order and none waits for ever |
| Feed receiver, `df/receiver.hpp`, `df/limit_order_book/` | rebuilt book, session flag, last sequence number | one handler per message | equals the venue's book until a gap is noticed; sound after one |
| Strategies, `include/strategies/` | timer, running flag, budget | session messages, timer handler, decisions | run exactly in session; keep running; orders are what the strategy means |

The hard behaviours: the match loop runs over several orders and limits and
touches four structures for each; trades of one client's request are reported to
other clients between their own requests; clients come and go while their orders
rest and execute; UDP loses and reorders what the receiver must stay sane with;
the feed thread and the trading thread of an agent share a timer, a budget and a
book without a lock; price 0 is both a price and the mark of a market order.
`PROJECT.json` lists these hazards at the lines where they bite, with the
properties that cover them.

## The modules

    LimitTree --- implements --> BookSide <-- uses ------+
                                                         |
    FeedSource <---------------- implemented by --- OrderBook <-- EXTENDS --- Venue
        ^
     EXTENDS                      WriteLoop --- implements --> Outbox
        |
     DataFeed <-- EXTENDS --- Quotes                              Strategy

The proofs are in OrderBookProofs, LimitTreeProofs, VenueProofs, WriteLoopProofs,
ReceiverProofs (about DataFeed and Quotes) and StrategyProofs. `Collections` has the sums and the order of queues that several
properties mention; CollectionProofs and FoldProofs have the general facts about
sums, folds and sequences that the proofs share. `MCVenue` and `MCLimitTree` give TLC the
symmetry of accounts, connections and orders for `venue` and `limit_tree`, which
check no liveness; the other modules are run as they are.

Definitions named `Fault_X` are wrong versions of `X`. No specification uses
them; each documents a mistake that a property must, and does, catch.

**OrderBook** is `OrderEntry::LOB::LimitOrderBook` with its two `LimitTree`s and
the accounts its trades settle on. A call is a step that starts it
(`LimitOrder`, `MarketOrder`), one step per iteration of the loop of
`LimitTree::market` (`MatchPartly`, `MatchWhole`) and the step that returns
(`ReturnFilled`, `ReturnResting`, `ReturnUnfilled`); `Cancel` is one step. The
order being executed is `taker`, and no other call starts before it is done,
because the venue runs each handler to its end on one thread
(`main/venue/server.cpp`). A limit's linked list is the sequence `queue`. The
search tree is the set `levels`, and `find_best` is the relation `IsBest`.
The four fill methods of Account are functions on the positions of the
accounts, called in the code's order with the quantity that each of them reads:
`MarketFill`, then `LimitFill` or `LimitPartial`; `MarketPartial`, then `LimitFill`.
`published` is what a subscriber that got every message believes. `reduce` and
`clear` are actions of `ApiSpec` only: no handler reaches them. `ApiSpec`
deliberately claims nothing about accounts, because `clear` leaves
`Account::orders` with pointers to orders that are gone.

**BookSide** is what one side of a book promises the code that uses it: a queue
per price and the best price that has orders. `OrderBook!UsesSides` says that the
book's two sides only ever take the steps it allows.

**LimitTree** implements BookSide with the memory of the code: the parent, left
and right pointers of the vendored search tree, the head, tail, next and previous
pointers of the vendored lists, and `best`. `Insert` and `Unlinked` are the tree's
`insert` and the five cases of its `remove`; `FindBest` walks on from the pointers
that the removed limit still has, as the code does. A Limit is named by its price
and an order by itself, so `SearchTree` also says that no pointer leads to a Limit
that has been deleted. The receiver's book has the same code. Volumes and counts
are in OrderBook and DataFeed.

**Venue** adds connections, sessions and clients. `request` is the handler that
is running; it takes the steps of `OrderBook` that its call takes. `Execute` is an
iteration of the match loop with the two reports that the accounts send. The
responses on their way are one FIFO per connection; requests on their way need
no state, since a client may send any request at any time. A client can vanish
at any step. `Informed(c)` is the state that client `c` will be in when it has
received what is on its way; the properties about clients are about that state.

**Outbox** is what a sender of messages relies on: they arrive once and in order
until the line breaks. It is what the FIFOs of Venue and DataFeed stand for.

**WriteLoop** implements Outbox with the output buffer that Connection, Client
and Sender each have: the buffer, the counter beside it, and the asynchronous
writes, which are asio's `write_op`: the step that starts one returns at once, and
its handler is called later, with what happened. A write is started (`Send`,
`Complete`), taken or failed by the operating
system (`Take`, `Fail`), and completed (`Complete`, `CompleteError`), and other
handlers send in between. Nothing in the model says that there is only one write
at a time: that is `OneWrite`. After an error a Connection goes on accepting
messages that never leave; Client and Sender throw.

**FeedSource** is the abstract specification of the feed: legal sequences of
AddOrder, DeleteOrder and Trade messages. `OrderBook!FeedSpec` says the book
implements it, and OrderBookProofs proves it.

**DataFeed** takes FeedSource as the venue's book, and has the sender, the
network, and the receiver, whose book is a value with the operations of
`df/limit_order_book/` as functions on it, local matching included: `Market`
folds `Match`, a pass of the loop of `LimitTree::market`, over as many passes as
there are orders, which is enough because every pass but the last removes one.
The network
either delivers everything in order (`reliable`) or keeps all that was sent and
delivers any of it at any time, any number of times or never, which is loss,
delay, reordering and duplication in one. A Trade for more than an order has
throws and ends the receiver. An AddOrder for an order that the receiver has is
counted a second time and linked behind the last order of its list, which may be
itself (`ReceiveDuplicate`); the list is a ring from then on, what later messages do
to it depends on freed memory, and the model follows that receiver no further.

**Quotes** adds the prices and sizes the strategies compute from the receiver's
book. A decision is the set of orders it may lead to; random draws and moving
averages choose. Integers that the code guards against overflow wrap at the
largest price of the instance. `OrderRequest` puts an order into a book the way the
venue's handler does, price 0 included, to say what becomes of it. `RateOfChange` has the unsigned division that
Momentum's instantiation of the template gets.

**Strategy** is the life of an agent: two threads, the session messages, and
the chain of timer waits. `expires_after`, `async_wait` and `cancel` are the
steps asio's `deadline_timer_service` takes: test the flag, cancel the pending
waits, reset the flag; set the flag, schedule. The seven strategies share this
code; the variable `program` chooses between `market_arbitrage`, which has two
feeds and one io_context (`OneThread`), and the others. The budget of the liquidity consumers is part of it because the feed thread writes
what the trading thread decrements.

## The runs

| Run | Instance | What it shows |
| --- | --- | --- |
| `book_structures` | 1 account, prices 0..2, quantities 0..2, 3 orders, `ApiSpec` | the order map and the queues, and the counts and volumes, agree after every step of every call, `reduce` and `clear` included; both sides are used as BookSide says; no limit order gets a price worse than its limit, but for a buy at 0 |
| `limit_tree` | 6 orders, 6 prices, each side | the tree is a search tree with sound parent pointers after any insertions and removals; tree and lists refine BookSide |
| `book` | 2 accounts, 2 prices, quantities 0..2, 3 orders | price-time priority in every execution; never crossed; accounts and feed follow the book, and the book refines FeedSource; shares and capital are conserved; every call returns (liveness) |
| `venue` | 2 accounts, 2 connections, 2 orders | sessions are exclusive; clients agree with the venue about login and hold no orders it does not know; owners only; the venue refines the book |
| `venue_partial` | quantities 1 and 2, 1 resting order | orders and positions are tracked through partial executions, cancels and replacements; requests are answered and lost clients released (liveness) |
| `write_loop` | 8 messages, each of the three classes | one write at a time, for the front of the buffer; refines Outbox; the buffer empties or a write has failed (liveness) |
| `feed` | prices 0..3, quantities 0..2, 3 messages, any delivery | exact until a gap is logged; consistent and uncrossed after; what the strategies order is what they mean, at the ends of the price range and from stale prices; without loss the receiver catches up (liveness) |
| `strategy` | both kinds of program, 8 session messages | the strategy never loses its chain of waits, keeps acting (liveness), keeps the budget of every session that does not begin in the middle of an order, and runs exactly in session; on one thread one wait at most |
| `venue_shares` | violation | finding 1 |
| `quotes_outside` | violation | finding 2 |
| `strategy_end` | violation | finding 3 |
| `momentum` | violation | finding 4 |

**Bounds.** `MaxOrders` bounds the IDs the book hands out, and orders that fill
at once do not use one up; with three, a queue can lose its middle order, and a
taker can run over several orders and limits. Three prices are what `UsesSides`
needs: a best one to remove, a next best and another. In `limit_tree` six nodes
are enough for every case of `remove`, with the least node of the right branch two
levels down and with a branch of its own, under a parent and at the root; six
orders at one price give every removal from a list. Quantities 1 and 2 give
fills, partial fills on either side and sweeps; 0 is there because the handlers
accept it. `MaxPending` bounds the responses that wait when a request is
handled; trades add to them without a bound. Two connections and two accounts
are what a clash over a session needs. `MaxMessages` of the feed bounds the
messages sent, not those received: with three an order can be lost or come twice
or after its deletion, its side be taken by a crossing order that the receiver
matches itself, and a trade come for more than is left. Eight messages in
`write_loop` let the buffer grow and empty several times around every state of a
write. In
`Strategy`, eight session messages are up to four sessions; `Wrap` is 2^32 scaled down,
and only the wrap itself matters. Deadlock is checked in the book's runs. It is
not in the others: clients, operators and networks may stop, and the bounds end
what they do.

**Fairness.** Book: weak fairness of `Continue`, since a call waits for nothing.
Venue: weak fairness of the running handler and of delivery on an open
connection; strong fairness of the end of a closed connection, because other
handlers run in between and asio serves ready descriptors in turn. Feed: weak
fairness of the sending loop and, on a reliable network, of the receiver: two
event loops that run what is ready. Write loop: weak fairness of the transfers,
which the operating system completes or refuses, and of their completions. Strategy: weak fairness of each thread and of the expiry of a timer.
Nothing is assumed of clients, operators or the order of handlers.

## What is proved

The theorems hold for every value of the constants. They assume that `Prices` and
`Quantities` are sets of natural numbers (in DataFeed `Prices` up to some
`MaxPrice`, the limit of the type), `Accounts` is finite, `Null` is no account and
no connection, and the bounds are natural numbers; Quotes and Strategy need the
ranges of their own parameters. Every assumption is an `ASSUME` of the module that
declares the constant, and TLC evaluates it in the runs.

*CollectionProofs, FoldProofs.* The provers do not apply an induction theorem that
takes a formula as a parameter. CollectionProofs proves one about sets of numbers
instead (a set of naturals that has 0 and the successor of each member has them
all), and with it what taking an element out of a finite set, adding one, or
changing the value of one does to a sum. FoldProofs has an operator `Op` as a
constant: folding `Op` over a sequence with one more element is one more `Op`.
VenueProofs instantiates it with a client's handler, ReceiverProofs with a pass of
the match loop.

*OrderBookProofs.* The properties are not inductive one by one. The inductive
invariant of the book, `CoreInv`, is the types, `BookInv` (queues, levels, best
prices, counts and time priority), `NotCrossed`, and two facts that only the proof
needs: `IDsHandedOut`, every ID in the book is below the next one (without it a new
order could be put in front of, or in place of, an older one), and
`CallConsistent`, what the phase of the running call says about its order (without
it an order that has not been matched could rest across the spread). The lemmas
follow the code: what `LimitTree::limit`, `remove` and a partial fill do to
`BookInv`, then one lemma per action. All operations keep `CoreInv`, `reduce` and
`clear` included, so `TypeCorrect`, `QueuesCorrect`, `NeverCrossed`, `TotalsCorrect`
(the counts and volumes of every limit and side: a step changes one summand and the
total by the same amount) and `LimitPrices` (an action property; prices may be 0, and
the only order it excepts is a buy at 0) are theorems about `ApiSpec`. The lemma
`HandlersWithinApi` carries them over to `Spec`, and so to the book in the venue.
`Inv` adds `AccountsHoldOrders` and `FeedMatchesBook`, which `clear` breaks; from it
follow `AccountsCorrect`, `FeedComplete`, the action property `Priority`, and
`ConservationCorrect` (shares and capital over all accounts), all about `Spec`. The
last rests on `FillsTrade`: whichever two of the four fill methods a step calls,
what one account gets the other one gives, although each reads its quantity from
another order.

`BookImplementsFeed`: the book refines FeedSource. A matching
step maps to a Trade, which has priority because the match is the oldest order
of the best limit; a resting order to an AddOrder, which does not meet the other
side because it did not cross; a cancel to a DeleteOrder; everything else to a
stutter. One more invariant, `TakerRemains`, bounds what is left of an order.
`BookUsesSides`: the book, with all its operations, refines BookSide on both sides.
A step of a call is an order joining the end of a queue or an order leaving on one
side, and a stutter on the other; `clear` empties both. It rests on `BookInv`: that
an order to be added rests nowhere yet, and that `best` is the best price before the
step, so that `set_best` and `find_best` make it so after.

*LimitTreeProofs.* `SearchTreeCorrect` and `TreeImplementsSide`, for any prices and
orders. The two theorems BookUsesSides and TreeImplementsSide meet in BookSide: all
that the book asks of a side the pointers do, so the sets and sequences of OrderBook
may stand for them. The properties follow walks along pointers; the invariant does
not. `IsTree` gives a tree with the set of the nodes under each of its nodes, and
says of these sets that they nest, are sorted, and that parent pointers and links
agree; `Clean` that the pointers of limits which do not exist are null. `remove` is
made of two moves on such a tree, whatever the case: taking a node with at most one
child out (`CutTree`) and putting a node in the place of its neighbour in the order
(`SwapTree`); `insert` of a third (`GrowTree`). Each case of the code is shown to be
those moves, pointer by pointer (`UnlinkedCut`, `UnlinkedByRight`,
`UnlinkedByMinimum`). The walks of the code (`insert`, `min`, `max`) are then
followed by `TreeInduction`, over the size of a branch, which shrinks with every
step down; that a branch leaves out no node between two of its own
(`BranchesConvex`) makes the end of the walk in `find_best` the best price,
although it sets out from the pointers of a node that is no longer in the tree.
`Linked` gives the lists with the sequence that each price links, and every order
its neighbours in it; `ListChange` says that a step which rewrites one list leaves
the others alone, and `LinkedAppend` and `LinkedRemove` that `DLL::append` and
`DLL::remove` do to the pointers what `Append` and `RemoveAt` do to the sequence.
`ChainIs` and `BranchAgrees` connect both with the walks in the properties, whose
recursive functions exist because the pointers have no cycle.

*WriteLoopProofs.* `OneWrite` is inductive: a write is started only for an empty
buffer or by the completion of the one before, and an error leaves the buffer
non-empty, so that nothing starts one again. With `Numbered`, that the next number
counts what has arrived and what is still to be sent, it gives
`LoopImplementsOutbox`. The mapping takes a message off the buffer when it is
taken, not when the handler pops it. Both hold for any number of messages.

*VenueProofs.* `VenueInv` is the types and `OneSession`. Every step of the venue
is a step of the book or leaves it alone (`VenueImplementsBook`), so the book's
theorems hold in the venue (`VenueTrades`). `SessionsExclusive`,
`PurgesComplete` and `OwnersOnly` hold for any number of clients.

The theorems about clients are about `Informed(c)`, however many responses are on
their way. `ClientInv` is the types of responses and clients, `HandlerOK` (what is
known of the connection that a running handler serves), and for every client that
is up `LoginOK`, that it will take itself for logged in exactly if it is, and
`ShownOK`, that the orders it will show are active orders of its account, or
`Unsaid`: orders that the running handler has taken from the account and not yet
reported. One lemma per response says what it does to `Informed`, and one per
action of the venue that the client stays informed. `LoginsAgree`, `NoPhantoms`,
`OrdersTrackedCorrect` and `PositionsTracked` follow.

*ReceiverProofs.* `ReceiverInv` has two halves. `BookOK(book)` says of the
receiver's book that orders and queues hold each other, the best prices are the
best, the volumes are the sums, and the sides do not cross; every operation keeps
it from any book that has it, whatever message comes. A second link of an order
breaks it; `TopOK(book)`, the part about best prices and the spread, survives that
step, so the invariant is `Sound`: `TopOK` always, and `BookOK` while the receiver
is followed. For local matching that is a
loop invariant (`Running`): with a pass less to go there is an order less to match,
so that the fold ends with the loop's condition false. `ReceiverConsistentCorrect`,
but for the types of messages, and the action property `LastBestCorrect` rest on
this half. The other half
ties the receiver to the venue: `Numbered` (what the sender has numbered, sent and
still has to send), `Told` (the message with number `k` describes the step from the
venue's orders after `k - 1` messages to those after `k`) and `Exact` (a receiver
that has logged no gap has the venue's orders as they were after the last message
that it got, in queues in order of arrival). `ExactUntilWarnedCorrect` follows for
any number of messages, delivered in any way. It needs `BookOK` too: an order that
did not meet the venue's book meets none in an equal one, so nothing is matched
locally.

The decisions of Quotes are functions of a book, and `PassiveOrdersRestCorrect`,
`ReversionLeadsCorrect`, `CrossPaysCorrect` and `TakesBestOnlyCorrect` prove of every
book that the receiver can have what the strategies mean. For `ReversionLeadsCorrect`
the invariant of the match loop says that what is left of an order meets nothing
more, and that its own side is as it was (`LimitLeads`); an order better than all of
its side then rests alone at the new best price (`RestsFirst`). For
`TakesBestOnlyCorrect` a second loop invariant, `Taking`, says that an order for at
most the volume of the best limit is filled there.

*StrategyProofs.* For any number of session messages, and both kinds of program.
`SessionInv` ties `is_running` to the session, and to the reason for which a
handler of the feed that is under way was started; `ChainInv` says that once a wait
has been scheduled something carries the chain on until the session ends;
`OneContextInv` that on one io_context one handler runs at a time and schedules only
when no wait is pending; `BudgetInv` that what has been ordered and what is left
add up to the budget drawn, up to the order being placed, unless the session began in
the middle of one: it does not matter how many chains there are, since all run on the
trading thread. They give `RunsInSessionCorrect`, `NeverStarvesCorrect`, `OneWaitCorrect` and
`BudgetKeptCorrect`.

*Only model-checked.* Liveness (`CallReturns`, `RequestAnswered`,
`SessionReleased`, `Drains`, `CatchesUp`, `KeepsActing`), which is out of the
prover's reach. All the invariants and action properties of the passing runs, and
the refinements, are theorems.

## Findings

1. *Clients do not own what they show* (`venue_shares`). Executions while the
   account is logged out are reported to nobody.
2. *A deep buy becomes a market order* (`quotes_outside`). The noise trader
   clamps its price to 0.
3. *Strategies outlive the session* (`strategy_end`). `cancel` misses a
   completed wait, whose handler waits again without looking at `is_running`.
4. *The momentum trader buys on a fall* (`momentum`). Its rate of change is
   computed in the unsigned type of prices: a fall wraps around to a large rate, a
   rise by less than the whole price is 0, and the branch that sells is dead.

Also met while modelling, and stated as the exception of a property that passes.
`can_match` takes a buy's limit price of 0 for none, and the replace handler passes
any price on: a buy replaced to 0 that meets a sell at 0 executes against every
dearer sell (`LimitPriceRespected` excepts buys at 0, and nothing else). An order
that the feed repeats is counted and linked twice by the receiver, because `emplace`
leaves the one in the map alone and nothing looks at its result
(`ReceiverConsistent` says what survives that, and `ExactUntilWarned` that a gap has
been logged by then). The feed thread may draw the budget of a session after the
trading thread has sent an order and before it has subtracted it: the order is then
subtracted from the new size, which can wrap around (`BudgetKept` excepts the
sessions that begin there, and no others).

Also met, without a property. On an empty side the market
maker quotes the last best price as it is, which may trade at once, or is 0 before
the first order. Both threads can be inside the same
steady_timer, which asio calls unsafe. A write error on a connection stops its
output for ever (modelled; `OneWrite` states it). The comment on
`Client::send_sync` says "synchronously (blocking)", and its body is that of
`send`, which does not wait. A read error other than the end of the stream ends the venue
(modelled, as `Stopped`). The receiver logs an expected sequence number that is
one too low.

## Not modelled

The packed layout of messages and the sequence numbers of order entry, which
are written and never read; the consoles, heartbeats and CSV and echo listeners,
which print; the floating-point statistics and random draws, of which every
outcome is allowed; option and account files; the Clear message, which nothing
sends; restarts of the venue, which keeps nothing and starts its sequence numbers
and order IDs again; the wrap of the 32-bit feed sequence number; the data race of
the trading thread's reads of the receiver's book with the feed thread's writes;
the lifetime of a connection whose write is under way when its stream ends. The
HTML and JavaScript under `docs/` are generated by Doxygen from the headers and no
part of the program.

## Plan

Done: the core (OrderBook), order entry (Venue), the feed (FeedSource, DataFeed),
the agents (Quotes, Strategy), the memory of a side (BookSide, LimitTree) and the
output buffers (Outbox, WriteLoop), with theorems for the safety properties that
the passing runs check on all of them.

What would be next: the lifetime of a connection whose write is under way when its
stream ends, with the shared pointers that the handlers hold; the receiver's book
as a user of BookSide, so that TreeImplementsSide covers its memory as it covers
the venue's; the reads of that book by the trading thread while the feed thread
writes it, which needs a weaker memory than the interleaving of steps.
