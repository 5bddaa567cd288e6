------------------------------ MODULE Strategy ------------------------------
(***************************************************************************)
(* The life of a trading strategy: the session messages that its receiver  *)
(* hands over start and stop a chain of timer waits, and each wait that    *)
(* completes lets the strategy act and starts the next wait.               *)
(*                                                                         *)
(* The programs of main/strategies run the receiver's io_context on a      *)
(* thread of its own, "feed", and the client and the timer on "trade";     *)
(* market_arbitrage has two receivers and runs everything on one context.  *)
(* The timer is used by both: its operations are the steps that asio's     *)
(* deadline_timer_service takes on the timer's implementation.             *)
(*                                                                         *)
(* The budget of the two liquidity consumers, `size', is part of the model *)
(* because Start of session writes what the chain reads and writes.        *)
(***************************************************************************)
EXTENDS Integers, FiniteSetsExt

CONSTANTS
    Sizes,        \* the sizes a session's budget is drawn from
    Volumes,      \* the volumes the receiver may show at the best price
    Wrap,         \* 2^32 for the unsigned budget, scaled down
    MaxMessages   \* bound on the session messages

ASSUME WrapAssumption  == Wrap \in Nat \ {0}
ASSUME SizesAssumption == Sizes \subseteq 0..(Wrap - 1) /\ Volumes \subseteq Nat
ASSUME BoundAssumption == MaxMessages \in Nat

VARIABLES
    program,      \* the program of main/strategies that runs
    received,     \* the session messages received
    session,      \* per feed, Receiver::_is_session_active
    is_running,   \* the strategy's flag
    pc,           \* per thread, the step it is at and the operation it belongs to
    flag,         \* might_have_pending_waits
    waits,        \* the waits that are pending on the timer
    ready,        \* the completions that wait to be run, without an error
    size,         \* what is left of the session's budget
    volume,       \* the volume of the order being placed
    day,          \* the budget drawn at the start of the session
    ordered,      \* the shares ordered since then
    overtaken     \* the session began between an order and its subtraction from size

timer  == <<flag, waits, ready>>
budget == <<size, volume, day, ordered>>
vars   == <<program, received, session, is_running, pc, timer, budget, overtaken>>

Threads == {"feed", "trade"}

\* liquidity_consumer stands for the other six: it has all their state, and a budget.
Programs == {"market_arbitrage", "liquidity_consumer"}

\* Feed and trading handlers run on one io_context.
OneThread == program = "market_arbitrage"

\* The receivers of the strategy.
Feeds == IF program = "market_arbitrage" THEN {"A", "B"} ELSE {"A"}

\* The steps: "test", "cancel" and "reset" are those of cancel, "arm" and
\* "schedule" those of async_wait.
Idle   == [at |-> "idle", op |-> "none"]
At(t, step) == pc[t].at = step
Go(t, step) == pc' = [pc EXCEPT ![t].at = step]

\* Thread t takes a new handler from its queue.
CanBegin(t) == pc[t] = Idle /\ (OneThread => \A u \in Threads : pc[u] = Idle)

Init ==
    /\ program \in Programs
    /\ received = 0
    /\ session = [f \in Feeds |-> FALSE]
    /\ is_running = FALSE
    /\ pc = [t \in Threads |-> Idle]
    /\ flag = FALSE
    /\ waits = 0
    /\ ready = 0
    /\ size = 0 /\ volume = 0 /\ day = 0 /\ ordered = 0
    /\ overtaken = FALSE

-----------------------------------------------------------------------------
(* asio's timer                                                            *)

\* Fault: any thread that finds the flag set goes on as if it were clear.
Fault_Test(t) ==
    /\ At(t, "test")
    /\ Go(t, IF pc[t].op = "end" THEN "finish" ELSE "arm")
    /\ UNCHANGED <<program, received, session, is_running, timer, budget, overtaken>>

\* cancel returns at once when there can be no wait.
Test(t) ==
    /\ At(t, "test")
    /\ Go(t, IF flag THEN "cancel" ELSE IF pc[t].op = "end" THEN "finish" ELSE "arm")
    /\ UNCHANGED <<program, received, session, is_running, timer, budget, overtaken>>

\* cancel_timer: the pending waits complete with an error, and then do nothing.
CancelWaits(t) ==
    /\ At(t, "cancel")
    /\ waits' = 0
    /\ Go(t, "reset")
    /\ UNCHANGED <<program, received, session, is_running, flag, ready, budget, overtaken>>

Reset(t) ==
    /\ At(t, "reset")
    /\ flag' = FALSE
    /\ Go(t, IF pc[t].op = "end" THEN "finish" ELSE "arm")
    /\ UNCHANGED <<program, received, session, is_running, waits, ready, budget, overtaken>>

\* async_wait
Arm(t) ==
    /\ At(t, "arm")
    /\ flag' = TRUE
    /\ Go(t, "schedule")
    /\ UNCHANGED <<program, received, session, is_running, waits, ready, budget, overtaken>>

\* schedule_timer; it is the last step of start_strategy.
Schedule(t) ==
    /\ At(t, "schedule")
    /\ waits' = waits + 1
    /\ pc' = [pc EXCEPT ![t] = IF @.op = "rearm" THEN Idle ELSE [@ EXCEPT !.at = "finish"]]
    /\ UNCHANGED <<program, received, session, is_running, flag, ready, budget, overtaken>>

\* The time of the pending waits has come: they can no longer be cancelled.
Expire ==
    /\ waits > 0
    /\ ready' = ready + waits
    /\ waits' = 0
    /\ UNCHANGED <<program, received, session, is_running, pc, flag, budget, overtaken>>

-----------------------------------------------------------------------------
(* The feed's handlers: did_receive(StartOfSession), did_receive(EndOf-    *)
(* Session).  The messages come in any order: datagrams may be lost.       *)

\* Fault: one active market is enough.
Fault_AllActive(active) == \E f \in Feeds : active[f]

AllActive(active) == \A f \in Feeds : active[f]

\* A strategy that is running only logs the message, and so does one that waits
\* for its other market.
StartOfSession(f) ==
    /\ CanBegin("feed")
    /\ received < MaxMessages
    /\ received' = received + 1
    /\ session' = [session EXCEPT ![f] = TRUE]
    /\ IF ~is_running /\ AllActive(session')
       THEN /\ pc' = [pc EXCEPT !["feed"] = [at |-> "test", op |-> "start"]]
            /\ \E n \in Sizes : size' = n /\ day' = n
            /\ ordered' = 0
            /\ overtaken' = At("trade", "spend")
       ELSE UNCHANGED <<pc, size, day, ordered, overtaken>>
    /\ UNCHANGED <<program, is_running, timer, volume>>

EndOfSession(f) ==
    /\ CanBegin("feed")
    /\ received < MaxMessages
    /\ received' = received + 1
    /\ session' = [session EXCEPT ![f] = FALSE]
    /\ pc' = IF is_running /\ ~AllActive(session')
             THEN [pc EXCEPT !["feed"] = [at |-> "test", op |-> "end"]]
             ELSE pc
    /\ UNCHANGED <<program, is_running, timer, budget, overtaken>>

\* is_running is set last.
Finish ==
    /\ At("feed", "finish")
    /\ is_running' = (pc["feed"].op = "start")
    /\ pc' = [pc EXCEPT !["feed"] = Idle]
    /\ UNCHANGED <<program, received, session, timer, budget, overtaken>>

-----------------------------------------------------------------------------
(* The handler of a completed wait.                                        *)

\* Fault: a strategy that decides not to act does not wait again.
Fault_Pass ==
    /\ CanBegin("trade")
    /\ ready > 0
    /\ ready' = ready - 1
    /\ UNCHANGED <<program, received, session, is_running, pc, flag, waits, budget, overtaken>>

\* P_act decides against acting, or there is no volume to take.
Pass ==
    /\ CanBegin("trade")
    /\ ready > 0
    /\ ready' = ready - 1
    /\ pc' = [pc EXCEPT !["trade"] = [at |-> "test", op |-> "rearm"]]
    /\ UNCHANGED <<program, received, session, is_running, flag, waits, budget, overtaken>>

\* Fault: the order is not held to what is left.
Fault_Clamp(v) == v

\* if (volume > size) volume = size
Clamp(v) == Min({v, size})

\* do_strategy: the order is sent, for no more than is left of the budget.
Act(v) ==
    /\ CanBegin("trade")
    /\ ready > 0
    /\ v > 0
    /\ ready' = ready - 1
    /\ volume' = Clamp(v)
    /\ ordered' = ordered + Clamp(v)
    /\ pc' = [pc EXCEPT !["trade"] = [at |-> "spend", op |-> "rearm"]]
    /\ UNCHANGED <<program, received, session, is_running, flag, waits, size, day, overtaken>>

\* size -= volume
Spend ==
    /\ At("trade", "spend")
    /\ size' = (size - volume) % Wrap
    /\ Go("trade", "test")
    /\ UNCHANGED <<program, received, session, is_running, timer, volume, day, ordered, overtaken>>

-----------------------------------------------------------------------------

\* The steps that carry a handler of thread t on.
Step(t) ==
    \/ Test(t)
    \/ CancelWaits(t)
    \/ Reset(t)
    \/ Arm(t)
    \/ Schedule(t)

Begin == Pass \/ \E v \in Volumes : Act(v)

Next ==
    \/ \E t \in Threads : Step(t)
    \/ Finish
    \/ Spend
    \/ Expire
    \/ Begin
    \/ \E f \in Feeds : StartOfSession(f) \/ EndOfSession(f)

Spec == Init /\ [][Next]_vars

\* Each thread goes on with the handler it runs and takes the next one that is
\* ready, and time passes.  Nothing is assumed of the session messages.
FairSpec ==
    /\ Spec
    /\ WF_vars(Step("feed") \/ Finish)
    /\ WF_vars(Step("trade") \/ Spend \/ Begin)
    /\ WF_vars(Expire)

-----------------------------------------------------------------------------
(* Properties                                                              *)

\* Between two session messages the strategy runs exactly when every market it
\* trades on is in session, whichever messages were lost or repeated.
RunsInSession == pc["feed"] = Idle => (is_running <=> \A f \in Feeds : session[f])

\* Something that will start the next wait: a wait, a completion, or a handler.
Alive == waits > 0 \/ ready > 0 \/ pc["trade"] # Idle

\* A running strategy never falls asleep: whatever the two threads do to the
\* timer at the same time, a wait, a completion or the handler is there.
NeverStarves == is_running /\ pc["feed"] = Idle => Alive

\* A running strategy gets to act again and again, or is stopped.
KeepsActing == is_running ~> (pc["trade"] # Idle \/ ~is_running)

\* On one io_context there is never a second wait on the timer, and the flag that
\* lets cancel find a pending wait is set: no chain escapes expires_after.
OneWait == OneThread => waits <= 1 /\ (waits > 0 => flag)

\* The liquidity consumers order no more than the budget they drew at the start of
\* the session, although chains of earlier sessions may still be ordering from it.
\* There is one way to exceed it: the feed thread draws the budget after the trading
\* thread has sent an order and before it has subtracted that order from size.
BudgetKept == ~overtaken => ordered <= day

\* Ending the session stops the strategy: it is not running any more, or it
\* comes to rest.
StopsAtEnd == ~is_running ~> (~Alive \/ is_running)
=============================================================================
