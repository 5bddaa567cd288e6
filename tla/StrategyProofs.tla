--------------------------- MODULE StrategyProofs ---------------------------
(***************************************************************************)
(* Proofs about the life of a strategy, for every set of budgets and       *)
(* volumes and any number of session messages: what the feed thread and    *)
(* the trading thread may do to the timer and the flag at the same time.   *)
(*                                                                         *)
(* The argument: where each thread can be (TypeOK); what the feed's        *)
(* handler knows while it runs (SessionInv); what keeps the chain of waits *)
(* alive (ChainInv); that handlers on one io_context exclude each other    *)
(* (OneContextInv); and what a session has ordered (BudgetInv).            *)
(***************************************************************************)
EXTENDS Strategy, TLAPS

\* The steps of a handler that changes the timer.
TimerSteps == {"test", "cancel", "reset", "arm", "schedule"}

\* The steps of all handlers, and the operations they belong to.
Steps == TimerSteps \cup {"idle", "finish", "spend"}
Operations == {"none", "start", "end", "rearm"}

\* Where the two threads can be.
FeedStates ==
    {Idle} \cup [at : TimerSteps \cup {"finish"}, op : {"start"}]
           \cup [at : {"test", "cancel", "reset", "finish"}, op : {"end"}]
TradeStates == {Idle} \cup [at : TimerSteps \cup {"spend"}, op : {"rearm"}]

\* The variables have their types.
TypeOK ==
    /\ program \in Programs
    /\ received \in Nat
    /\ session \in [Feeds -> BOOLEAN]
    /\ is_running \in BOOLEAN /\ flag \in BOOLEAN /\ overtaken \in BOOLEAN
    /\ pc \in [Threads -> [at : Steps, op : Operations]]
    /\ pc["feed"] \in FeedStates /\ pc["trade"] \in TradeStates
    /\ waits \in Nat /\ ready \in Nat
    /\ size \in 0..(Wrap - 1) /\ volume \in Nat /\ day \in Nat /\ ordered \in Nat

\* A handler of the feed that is under way knows why it was started: no other
\* handler changes the session or is_running.
SessionInv ==
    /\ pc["feed"].op = "none"  => (is_running <=> \A f \in Feeds : session[f])
    /\ pc["feed"].op = "start" => ~is_running /\ \A f \in Feeds : session[f]
    /\ pc["feed"].op = "end"   => is_running /\ ~(\A f \in Feeds : session[f])

\* Once start_strategy has scheduled a wait, something carries the chain on.
ChainInv ==
    \/ is_running /\ pc["feed"].op = "none"
    \/ pc["feed"].op = "start" /\ pc["feed"].at = "finish"
    => Alive

\* On one io_context one handler runs at a time, so that what cancel found is still
\* so when the handler goes on: no wait is pending when it schedules the next one.
OneHandler ==
    /\ pc["feed"] = Idle \/ pc["trade"] = Idle
    /\ \A t \in Threads : pc[t].at \in {"reset", "arm", "schedule"} => waits = 0
    /\ \A t \in Threads : pc[t].at = "schedule" => flag
    /\ waits <= 1 /\ (waits > 0 => flag)

OneContextInv == OneThread => OneHandler

\* What is left of the budget and what has been ordered add up to the budget drawn,
\* up to the order being placed, which size covers: however many chains there are,
\* they run on one thread, and only the draw of the feed thread can come between an
\* order and its subtraction.
BudgetInv ==
    ~overtaken =>
      IF pc["trade"].at = "spend"
      THEN volume <= size /\ ordered + size = day + volume
      ELSE ordered + size = day

\* The invariant that every step keeps.
Inv == TypeOK /\ SessionInv /\ ChainInv /\ OneContextInv /\ BudgetInv

-----------------------------------------------------------------------------
(* A thread takes a step of its handler: what happens to pc.               *)

\* Thread t goes to the step x of its handler, and the other thread stays.
LEMMA GoProperties ==
    ASSUME TypeOK, NEW t \in Threads, NEW x \in Steps, Go(t, x)
    PROVE  /\ pc' \in [Threads -> [at : Steps, op : Operations]]
           /\ pc'[t] = [at |-> x, op |-> pc[t].op]
           /\ \A u \in Threads : u # t => pc'[u] = pc[u]
  BY DEF TypeOK, Go

\* The same for a thread that starts or ends a handler.
LEMMA SetProperties ==
    ASSUME TypeOK, NEW t \in Threads, NEW r \in [at : Steps, op : Operations],
           pc' = [pc EXCEPT ![t] = r]
    PROVE  /\ pc' \in [Threads -> [at : Steps, op : Operations]]
           /\ pc'[t] = r
           /\ \A u \in Threads : u # t => pc'[u] = pc[u]
  BY DEF TypeOK

\* The steps that a handler has, by the thread that runs it.
LEMMA ThreadStates ==
    ASSUME TypeOK
    PROVE  /\ pc["feed"].at \in TimerSteps \cup {"idle", "finish"}
           /\ pc["trade"].at \in TimerSteps \cup {"idle", "spend"}
           /\ pc["feed"].op \in {"none", "start", "end"} /\ pc["trade"].op \in {"none", "rearm"}
           /\ pc["feed"].op = "none" <=> pc["feed"] = Idle
           /\ pc["trade"].op = "none" <=> pc["trade"] = Idle
           /\ pc["feed"].at = "idle" <=> pc["feed"] = Idle
           /\ pc["trade"].at = "idle" <=> pc["trade"] = Idle
           /\ pc["feed"].op = "end" => pc["feed"].at \in {"test", "cancel", "reset", "finish"}
<1>1. pc["feed"] = Idle \/ pc["feed"] \in [at : TimerSteps \cup {"finish"}, op : {"start"}]
      \/ pc["feed"] \in [at : {"test", "cancel", "reset", "finish"}, op : {"end"}]
  BY DEF TypeOK, FeedStates
<1>2. pc["trade"] = Idle \/ pc["trade"] \in [at : TimerSteps \cup {"spend"}, op : {"rearm"}]
  BY DEF TypeOK, TradeStates
<1> QED
  BY <1>1, <1>2 DEF Idle, TimerSteps

\* A step of the timer that only moves its thread on, or changes the timer: what it
\* leaves alone.
Elsewhere(t) ==
    /\ \A u \in Threads : u # t => pc'[u] = pc[u]
    /\ UNCHANGED <<program, received, session, is_running, budget, overtaken>>

\* A step inside a handler of thread t keeps the types.
LEMMA InnerType ==
    ASSUME TypeOK, NEW t \in Threads, Elsewhere(t), pc[t].at \in TimerSteps,
           pc' \in [Threads -> [at : Steps, op : Operations]],
           pc'[t].op = pc[t].op,
           \/ pc'[t].at \in {"cancel", "reset"}
           \/ pc'[t].at \in {"arm", "schedule"} /\ pc[t].op # "end"
           \/ pc'[t].at = "finish" /\ t = "feed",
           flag' \in BOOLEAN, waits' \in Nat, ready' \in Nat
    PROVE  TypeOK'
<1>1. Feeds' = Feeds
  BY DEF Elsewhere, Feeds
<1>2. pc'[t] = [at |-> pc'[t].at, op |-> pc'[t].op]
  OBVIOUS
<1>3. pc[t].at # "idle"
  BY DEF TimerSteps
<1>4. pc'["feed"] \in FeedStates
  <2>1. CASE t = "feed"
    <3>1. pc["feed"].op \in {"start", "end"}
      BY <2>1, <1>3, ThreadStates
    <3> QED
      BY <3>1, <2>1, <1>2 DEF FeedStates, TimerSteps
  <2>2. CASE t # "feed"
    BY <2>2 DEF Elsewhere, TypeOK, Threads
  <2> QED
    BY <2>1, <2>2
<1>5. pc'["trade"] \in TradeStates
  <2>1. CASE t = "trade"
    <3>1. pc["trade"].op = "rearm"
      BY <2>1, <1>3, ThreadStates
    <3> QED
      BY <3>1, <2>1, <1>2 DEF TradeStates, TimerSteps
  <2>2. CASE t # "trade"
    BY <2>2 DEF Elsewhere, TypeOK, Threads
  <2> QED
    BY <2>1, <2>2
<1> QED
  BY <1>1, <1>4, <1>5 DEF TypeOK, Elsewhere, budget

-----------------------------------------------------------------------------
(* The steps of the timer.                                                 *)

\* What a step of the timer that schedules nothing does: it moves its thread on
\* within the handler, and waits and completions do not come about.
Inner(t) ==
    /\ Elsewhere(t)
    /\ pc[t].at \in TimerSteps /\ pc[t].at # "schedule"
    /\ pc'[t].op = pc[t].op
    /\ pc'[t].at \in {"cancel", "reset", "arm", "schedule", "finish"}
    /\ pc'[t].at = "finish" => pc[t].op = "end"
    /\ ready' = ready /\ waits' \in {0, waits}

\* Test, CancelWaits, Reset and Arm are such steps.
LEMMA StepsAreInner ==
    ASSUME TypeOK, NEW t \in Threads, Test(t) \/ CancelWaits(t) \/ Reset(t) \/ Arm(t)
    PROVE  Inner(t) /\ TypeOK'
<1>0. pc[t].op = "end" => t = "feed" /\ pc[t].at \in {"test", "cancel", "reset", "finish"}
  BY ThreadStates DEF Threads
<1>5. flag \in BOOLEAN /\ waits \in Nat /\ ready \in Nat
  BY DEF TypeOK
<1>1. CASE Test(t)
  <2> DEFINE x == IF flag THEN "cancel" ELSE IF pc[t].op = "end" THEN "finish" ELSE "arm"
  <2>1. x \in Steps /\ Go(t, x)
    BY <1>1 DEF Test, Steps, TimerSteps
  <2>2. /\ pc' \in [Threads -> [at : Steps, op : Operations]]
        /\ pc'[t] = [at |-> x, op |-> pc[t].op]
        /\ \A u \in Threads : u # t => pc'[u] = pc[u]
    BY <2>1, GoProperties
  <2>3. Elsewhere(t) /\ pc[t].at = "test" /\ UNCHANGED timer
    BY <2>2, <1>1 DEF Test, Elsewhere, At
  <2>4. TypeOK'
    BY <2>2, <2>3, <1>0, <1>5, InnerType DEF timer, TimerSteps
  <2> QED
    BY <2>2, <2>3, <2>4 DEF Inner, TimerSteps, timer
<1>2. CASE CancelWaits(t)
  <2>1. "reset" \in Steps /\ Go(t, "reset")
    BY <1>2 DEF CancelWaits, Steps, TimerSteps
  <2>2. /\ pc' \in [Threads -> [at : Steps, op : Operations]]
        /\ pc'[t] = [at |-> "reset", op |-> pc[t].op]
        /\ \A u \in Threads : u # t => pc'[u] = pc[u]
    BY <2>1, GoProperties
  <2>3. Elsewhere(t) /\ pc[t].at = "cancel" /\ waits' = 0 /\ ready' = ready /\ flag' = flag
    BY <2>2, <1>2 DEF CancelWaits, Elsewhere, At
  <2>4. TypeOK'
    BY <2>2, <2>3, <1>0, <1>5, InnerType DEF TimerSteps
  <2> QED
    BY <2>2, <2>3, <2>4 DEF Inner, TimerSteps
<1>3. CASE Reset(t)
  <2> DEFINE x == IF pc[t].op = "end" THEN "finish" ELSE "arm"
  <2>1. x \in Steps /\ Go(t, x)
    BY <1>3 DEF Reset, Steps, TimerSteps
  <2>2. /\ pc' \in [Threads -> [at : Steps, op : Operations]]
        /\ pc'[t] = [at |-> x, op |-> pc[t].op]
        /\ \A u \in Threads : u # t => pc'[u] = pc[u]
    BY <2>1, GoProperties
  <2>3. Elsewhere(t) /\ pc[t].at = "reset" /\ waits' = waits /\ ready' = ready /\ flag' \in BOOLEAN
    BY <2>2, <1>3 DEF Reset, Elsewhere, At
  <2>4. TypeOK'
    BY <2>2, <2>3, <1>0, <1>5, InnerType DEF TimerSteps
  <2> QED
    BY <2>2, <2>3, <2>4 DEF Inner, TimerSteps
<1>4. CASE Arm(t)
  <2>1. "schedule" \in Steps /\ Go(t, "schedule")
    BY <1>4 DEF Arm, Steps, TimerSteps
  <2>2. /\ pc' \in [Threads -> [at : Steps, op : Operations]]
        /\ pc'[t] = [at |-> "schedule", op |-> pc[t].op]
        /\ \A u \in Threads : u # t => pc'[u] = pc[u]
    BY <2>1, GoProperties
  <2>3. Elsewhere(t) /\ pc[t].at = "arm" /\ waits' = waits /\ ready' = ready /\ flag' \in BOOLEAN
    BY <2>2, <1>4 DEF Arm, Elsewhere, At
  <2>4. TypeOK'
    BY <2>2, <2>3, <1>0, <1>5, InnerType DEF TimerSteps
  <2> QED
    BY <2>2, <2>3, <2>4 DEF Inner, TimerSteps
<1> QED
  BY <1>1, <1>2, <1>3, <1>4

\* Such a step keeps what the session, the chain and the budget rest on.
LEMMA InnerKeeps ==
    ASSUME Inv, TypeOK', NEW t \in Threads, Inner(t)
    PROVE  SessionInv' /\ ChainInv' /\ BudgetInv'
<1>0. /\ TypeOK /\ Elsewhere(t)
      /\ session' = session /\ is_running' = is_running /\ overtaken' = overtaken /\ Feeds' = Feeds
      /\ size' = size /\ volume' = volume /\ day' = day /\ ordered' = ordered
  BY DEF Inv, Inner, Elsewhere, budget, Feeds
<1>1. pc[t] # Idle /\ pc'[t] # Idle
  BY DEF Inner, Idle, TimerSteps
<1>2. pc'["feed"].op = pc["feed"].op
  BY <1>0 DEF Inner, Elsewhere, Threads
<1>3. SessionInv'
  BY <1>0, <1>2 DEF Inv, SessionInv
<1>4. ChainInv'
  <2>1. CASE t = "trade"
    BY <2>1, <1>1 DEF ChainInv, Alive
  <2>2. CASE t = "feed"
    BY <2>2, <1>0, <1>1, <1>2, ThreadStates DEF ChainInv, Inner
  <2> QED
    BY <2>1, <2>2 DEF Threads
<1>5. BudgetInv'
  <2>1. CASE t = "trade"
    <3>1. pc["trade"].at # "spend" /\ pc'["trade"].at # "spend"
      BY <2>1 DEF Inner, TimerSteps
    <3> QED
      BY <3>1, <1>0 DEF Inv, BudgetInv
  <2>2. CASE t = "feed"
    <3>1. pc'["trade"] = pc["trade"]
      BY <2>2, <1>0 DEF Elsewhere, Threads
    <3> QED
      BY <3>1, <1>0 DEF Inv, BudgetInv
  <2> QED
    BY <2>1, <2>2 DEF Threads
<1> QED
  BY <1>3, <1>4, <1>5


\* On one io_context, the steps of cancel and the flag they leave.
LEMMA InnerOneContext ==
    ASSUME Inv, TypeOK', NEW t \in Threads, Test(t) \/ CancelWaits(t) \/ Reset(t) \/ Arm(t), Inner(t)
    PROVE  OneContextInv'
<1> SUFFICES ASSUME OneThread' PROVE OneHandler'
  BY DEF OneContextInv
<1>0. OneThread /\ TypeOK /\ Elsewhere(t)
  BY DEF Inv, OneThread, Inner, Elsewhere
<1>1. /\ pc["feed"] = Idle \/ pc["trade"] = Idle
      /\ \A u \in Threads : pc[u].at \in {"reset", "arm", "schedule"} => waits = 0
      /\ \A u \in Threads : pc[u].at = "schedule" => flag
      /\ waits <= 1 /\ (waits > 0 => flag)
  BY <1>0 DEF Inv, OneContextInv, OneHandler
<1>2. pc[t] # Idle
  BY DEF Inner, Idle, TimerSteps
<1>3. \A u \in Threads : u # t => pc[u] = Idle /\ pc'[u] = Idle
  BY <1>0, <1>1, <1>2 DEF Elsewhere, Threads
<1>4. \A u \in Threads : u # t => pc'[u].at = "idle"
  BY <1>3 DEF Idle
<1>5. waits \in Nat /\ flag \in BOOLEAN /\ flag' \in BOOLEAN
  BY <1>0 DEF TypeOK
<1>6. pc'["feed"] = Idle \/ pc'["trade"] = Idle
  BY <1>3 DEF Threads
<1>7. /\ pc'[t].at \in {"reset", "arm", "schedule"} => waits' = 0
      /\ pc'[t].at = "schedule" => flag'
      /\ waits' <= 1 /\ (waits' > 0 => flag')
  <2>1. CASE Test(t)
    <3>1. /\ pc'[t].at = IF flag THEN "cancel" ELSE IF pc[t].op = "end" THEN "finish" ELSE "arm"
          /\ waits' = waits /\ flag' = flag
      BY <2>1, <1>0 DEF Test, Go, timer, TypeOK
    <3> QED
      BY <3>1, <1>1, <1>5
  <2>2. CASE CancelWaits(t)
    <3>1. pc'[t].at = "reset" /\ waits' = 0
      BY <2>2, <1>0 DEF CancelWaits, Go, TypeOK
    <3> QED
      BY <3>1, <1>5
  <2>3. CASE Reset(t)
    <3>1. pc'[t].at \in {"finish", "arm"} /\ waits' = waits /\ pc[t].at = "reset"
      BY <2>3, <1>0 DEF Reset, Go, TypeOK, At
    <3> QED
      BY <3>1, <1>1, <1>5
  <2>4. CASE Arm(t)
    <3>1. pc'[t].at = "schedule" /\ waits' = waits /\ pc[t].at = "arm" /\ flag'
      BY <2>4, <1>0 DEF Arm, Go, TypeOK, At
    <3> QED
      BY <3>1, <1>1, <1>5
  <2> QED
    BY <2>1, <2>2, <2>3, <2>4
<1> QED
  BY <1>4, <1>6, <1>7 DEF OneHandler

\* Scheduling the wait: the last step of the trading thread's handler, and the last
\* but one of start_strategy.
LEMMA ScheduleKeeps ==
    ASSUME Inv, NEW t \in Threads, Schedule(t)
    PROVE  Inv'
<1>0. TypeOK /\ pc[t].at = "schedule"
  BY DEF Inv, Schedule, At
<1> DEFINE r == IF pc[t].op = "rearm" THEN Idle ELSE [at |-> "finish", op |-> pc[t].op]
<1>1. r \in [at : Steps, op : Operations]
  BY <1>0, ThreadStates DEF Idle, Steps, Operations, Threads
<1>2. pc' = [pc EXCEPT ![t] = r]
  <2>1. pc[t] \in [at : Steps, op : Operations]
    BY <1>0 DEF TypeOK
  <2>2. [pc[t] EXCEPT !.at = "finish"] = [at |-> "finish", op |-> pc[t].op]
    BY <2>1
  <2> QED
    BY <2>2 DEF Schedule
<1>3. /\ pc' \in [Threads -> [at : Steps, op : Operations]]
      /\ pc'[t] = r
      /\ \A u \in Threads : u # t => pc'[u] = pc[u]
  BY <1>0, <1>1, <1>2, SetProperties
<1>4. /\ waits' = waits + 1 /\ waits \in Nat /\ flag \in BOOLEAN
      /\ UNCHANGED <<program, received, session, is_running, flag, ready, budget, overtaken>>
      /\ Feeds' = Feeds
  BY <1>0 DEF Schedule, TypeOK, Feeds
<1>5. /\ t = "feed"  => /\ pc["feed"].op = "start" /\ pc'["feed"] = [at |-> "finish", op |-> "start"]
                        /\ pc'["trade"] = pc["trade"]
      /\ t = "trade" => pc["trade"] # Idle /\ pc'["trade"] = Idle /\ pc'["feed"] = pc["feed"]
  BY <1>0, <1>3, ThreadStates DEF Threads
<1>6. TypeOK'
  <2>1. pc'["feed"] \in FeedStates /\ pc'["trade"] \in TradeStates
    BY <1>0, <1>5 DEF TypeOK, FeedStates, TradeStates, Threads
  <2> QED
    BY <1>0, <1>3, <1>4, <2>1 DEF TypeOK, budget
<1>7. SessionInv'
  <2>1. pc'["feed"].op = pc["feed"].op
    BY <1>5 DEF Threads
  <2> QED
    BY <2>1, <1>4 DEF Inv, SessionInv
<1>8. ChainInv'
  BY <1>4 DEF ChainInv, Alive
<1>9. BudgetInv'
  <2>1. CASE t = "feed"
    BY <2>1, <1>4, <1>5 DEF Inv, BudgetInv, budget
  <2>2. CASE t = "trade"
    <3>1. pc'["trade"].at # "spend" /\ pc["trade"].at # "spend"
      BY <2>2, <1>0, <1>5 DEF Idle
    <3> QED
      BY <3>1, <1>4 DEF Inv, BudgetInv, budget
  <2> QED
    BY <2>1, <2>2 DEF Threads
<1>10. OneContextInv'
  <2> SUFFICES ASSUME OneThread' PROVE OneHandler'
    BY DEF OneContextInv
  <2>0. OneThread
    BY <1>4 DEF OneThread
  <2>1. /\ pc["feed"] = Idle \/ pc["trade"] = Idle
        /\ waits = 0 /\ flag
    BY <2>0, <1>0 DEF Inv, OneContextInv, OneHandler
  <2>2. waits' = 1 /\ flag'
    BY <2>1, <1>4
  <2>3. pc[t] # Idle
    BY <1>0 DEF Idle
  <2>4. pc'["feed"] = Idle \/ pc'["trade"] = Idle
    BY <2>1, <2>3, <1>5 DEF Threads
  <2>5. \A u \in Threads : pc'[u].at \notin {"reset", "arm", "schedule"}
    <3>1. \A u \in Threads : u # t => pc'[u] = Idle
      BY <2>1, <2>3, <1>3 DEF Threads
    <3>2. pc'[t].at \in {"idle", "finish"}
      BY <1>3 DEF Idle
    <3> QED
      BY <3>1, <3>2 DEF Idle
  <2> QED
    BY <2>2, <2>4, <2>5 DEF OneHandler
<1> QED
  BY <1>6, <1>7, <1>8, <1>9, <1>10 DEF Inv

\* The waits complete.
LEMMA ExpireKeeps ==
    ASSUME Inv, Expire
    PROVE  Inv'
<1>0. /\ TypeOK /\ waits > 0 /\ waits \in Nat /\ ready \in Nat
      /\ ready' = ready + waits /\ waits' = 0 /\ pc' = pc
      /\ UNCHANGED <<program, received, session, is_running, flag, budget, overtaken>>
      /\ Feeds' = Feeds
  BY DEF Inv, Expire, TypeOK, Feeds
<1>1. TypeOK'
  BY <1>0 DEF TypeOK, budget
<1>2. SessionInv'
  BY <1>0 DEF Inv, SessionInv
<1>3. ChainInv'
  BY <1>0 DEF ChainInv, Alive
<1>4. OneContextInv'
  BY <1>0 DEF Inv, OneContextInv, OneHandler, OneThread
<1>5. BudgetInv'
  BY <1>0 DEF Inv, BudgetInv, budget
<1> QED
  BY <1>1, <1>2, <1>3, <1>4, <1>5 DEF Inv

-----------------------------------------------------------------------------
(* The feed's handlers.                                                    *)

\* The first step of the handler of a session message.
LEMMA SessionMessageKeeps ==
    ASSUME Inv, NEW f \in Feeds, StartOfSession(f) \/ EndOfSession(f)
    PROVE  Inv'
<1>0. TypeOK /\ pc["feed"] = Idle /\ pc["feed"].op = "none" /\ pc["feed"].at = "idle"
  BY DEF Inv, StartOfSession, EndOfSession, CanBegin, Idle
<1>1. /\ UNCHANGED <<program, is_running, timer, volume>> /\ Feeds' = Feeds
      /\ received' = received + 1 /\ received \in Nat
      /\ session \in [Feeds -> BOOLEAN] /\ session' \in [Feeds -> BOOLEAN]
  BY <1>0 DEF StartOfSession, EndOfSession, TypeOK, Feeds, budget
<1>2. is_running <=> \A g \in Feeds : session[g]
  BY <1>0 DEF Inv, SessionInv
<1> DEFINE starts == StartOfSession(f) /\ ~is_running /\ AllActive(session')
           ends   == EndOfSession(f) /\ is_running /\ ~AllActive(session')
           r      == [at |-> "test", op |-> IF starts THEN "start" ELSE "end"]
<1>3. CASE ~starts /\ ~ends
  <2>1. pc' = pc /\ UNCHANGED <<budget, overtaken>>
    BY <1>3, <1>1 DEF StartOfSession, EndOfSession, budget
  <2>2. is_running <=> \A g \in Feeds : session'[g]
    <3>1. CASE StartOfSession(f)
      <4>1. \A g \in Feeds : session[g] => session'[g]
        BY <3>1, <1>0 DEF StartOfSession, TypeOK
      <4> QED
        BY <3>1, <4>1, <1>2, <1>3 DEF AllActive, Feeds
    <3>2. CASE EndOfSession(f)
      <4>1. \A g \in Feeds : session'[g] => session[g]
        BY <3>2, <1>0 DEF EndOfSession, TypeOK
      <4> QED
        BY <3>2, <4>1, <1>2, <1>3 DEF AllActive
    <3> QED
      BY <3>1, <3>2
  <2>3. TypeOK'
    BY <2>1, <1>0, <1>1 DEF TypeOK, timer, budget
  <2>4. SessionInv'
    BY <2>1, <2>2, <1>0, <1>1 DEF SessionInv
  <2>5. ChainInv' /\ BudgetInv'
    BY <2>1, <1>1 DEF Inv, ChainInv, BudgetInv, Alive, timer, budget
  <2>6. OneContextInv'
    BY <2>1, <1>1 DEF Inv, OneContextInv, OneThread, OneHandler, timer
  <2> QED
    BY <2>3, <2>4, <2>5, <2>6 DEF Inv
<1>4. CASE starts \/ ends
  <2>1. pc' = [pc EXCEPT !["feed"] = r]
    BY <1>4 DEF StartOfSession, EndOfSession
  <2>2. r \in [at : Steps, op : Operations]
    BY DEF Steps, TimerSteps, Operations
  <2>3. /\ pc' \in [Threads -> [at : Steps, op : Operations]]
        /\ pc'["feed"] = r /\ pc'["trade"] = pc["trade"]
    BY <2>1, <2>2, <1>0, SetProperties DEF Threads
  <2>0. \A n \in Sizes : n \in 0..(Wrap - 1) /\ n \in Nat
    <3>1. \A n \in 0..(Wrap - 1) : n \in Nat
      BY WrapAssumption
    <3> QED
      BY <3>1, SizesAssumption
  <2>4. /\ starts => size' \in Sizes /\ day' = size' /\ ordered' = 0
        /\ ends => UNCHANGED <<budget, overtaken>>
    BY DEF StartOfSession, EndOfSession
  <2>5. TypeOK'
    <3>1. pc'["feed"] \in FeedStates
      BY <2>3 DEF FeedStates, TimerSteps
    <3>2. /\ size' \in 0..(Wrap - 1) /\ day' \in Nat /\ ordered' \in Nat
          /\ overtaken' \in BOOLEAN
      <4>1. CASE starts
        BY <4>1, <2>0, <2>4 DEF StartOfSession, At
      <4>2. CASE ends
        BY <4>2, <2>4, <1>0 DEF TypeOK, budget
      <4> QED
        BY <4>1, <4>2, <1>4
    <3> QED
      BY <2>3, <3>1, <3>2, <1>0, <1>1 DEF TypeOK, timer
  <2>6. SessionInv'
    BY <2>3, <1>1, <1>4 DEF SessionInv, AllActive
  <2>7. ChainInv'
    BY <2>3, <1>4 DEF ChainInv
  <2>8. BudgetInv'
    <3>1. CASE starts
      <4>1. /\ overtaken' <=> pc["trade"].at = "spend"
            /\ day' = size' /\ ordered' = 0 /\ size' \in Nat
        BY <3>1, <2>0, <2>4 DEF StartOfSession, At
      <4>2. \A x \in Nat : 0 + x = x
        OBVIOUS
      <4>3. ordered' + size' = day'
        BY <4>1, <4>2, Zenon
      <4> QED
        BY <4>1, <4>3, <2>3, Zenon DEF BudgetInv
    <3>2. CASE ends
      <4>1. UNCHANGED budget
        BY <3>2, <2>4
      <4> QED
        BY <3>2, <4>1, <2>3, <2>4 DEF Inv, BudgetInv, budget
    <3> QED
      BY <3>1, <3>2, <1>4
  <2>9. OneContextInv'
    <3> SUFFICES ASSUME OneThread' PROVE OneHandler'
      BY DEF OneContextInv
    <3>0. OneThread
      BY <1>1 DEF OneThread
    <3>1. pc["trade"] = Idle
      BY <3>0 DEF StartOfSession, EndOfSession, CanBegin, Threads
    <3>2. waits <= 1 /\ (waits > 0 => flag)
      BY <3>0 DEF Inv, OneContextInv, OneHandler
    <3>3. \A t \in Threads : pc'[t].at \in {"idle", "test"}
      BY <2>3, <3>1 DEF Threads, Idle
    <3> QED
      BY <3>1, <3>2, <3>3, <2>3, <1>1 DEF OneHandler, timer
  <2> QED
    BY <2>5, <2>6, <2>7, <2>8, <2>9 DEF Inv
<1> QED
  BY <1>3, <1>4

\* The last step: is_running is set.
LEMMA FinishKeeps ==
    ASSUME Inv, Finish
    PROVE  Inv'
<1>0. TypeOK /\ pc["feed"].at = "finish"
  BY DEF Inv, Finish, At
<1>1. pc["feed"].op \in {"start", "end"}
  BY <1>0, ThreadStates
<1>2. Idle \in [at : Steps, op : Operations]
  BY DEF Idle, Steps, Operations
<1>3. /\ pc' \in [Threads -> [at : Steps, op : Operations]]
      /\ pc'["feed"] = Idle /\ pc'["trade"] = pc["trade"]
  BY <1>0, <1>2, SetProperties DEF Finish, Threads
<1>4. /\ UNCHANGED <<program, received, session, timer, budget, overtaken>> /\ Feeds' = Feeds
      /\ is_running' \in BOOLEAN
      /\ is_running' <=> pc["feed"].op = "start"
  BY <1>0 DEF Finish, TypeOK, Feeds
<1>5. TypeOK'
  <2>1. pc'["feed"] \in FeedStates
    BY <1>3 DEF FeedStates
  <2> QED
    BY <2>1, <1>0, <1>3, <1>4 DEF TypeOK, timer, budget
<1>6. SessionInv'
  BY <1>1, <1>3, <1>4 DEF Inv, SessionInv, Idle
<1>7. ChainInv'
  BY <1>0, <1>1, <1>3, <1>4 DEF Inv, ChainInv, Idle, Alive, timer
<1>8. BudgetInv'
  BY <1>0, <1>1, <1>3, <1>4 DEF Inv, BudgetInv, timer, budget
<1>9. OneContextInv'
  <2>1. pc'["feed"].at = "idle"
    BY <1>3 DEF Idle
  <2> QED
    BY <2>1, <1>3, <1>4 DEF Inv, OneContextInv, OneThread, OneHandler, Threads, timer
<1> QED
  BY <1>5, <1>6, <1>7, <1>8, <1>9 DEF Inv

-----------------------------------------------------------------------------
(* The handler of a completed wait.                                        *)

\* It starts: the strategy passes, or places an order it has the budget for.
LEMMA BeginKeeps ==
    ASSUME Inv, Begin
    PROVE  Inv'
<1>0. /\ TypeOK /\ pc["trade"] = Idle /\ pc["trade"].at = "idle" /\ pc["trade"].at # "spend"
      /\ ready \in Nat /\ ready > 0 /\ ready' = ready - 1
  BY DEF Inv, Begin, Pass, Act, CanBegin, Idle, TypeOK
<1>1. /\ UNCHANGED <<program, received, session, is_running, flag, waits, size, day, overtaken>>
      /\ Feeds' = Feeds
  BY DEF Begin, Pass, Act, Feeds, budget
<1> DEFINE r(x) == [at |-> x, op |-> "rearm"]
<1>2. PICK x \in {"test", "spend"} :
          /\ pc' = [pc EXCEPT !["trade"] = r(x)]
          /\ x = "test" => volume' = volume /\ ordered' = ordered
          /\ x = "spend" => \E v \in Volumes : v > 0 /\ volume' = Clamp(v) /\ ordered' = ordered + Clamp(v)
  BY DEF Begin, Pass, Act, budget
<1>3. r(x) \in [at : Steps, op : Operations]
  BY DEF Steps, TimerSteps, Operations
<1>4. /\ pc' \in [Threads -> [at : Steps, op : Operations]]
      /\ pc'["trade"] = r(x) /\ pc'["feed"] = pc["feed"]
  BY <1>0, <1>2, <1>3, SetProperties DEF Threads
<1>5. x = "spend" => volume' \in Nat /\ volume' <= size /\ ordered' = ordered + volume'
  <2> SUFFICES ASSUME NEW v \in Volumes, volume' = Clamp(v), ordered' = ordered + Clamp(v)
               PROVE  volume' \in Nat /\ volume' <= size /\ ordered' = ordered + volume'
    BY <1>2
  <2>1. v \in Nat /\ size \in Nat
    BY <1>0, SizesAssumption, WrapAssumption DEF TypeOK
  <2>2. \E m \in {v, size} : \A y \in {v, size} : m <= y
    BY <2>1
  <2>3. Clamp(v) \in {v, size} /\ \A y \in {v, size} : Clamp(v) <= y
    BY <2>2 DEF Clamp, Min
  <2> QED
    BY <2>1, <2>3
<1>6. TypeOK'
  <2>1. pc'["trade"] \in TradeStates
    BY <1>4 DEF TradeStates, TimerSteps
  <2>2. volume' \in Nat /\ ordered' \in Nat
    BY <1>0, <1>2, <1>5 DEF TypeOK
  <2> QED
    BY <2>1, <2>2, <1>0, <1>1, <1>4 DEF TypeOK
<1>7. SessionInv'
  BY <1>1, <1>4 DEF Inv, SessionInv
<1>8. ChainInv'
  BY <1>4 DEF ChainInv, Alive, Idle
<1>9. BudgetInv'
  <2> SUFFICES ASSUME ~overtaken' PROVE BudgetInv'
    BY DEF BudgetInv
  <2>1. ordered + size = day
    BY <1>0, <1>1 DEF Inv, BudgetInv
  <2>2. size \in Nat /\ day \in Nat /\ ordered \in Nat
    BY <1>0, WrapAssumption DEF TypeOK
  <2> QED
    BY <2>1, <2>2, <1>1, <1>2, <1>4, <1>5 DEF BudgetInv
<1>10. OneContextInv'
  <2> SUFFICES ASSUME OneThread' PROVE OneHandler'
    BY DEF OneContextInv
  <2>0. OneThread
    BY <1>1 DEF OneThread
  <2>1. pc["feed"] = Idle
    BY <2>0 DEF Begin, Pass, Act, CanBegin, Threads
  <2>2. waits <= 1 /\ (waits > 0 => flag)
    BY <2>0 DEF Inv, OneContextInv, OneHandler
  <2>3. \A t \in Threads : pc'[t].at \in {"idle", "test", "spend"}
    BY <2>1, <1>4 DEF Threads, Idle
  <2> QED
    BY <2>1, <2>2, <2>3, <1>1, <1>4 DEF OneHandler
<1> QED
  BY <1>6, <1>7, <1>8, <1>9, <1>10 DEF Inv

\* The order is taken off the budget.
LEMMA SpendKeeps ==
    ASSUME Inv, Spend
    PROVE  Inv'
<1>0. /\ TypeOK /\ pc["trade"].at = "spend" /\ Go("trade", "test")
      /\ UNCHANGED <<program, received, session, is_running, timer, volume, day, ordered, overtaken>>
      /\ Feeds' = Feeds
  BY DEF Inv, Spend, At, Feeds
<1>1. pc["trade"].op = "rearm" /\ pc["trade"] # Idle
  BY <1>0, ThreadStates DEF Idle
<1>2. "test" \in Steps
  BY DEF Steps, TimerSteps
<1>3. /\ pc' \in [Threads -> [at : Steps, op : Operations]]
      /\ pc'["trade"] = [at |-> "test", op |-> "rearm"] /\ pc'["feed"] = pc["feed"]
  BY <1>0, <1>1, <1>2, GoProperties DEF Threads
<1>4. /\ size \in Nat /\ size < Wrap /\ volume \in Nat /\ Wrap \in Nat \ {0}
      /\ day \in Nat /\ ordered \in Nat
      /\ size' = (size - volume) % Wrap
  BY <1>0, WrapAssumption DEF TypeOK, Spend
<1>5. size' \in 0..(Wrap - 1)
  BY <1>4
<1>6. volume <= size => size' = size - volume
  BY <1>4
<1>7. TypeOK'
  <2>1. pc'["trade"] \in TradeStates
    BY <1>3 DEF TradeStates, TimerSteps
  <2> QED
    BY <2>1, <1>0, <1>3, <1>5 DEF TypeOK, timer
<1>8. SessionInv'
  BY <1>0, <1>3 DEF Inv, SessionInv
<1>9. ChainInv'
  BY <1>3 DEF ChainInv, Alive, Idle
<1>10. BudgetInv'
  <2> SUFFICES ASSUME ~overtaken' PROVE BudgetInv'
    BY DEF BudgetInv
  <2>1. volume <= size /\ ordered + size = day + volume
    BY <1>0 DEF Inv, BudgetInv
  <2>2. ordered' + size' = day'
    BY <2>1, <1>0, <1>4, <1>6
  <2> QED
    BY <2>2, <1>3 DEF BudgetInv
<1>11. OneContextInv'
  <2> SUFFICES ASSUME OneThread' PROVE OneHandler'
    BY DEF OneContextInv
  <2>0. OneThread
    BY <1>0 DEF OneThread
  <2>1. pc["feed"] = Idle /\ waits <= 1 /\ (waits > 0 => flag)
    BY <2>0, <1>1 DEF Inv, OneContextInv, OneHandler
  <2>2. \A t \in Threads : pc'[t].at \in {"idle", "test"}
    BY <2>1, <1>3 DEF Threads, Idle
  <2> QED
    BY <2>1, <2>2, <1>0, <1>3 DEF OneHandler, timer
<1> QED
  BY <1>7, <1>8, <1>9, <1>10, <1>11 DEF Inv

-----------------------------------------------------------------------------
(* The theorems.                                                           *)

\* The invariant holds initially.
LEMMA InitInv ==
    ASSUME Init
    PROVE  Inv
<1>0. /\ pc["feed"] = Idle /\ pc["trade"] = Idle /\ Idle \in [at : Steps, op : Operations]
      /\ Idle.at = "idle" /\ Idle.op = "none"
  BY DEF Init, Threads, Idle, Steps, Operations
<1>1. TypeOK
  <2>1. 0 \in 0..(Wrap - 1)
    BY WrapAssumption
  <2>2. session \in [Feeds -> BOOLEAN] /\ pc \in [Threads -> [at : Steps, op : Operations]]
    BY <1>0 DEF Init
  <2> QED
    BY <1>0, <2>1, <2>2 DEF Init, TypeOK, FeedStates, TradeStates
<1>2. SessionInv
  <2>1. "A" \in Feeds
    BY DEF Feeds
  <2> QED
    BY <2>1, <1>0 DEF Init, SessionInv
<1>3. ChainInv /\ BudgetInv
  BY <1>0 DEF Init, ChainInv, BudgetInv
<1>4. OneContextInv
  BY <1>0 DEF Init, OneContextInv, OneHandler, Threads
<1> QED
  BY <1>1, <1>2, <1>3, <1>4 DEF Inv

\* Every step keeps it.
LEMMA NextInv ==
    ASSUME Inv, [Next]_vars
    PROVE  Inv'
<1>1. ASSUME NEW t \in Threads, Step(t) PROVE Inv'
  <2>1. CASE Schedule(t)
    BY <2>1, ScheduleKeeps
  <2>2. CASE Test(t) \/ CancelWaits(t) \/ Reset(t) \/ Arm(t)
    <3>1. TypeOK
      BY DEF Inv
    <3>2. Inner(t) /\ TypeOK'
      BY <3>1, <2>2, StepsAreInner
    <3>3. SessionInv' /\ ChainInv' /\ BudgetInv'
      BY <3>2, InnerKeeps
    <3>4. OneContextInv'
      BY <3>2, <2>2, InnerOneContext
    <3> QED
      BY <3>2, <3>3, <3>4 DEF Inv
  <2> QED
    BY <1>1, <2>1, <2>2 DEF Step
<1>2. CASE UNCHANGED vars
  <2>1. Feeds' = Feeds
    BY <1>2 DEF vars, Feeds
  <2> QED
    BY <1>2, <2>1 DEF vars, timer, budget, Inv, TypeOK, SessionInv, ChainInv, Alive,
                      OneContextInv, OneThread, OneHandler, BudgetInv
<1> QED
  BY <1>1, <1>2, FinishKeeps, SpendKeeps, ExpireKeeps, BeginKeeps, SessionMessageKeeps DEF Next

\* The invariant holds in every state.
LEMMA Invariant == Spec => []Inv
<1>1. Init => Inv
  BY InitInv
<1>2. Inv /\ [Next]_vars => Inv'
  BY NextInv
<1> QED
  BY <1>1, <1>2, PTL DEF Spec

\* Whichever session messages are lost or repeated, and whatever the trading thread
\* does meanwhile, once did_receive has returned the strategy runs exactly when all
\* of its markets are in session.
THEOREM RunsInSessionCorrect == Spec => []RunsInSession
<1>1. Inv => RunsInSession
  BY DEF Inv, SessionInv, RunsInSession, Idle
<1> QED
  BY <1>1, Invariant, PTL

\* However the feed thread's expires_after and cancel interleave with those of the
\* trading thread, a running strategy has a wait, a completion or a handler that
\* carries its chain on.
THEOREM NeverStarvesCorrect == Spec => []NeverStarves
<1>1. Inv => NeverStarves
  BY DEF Inv, ChainInv, NeverStarves, Idle
<1> QED
  BY <1>1, Invariant, PTL

\* A strategy whose handlers share one io_context never has two waits pending, and
\* cancel finds the one it has.
THEOREM OneWaitCorrect == Spec => []OneWait
<1>1. Inv => OneWait
  BY DEF Inv, OneContextInv, OneHandler, OneWait
<1> QED
  BY <1>1, Invariant, PTL

\* In every session that the feed thread does not start in the middle of an order, a
\* liquidity consumer orders no more than it drew, whatever volumes the market shows
\* and whatever chains of earlier sessions are left: size never wraps around.
THEOREM BudgetKeptCorrect == Spec => []BudgetKept
<1>1. Inv => BudgetKept
  BY WrapAssumption DEF Inv, TypeOK, BudgetInv, BudgetKept
<1> QED
  BY <1>1, Invariant, PTL
=============================================================================
