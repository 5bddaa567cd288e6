----------------------------- MODULE WriteLoop -----------------------------
(***************************************************************************)
(* The output buffer that OrderEntry::Connection, OrderEntry::Client and   *)
(* DataFeed::Sender each keep, and the loop of asynchronous writes that    *)
(* empties it.                                                             *)
(*                                                                         *)
(* A write is started with a reference to the message at the front of the  *)
(* buffer.  The operating system takes the message some time later, or     *)
(* fails; the completion handler runs some time after that.  In between,   *)
(* the handlers of other events may send any number of messages.           *)
(***************************************************************************)
EXTENDS Naturals, Sequences

CONSTANT MaxSends   \* bound on the messages sent

ASSUME MaxSendsAssumption == MaxSends \in Nat

Owners == {"Connection", "Client", "Sender"}

VARIABLES
    owner,                \* the class the buffer is part of
    sequence,             \* the number of the next message, counted from 0
    output_buffer,        \* the numbers of the messages in the buffer
    output_buffer_size,   \* the counter beside it
    writes,               \* the writes started and not completed: message and state
    stream,               \* the messages the operating system has taken
    failed,               \* a write has failed
    running               \* no exception has ended the owner's process

loopVars ==
    <<owner, sequence, output_buffer, output_buffer_size, writes, stream, failed, running>>

\* A write that has been started and not completed.
Write == [message : Nat, state : {"pending", "taken", "error"}]

WriteOf(m, st) == [message |-> m, state |-> st]

Pending(m) == WriteOf(m, "pending")

Init ==
    /\ owner \in Owners
    /\ sequence = 0
    /\ output_buffer = << >>
    /\ output_buffer_size = 0
    /\ writes = << >>
    /\ stream = << >>
    /\ failed = FALSE
    /\ running = TRUE

\* Fault: the loop is started again when there is one message to be sent before.
Fault_Starts(n) == n <= 2

\* send starts the loop for the first message in the buffer.
Starts(n) == n = 1

\* send, of all three classes, and Client::send_sync, which is the same: it does
\* not wait for the message either.
Send ==
    /\ running
    /\ sequence < MaxSends
    /\ output_buffer' = Append(output_buffer, sequence)
    /\ sequence' = sequence + 1
    /\ output_buffer_size' = output_buffer_size + 1
    /\ writes' = IF Starts(output_buffer_size + 1)
                 THEN Append(writes, Pending(Head(output_buffer')))
                 ELSE writes
    /\ UNCHANGED <<owner, stream, failed, running>>

\* The operating system takes the message of the i-th write.
Take(i) ==
    /\ running
    /\ writes[i].state = "pending"
    /\ stream' = Append(stream, writes[i].message)
    /\ writes' = [writes EXCEPT ![i] = WriteOf(@.message, "taken")]
    /\ UNCHANGED <<owner, sequence, output_buffer, output_buffer_size, failed, running>>

\* The i-th write fails: the peer is gone, or the network is.
Fail(i) ==
    /\ running
    /\ writes[i].state = "pending"
    /\ writes' = [writes EXCEPT ![i] = WriteOf(@.message, "error")]
    /\ failed' = TRUE
    /\ UNCHANGED <<owner, sequence, output_buffer, output_buffer_size, stream, running>>

\* Fault: the loop stops when one message is left.
Fault_Continues(n) == n > 1

\* The completion handler goes on while there are messages.
Continues(n) == n # 0

\* The i-th write is off the list.
Without(i) == SubSeq(writes, 1, i - 1) \o SubSeq(writes, i + 1, Len(writes))

\* The completion handler, without an error.
Complete(i) ==
    /\ running
    /\ writes[i].state = "taken"
    /\ output_buffer' = Tail(output_buffer)
    /\ output_buffer_size' = output_buffer_size - 1
    /\ writes' = IF Continues(output_buffer_size - 1)
                 THEN Append(Without(i), Pending(Head(output_buffer')))
                 ELSE Without(i)
    /\ UNCHANGED <<owner, sequence, stream, failed, running>>

\* Fault: after an error the loop is started again by the next message.
Fault_CompleteError(i) ==
    /\ running
    /\ writes[i].state = "error"
    /\ writes' = Without(i)
    /\ output_buffer' = << >> /\ output_buffer_size' = 0
    /\ running' = (owner = "Connection")
    /\ UNCHANGED <<owner, sequence, stream, failed>>

\* The completion handler, with an error.  Connection logs it and returns: the
\* message stays in the buffer, so that no later send starts the loop.  Client and
\* Sender throw, which ends the process.
CompleteError(i) ==
    /\ running
    /\ writes[i].state = "error"
    /\ writes' = Without(i)
    /\ running' = (owner = "Connection")
    /\ UNCHANGED <<owner, sequence, output_buffer, output_buffer_size, stream, failed>>

Handle(i) == Complete(i) \/ CompleteError(i)

Next == Send \/ \E i \in DOMAIN writes : Take(i) \/ Fail(i) \/ Handle(i)

Spec == Init /\ [][Next]_loopVars

\* The operating system takes or refuses what it is given, and the event loop runs
\* the completions.
FairSpec ==
    /\ Spec
    /\ WF_loopVars(\E i \in DOMAIN writes : Take(i) \/ Fail(i))
    /\ WF_loopVars(\E i \in DOMAIN writes : Handle(i))

-----------------------------------------------------------------------------
(* Properties                                                              *)

LoopTypeOK ==
    /\ owner \in Owners
    /\ sequence \in Nat /\ output_buffer_size \in Nat
    /\ output_buffer \in Seq(Nat) /\ stream \in Seq(Nat)
    /\ writes \in Seq(Write)
    /\ failed \in BOOLEAN /\ running \in BOOLEAN

\* At most one write is under way, and it is for the front of the buffer: that is
\* what makes it right that the completion handler pops the front.  The counter is
\* the length of the buffer, and the loop is running exactly when there is something
\* to send, until a write fails: an error leaves messages in the buffer, and with
\* them the loop stopped for good.
OneWrite ==
    /\ LoopTypeOK
    /\ output_buffer_size = Len(output_buffer)
    /\ Len(writes) <= 1
    /\ \A i \in DOMAIN writes : output_buffer # << >> /\ writes[i].message = Head(output_buffer)
    /\ IF failed THEN output_buffer # << >> /\ \A i \in DOMAIN writes : writes[i].state = "error"
       ELSE /\ writes # << >> <=> output_buffer # << >>
            /\ running /\ \A i \in DOMAIN writes : writes[i].state # "error"

\* The front of the buffer has been taken and not yet popped.
Taken == \E i \in DOMAIN writes : writes[i].state = "taken"

\* The buffer as its users see it.
Box == INSTANCE Outbox WITH outbox <- IF Taken THEN Tail(output_buffer) ELSE output_buffer,
                            inbox <- stream, broken <- failed

\* What is sent arrives once and in order, however sends, transfers and completions
\* interleave; after a failed write nothing arrives, although a Connection goes on
\* accepting messages.
ImplementsOutbox == Box!Spec

\* The loop does not fall asleep: every message gets out, or a write has failed.
Drains == []<>(output_buffer = << >> \/ failed)
=============================================================================
