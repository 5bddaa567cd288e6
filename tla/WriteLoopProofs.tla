-------------------------- MODULE WriteLoopProofs --------------------------
(***************************************************************************)
(* Proofs about WriteLoop, for any number of messages: at most one write   *)
(* is under way and it is for the front of the buffer (OneWrite), and what *)
(* is sent arrives once and in order (ImplementsOutbox).                   *)
(*                                                                         *)
(* OneWrite is inductive.  The refinement also needs that the numbers of   *)
(* the messages are consecutive: Numbered.                                 *)
(***************************************************************************)
EXTENDS WriteLoop, SequenceTheorems, TLAPS

\* What the mapping to Outbox makes of the buffer.
Unsent == IF Taken THEN Tail(output_buffer) ELSE output_buffer

\* The next message's number counts the messages that have arrived and those that
\* are still to be sent.
Numbered == sequence = Len(stream) + Len(Unsent)

LoopInv == OneWrite /\ Numbered

-----------------------------------------------------------------------------
(* Sequences                                                               *)

\* A sequence of length 1 is its first element.
LEMMA OneElement ==
    ASSUME NEW S, NEW s \in Seq(S), NEW i \in DOMAIN s, Len(s) <= 1
    PROVE  i = 1 /\ Len(s) = 1 /\ s = <<s[1]>> /\ s[1] \in S
  <1>1. Len(s) \in Nat /\ DOMAIN s = 1 .. Len(s)
    OBVIOUS
  <1>2. i = 1 /\ Len(s) = 1
    BY <1>1
  <1>3. s[1] \in S
    BY <1>2, <1>1
  <1> QED
    BY <1>2, <1>3

\* Taking the only element out of a sequence leaves nothing.
LEMMA NothingLeft ==
    ASSUME NEW S, NEW s \in Seq(S), Len(s) = 1
    PROVE  SubSeq(s, 1, 0) \o SubSeq(s, 2, Len(s)) = << >>
  OBVIOUS

\* What Head and Tail are of a sequence that something is appended to.
LEMMA AppendEnds ==
    ASSUME NEW s \in Seq(Nat), NEW n \in Nat
    PROVE  /\ Append(s, n) \in Seq(Nat)
           /\ Append(s, n) # << >>
           /\ Len(Append(s, n)) = Len(s) + 1
           /\ s = << >> => Head(Append(s, n)) = n /\ Tail(Append(s, n)) = << >>
           /\ s # << >> => /\ Head(Append(s, n)) = Head(s)
                           /\ Tail(Append(s, n)) = Append(Tail(s), n)
  <1>1. /\ Append(s, n) \in Seq(Nat) /\ Append(s, n) # << >>
        /\ Len(Append(s, n)) = Len(s) + 1
    BY AppendProperties
  <1>2. /\ Head(Append(s, n)) = IF s = << >> THEN n ELSE Head(s)
        /\ Tail(Append(s, n)) = IF s = << >> THEN << >> ELSE Append(Tail(s), n)
    BY HeadTailAppend
  <1> QED
    BY <1>1, <1>2, Zenon

\* What Tail does to the length.
LEMMA TailLength ==
    ASSUME NEW s \in Seq(Nat), s # << >>
    PROVE  /\ Head(s) \in Nat /\ Tail(s) \in Seq(Nat)
           /\ Len(s) \in Nat \ {0} /\ Len(Tail(s)) = Len(s) - 1
           /\ Len(s) = 1 <=> Tail(s) = << >>
  <1>1. Head(s) \in Nat /\ Tail(s) \in Seq(Nat) /\ Len(Tail(s)) = Len(s) - 1
    BY HeadTailProperties
  <1>2. Len(s) \in Nat /\ Len(Tail(s)) \in Nat
    BY <1>1
  <1>3. Len(Tail(s)) = 0 <=> Tail(s) = << >>
    BY <1>1, EmptySeq
  <1> QED
    BY <1>1, <1>2, <1>3, SMTT(30)

-----------------------------------------------------------------------------
(* One write at a time                                                     *)

\* The list of writes has at most one entry, so an action on the i-th write is on
\* the only one, and it is for the front of the buffer.
LEMMA OnlyWrite ==
    ASSUME OneWrite, NEW i \in DOMAIN writes
    PROVE  /\ i = 1 /\ Len(writes) = 1 /\ writes = <<writes[1]>> /\ writes[1] \in Write
           /\ Without(i) = << >>
           /\ output_buffer # << >> /\ writes[1].message = Head(output_buffer)
           /\ output_buffer \in Seq(Nat)
           /\ failed => writes[1].state = "error"
           /\ ~failed => writes[1].state # "error"
           /\ Taken <=> writes[1].state = "taken"
  <1>1. writes \in Seq(Write) /\ Len(writes) <= 1 /\ output_buffer \in Seq(Nat)
    BY DEF OneWrite, LoopTypeOK
  <1>2. i = 1 /\ Len(writes) = 1 /\ writes = <<writes[1]>> /\ writes[1] \in Write
    BY <1>1, OneElement
  <1>3. Without(i) = << >>
    <2>1. Without(i) = SubSeq(writes, 1, 0) \o SubSeq(writes, 2, Len(writes))
      BY <1>2 DEF Without
    <2> QED
      BY <2>1, <1>1, <1>2, NothingLeft
  <1>4. /\ output_buffer # << >> /\ writes[1].message = Head(output_buffer)
        /\ failed => writes[1].state = "error"
        /\ ~failed => writes[1].state # "error"
    BY <1>2 DEF OneWrite
  <1>5. Taken <=> writes[1].state = "taken"
    <2>1. DOMAIN writes = {1}
      BY <1>1, <1>2
    <2> QED
      BY <2>1 DEF Taken
  <1> QED
    BY <1>1, <1>2, <1>3, <1>4, <1>5

\* A list of one write, from its parts.
LEMMA Singleton ==
    ASSUME NEW m \in Nat, NEW st \in {"pending", "taken", "error"},
           NEW w, w = [message |-> m, state |-> st]
    PROVE  /\ <<w>> \in Seq(Write) /\ Len(<<w>>) = 1 /\ <<w>> # << >> /\ DOMAIN <<w>> = {1}
           /\ <<w>>[1].message = m /\ <<w>>[1].state = st
  <1>1. w \in Write /\ w.message = m /\ w.state = st
    BY DEF Write
  <1>2. <<w>>[1] = w /\ DOMAIN <<w>> = {1} /\ Len(<<w>>) = 1 /\ <<w>> # << >>
    OBVIOUS
  <1>3. <<w>> \in Seq(Write)
    BY <1>1
  <1> QED
    BY <1>1, <1>2, <1>3

\* What send does to the list of writes: it adds one when the buffer was empty.
LEMMA SendWrites ==
    ASSUME OneWrite, Send
    PROVE  /\ sequence \in Nat /\ output_buffer \in Seq(Nat)
           /\ output_buffer_size \in Nat /\ output_buffer_size = Len(output_buffer)
           /\ output_buffer' = Append(output_buffer, sequence)
           /\ output_buffer = << >> => writes' = Append(writes, Pending(sequence))
           /\ output_buffer # << >> => writes' = writes
  <1>1. /\ sequence \in Nat /\ output_buffer \in Seq(Nat)
        /\ output_buffer_size \in Nat /\ output_buffer_size = Len(output_buffer)
        /\ output_buffer' = Append(output_buffer, sequence)
    BY DEF OneWrite, LoopTypeOK, Send
  <1>2. ASSUME output_buffer = << >> PROVE writes' = Append(writes, Pending(sequence))
    <2>1. output_buffer_size + 1 = 1
      BY <1>1, <1>2
    <2>2. Head(output_buffer') = sequence
      BY <1>1, <1>2, AppendEnds
    <2> QED
      BY <2>1, <2>2 DEF Send, Starts
  <1>3. ASSUME output_buffer # << >> PROVE writes' = writes
    <2>1. output_buffer_size + 1 # 1
      BY <1>1, <1>3, TailLength
    <2> QED
      BY <2>1 DEF Send, Starts
  <1> QED
    BY <1>1, <1>2, <1>3

\* send keeps OneWrite: it starts a write only for an empty buffer.
LEMMA SendKeeps ==
    ASSUME OneWrite, Send
    PROVE  OneWrite'
  <1>1. /\ sequence \in Nat /\ output_buffer \in Seq(Nat)
        /\ output_buffer_size \in Nat /\ output_buffer_size = Len(output_buffer)
        /\ output_buffer' = Append(output_buffer, sequence)
    BY SendWrites
  <1>2. /\ output_buffer' \in Seq(Nat) /\ output_buffer' # << >>
        /\ Len(output_buffer') = Len(output_buffer) + 1
    BY <1>1, AppendEnds
  <1>3. /\ owner' \in Owners /\ sequence' \in Nat /\ output_buffer_size' \in Nat
        /\ output_buffer_size' = output_buffer_size + 1
        /\ stream' \in Seq(Nat) /\ failed' \in BOOLEAN /\ running' \in BOOLEAN
        /\ failed' = failed /\ running' = running
    BY <1>1 DEF OneWrite, LoopTypeOK, Send
  <1>4. CASE output_buffer = << >>
    <2>1. writes = << >> /\ ~failed /\ running
      BY <1>4 DEF OneWrite
    <2>2. writes' = <<Pending(sequence)>>
      BY <2>1, <1>4, SendWrites
    <2>3. /\ writes' \in Seq(Write) /\ Len(writes') = 1 /\ writes' # << >>
          /\ DOMAIN writes' = {1}
          /\ writes'[1].message = sequence /\ writes'[1].state = "pending"
      BY <1>1, <2>2, Singleton DEF Pending, WriteOf
    <2>4. Head(output_buffer') = sequence
      BY <1>1, <1>4, AppendEnds
    <2> QED
      BY <1>1, <1>2, <1>3, <2>1, <2>3, <2>4 DEF OneWrite, LoopTypeOK
  <1>5. CASE output_buffer # << >>
    <2>1. writes' = writes
      BY <1>5, SendWrites
    <2>2. Head(output_buffer') = Head(output_buffer)
      BY <1>1, <1>5, AppendEnds
    <2> QED
      BY <1>1, <1>2, <1>3, <1>5, <2>1, <2>2 DEF OneWrite, LoopTypeOK
  <1> QED
    BY <1>4, <1>5

\* The write is for the front, and taking or failing it changes its state only.
LEMMA Restated ==
    ASSUME OneWrite, NEW i \in DOMAIN writes, NEW st \in {"pending", "taken", "error"},
           writes' = [writes EXCEPT ![i] = WriteOf(@.message, st)]
    PROVE  /\ writes' \in Seq(Write) /\ Len(writes') = 1 /\ writes' # << >>
           /\ DOMAIN writes' = {1}
           /\ writes'[1].message = Head(output_buffer) /\ writes'[1].state = st
  <1> DEFINE w == [message |-> Head(output_buffer), state |-> st]
  <1>1. /\ i = 1 /\ writes = <<writes[1]>> /\ writes[1] \in Write
        /\ writes[1].message = Head(output_buffer) /\ output_buffer # << >>
        /\ output_buffer \in Seq(Nat)
    BY OnlyWrite
  <1>2. WriteOf(writes[1].message, st) = w
    BY <1>1 DEF WriteOf
  <1>3. writes' = <<w>>
    <2>1. writes' = [writes EXCEPT ![1] = w]
      BY <1>1, <1>2
    <2> HIDE DEF w
    <2>2. writes \in Seq(Write) /\ Len(writes) = 1
      BY OnlyWrite DEF OneWrite, LoopTypeOK
    <2> QED
      BY <2>1, <2>2
  <1>4. Head(output_buffer) \in Nat
    BY <1>1, TailLength
  <1> HIDE DEF w
  <1>5. w = [message |-> Head(output_buffer), state |-> st]
    BY DEF w
  <1> QED
    <2>1. /\ <<w>> \in Seq(Write) /\ Len(<<w>>) = 1 /\ <<w>> # << >> /\ DOMAIN <<w>> = {1}
          /\ <<w>>[1].message = Head(output_buffer) /\ <<w>>[1].state = st
      BY <1>4, <1>5, Singleton
    <2> QED
      BY <1>3, <2>1, Zenon

\* A transfer keeps OneWrite.
LEMMA TakeKeeps ==
    ASSUME OneWrite, NEW i \in DOMAIN writes, Take(i)
    PROVE  OneWrite'
  <1>1. /\ i = 1 /\ output_buffer # << >> /\ output_buffer \in Seq(Nat)
        /\ writes[1].message = Head(output_buffer) /\ ~failed
    BY OnlyWrite DEF Take
  <1>2. /\ writes' \in Seq(Write) /\ Len(writes') = 1 /\ writes' # << >>
        /\ DOMAIN writes' = {1}
        /\ writes'[1].message = Head(output_buffer) /\ writes'[1].state = "taken"
    BY Restated DEF Take
  <1>3. stream' \in Seq(Nat)
    <2>1. Head(output_buffer) \in Nat /\ stream \in Seq(Nat)
      BY <1>1, TailLength DEF OneWrite, LoopTypeOK
    <2>2. stream' = Append(stream, Head(output_buffer))
      BY <1>1 DEF Take
    <2> QED
      BY <2>1, <2>2, AppendEnds
  <1> QED
    BY <1>1, <1>2, <1>3 DEF OneWrite, LoopTypeOK, Take

\* A failing transfer keeps OneWrite.
LEMMA FailKeeps ==
    ASSUME OneWrite, NEW i \in DOMAIN writes, Fail(i)
    PROVE  OneWrite'
  <1>1. output_buffer # << >>
    BY OnlyWrite
  <1>2. /\ writes' \in Seq(Write) /\ Len(writes') = 1 /\ writes' # << >>
        /\ DOMAIN writes' = {1}
        /\ writes'[1].message = Head(output_buffer) /\ writes'[1].state = "error"
    BY Restated DEF Fail
  <1> QED
    BY <1>1, <1>2 DEF OneWrite, LoopTypeOK, Fail

\* The completion handler pops the front and starts the next write, if there is
\* something to send.
LEMMA CompleteWrites ==
    ASSUME OneWrite, NEW i \in DOMAIN writes, Complete(i)
    PROVE  /\ output_buffer \in Seq(Nat) /\ output_buffer # << >> /\ Taken /\ ~failed
           /\ output_buffer' = Tail(output_buffer)
           /\ output_buffer_size' = Len(output_buffer') /\ output_buffer_size' \in Nat
           /\ output_buffer' = << >> => writes' = << >>
           /\ output_buffer' # << >> => writes' = <<Pending(Head(output_buffer'))>>
  <1>1. /\ i = 1 /\ output_buffer # << >> /\ output_buffer \in Seq(Nat)
        /\ Without(i) = << >> /\ Taken /\ ~failed
    BY OnlyWrite DEF Complete
  <1>2. /\ output_buffer_size' = Len(output_buffer) - 1
        /\ output_buffer' = Tail(output_buffer)
        /\ output_buffer_size = Len(output_buffer)
    BY DEF OneWrite, Complete
  <1>3. /\ Len(output_buffer) \in Nat \ {0}
        /\ Len(Tail(output_buffer)) = Len(output_buffer) - 1
        /\ Len(output_buffer) = 1 <=> Tail(output_buffer) = << >>
    BY <1>1, TailLength
  <1>4. /\ output_buffer' = << >> => writes' = << >>
        /\ output_buffer' # << >> => writes' = <<Pending(Head(output_buffer'))>>
    <2>1. Continues(output_buffer_size - 1) <=> output_buffer' # << >>
      BY <1>2, <1>3 DEF Continues
    <2>2. writes' = IF Continues(output_buffer_size - 1)
                    THEN Append(<< >>, Pending(Head(output_buffer'))) ELSE << >>
      BY <1>1 DEF Complete
    <2> HIDE DEF Continues
    <2>3. Append(<< >>, Pending(Head(output_buffer'))) = <<Pending(Head(output_buffer'))>>
      OBVIOUS
    <2> QED
      BY <2>1, <2>2, <2>3, Zenon
  <1>5. output_buffer_size' = Len(output_buffer') /\ output_buffer_size' \in Nat
    BY <1>2, <1>3
  <1> QED
    BY <1>1, <1>2, <1>4, <1>5, Zenon

\* The completion handler keeps OneWrite.
LEMMA CompleteKeeps ==
    ASSUME OneWrite, NEW i \in DOMAIN writes, Complete(i)
    PROVE  OneWrite'
  <1>1. /\ output_buffer \in Seq(Nat) /\ output_buffer # << >> /\ ~failed
        /\ output_buffer' = Tail(output_buffer)
        /\ output_buffer_size' = Len(output_buffer') /\ output_buffer_size' \in Nat
    BY CompleteWrites
  <1>2. output_buffer' \in Seq(Nat)
    BY <1>1, TailLength
  <1>3. /\ owner' \in Owners /\ sequence' \in Nat /\ stream' \in Seq(Nat)
        /\ failed' \in BOOLEAN /\ running' \in BOOLEAN
        /\ ~failed' /\ running'
    BY <1>1 DEF OneWrite, LoopTypeOK, Complete
  <1>4. CASE output_buffer' = << >>
    <2>1. writes' = << >>
      BY <1>4, CompleteWrites, Zenon
    <2>2. DOMAIN writes' = {} /\ writes' \in Seq(Write) /\ Len(writes') <= 1
      BY <2>1
    <2> QED
      BY <1>1, <1>2, <1>3, <1>4, <2>1, <2>2 DEF OneWrite, LoopTypeOK
  <1>5. CASE output_buffer' # << >>
    <2>1. Head(output_buffer') \in Nat
      BY <1>2, <1>5, TailLength
    <2>2. writes' = <<Pending(Head(output_buffer'))>>
      BY <1>5, CompleteWrites
    <2>3. /\ writes' \in Seq(Write) /\ Len(writes') = 1 /\ writes' # << >>
          /\ DOMAIN writes' = {1}
          /\ writes'[1].message = Head(output_buffer') /\ writes'[1].state = "pending"
      BY <2>1, <2>2, Singleton DEF Pending, WriteOf
    <2> QED
      BY <1>1, <1>2, <1>3, <1>5, <2>3, SMTT(30) DEF OneWrite, LoopTypeOK
  <1> QED
    BY <1>4, <1>5

\* The completion handler keeps OneWrite when it is given an error: the message stays.
LEMMA CompleteErrorKeeps ==
    ASSUME OneWrite, NEW i \in DOMAIN writes, CompleteError(i)
    PROVE  OneWrite'
  <1>1. output_buffer # << >> /\ Without(i) = << >> /\ i = 1 /\ failed
    BY OnlyWrite DEF CompleteError
  <1>2. writes' = << >> /\ DOMAIN writes' = {} /\ writes' \in Seq(Write) /\ Len(writes') <= 1
    BY <1>1 DEF CompleteError
  <1> QED
    BY <1>1, <1>2 DEF OneWrite, LoopTypeOK, CompleteError

\* OneWrite holds at the start.
LEMMA OneWriteInit == Init => OneWrite
  <1> SUFFICES ASSUME Init PROVE OneWrite
    OBVIOUS
  <1>1. /\ DOMAIN writes = {} /\ writes \in Seq(Write) /\ Len(writes) <= 1
        /\ stream \in Seq(Nat) /\ output_buffer \in Seq(Nat) /\ Len(output_buffer) = 0
    BY DEF Init
  <1>2. LoopTypeOK
    BY <1>1 DEF Init, LoopTypeOK
  <1> QED
    BY <1>1, <1>2 DEF Init, OneWrite

\* Every step keeps it.
LEMMA OneWriteStep == OneWrite /\ [Next]_loopVars => OneWrite'
  <1> SUFFICES ASSUME OneWrite, [Next]_loopVars PROVE OneWrite'
    OBVIOUS
  <1>1. CASE Send
    BY <1>1, SendKeeps
  <1>2. ASSUME NEW i \in DOMAIN writes, Take(i) PROVE OneWrite'
    BY <1>2, TakeKeeps
  <1>3. ASSUME NEW i \in DOMAIN writes, Fail(i) PROVE OneWrite'
    BY <1>3, FailKeeps
  <1>4. ASSUME NEW i \in DOMAIN writes, Complete(i) PROVE OneWrite'
    BY <1>4, CompleteKeeps
  <1>5. ASSUME NEW i \in DOMAIN writes, CompleteError(i) PROVE OneWrite'
    BY <1>5, CompleteErrorKeeps
  <1>6. CASE UNCHANGED loopVars
    BY <1>6 DEF loopVars, OneWrite, LoopTypeOK
  <1> QED
    BY <1>1, <1>2, <1>3, <1>4, <1>5, <1>6 DEF Next, Handle

\* Connection::write_buffer, Client::write_buffer and Sender::send_message never run
\* twice at once: at most one write is under way, it is for the front of the buffer,
\* and the loop runs exactly when there is something to send, until a write fails.
THEOREM OneWriteCorrect == Spec => []OneWrite
  BY OneWriteInit, OneWriteStep, PTL DEF Spec

-----------------------------------------------------------------------------
(* Once and in order                                                       *)

\* send appends the next number to what has not arrived.
LEMMA SendMaps ==
    ASSUME LoopInv, Send
    PROVE  /\ Unsent' = Append(Unsent, Len(stream) + Len(Unsent))
           /\ stream' = stream /\ failed' = failed
           /\ Unsent \in Seq(Nat) /\ stream \in Seq(Nat)
  <1> USE DEF LoopInv
  <1>1. /\ sequence \in Nat /\ output_buffer \in Seq(Nat) /\ stream \in Seq(Nat)
        /\ output_buffer' = Append(output_buffer, sequence)
    BY SendWrites DEF OneWrite, LoopTypeOK
  <1>2. stream' = stream /\ failed' = failed
    BY DEF Send
  <1>3. CASE output_buffer = << >>
    <2>1. writes = << >>
      BY <1>3 DEF OneWrite
    <2>2. writes' = <<Pending(sequence)>>
      BY <2>1, <1>3, SendWrites
    <2>3. DOMAIN writes' = {1} /\ writes'[1].state = "pending"
      BY <1>1, <2>2, Singleton DEF Pending, WriteOf
    <2>4. ~Taken /\ ~Taken'
      BY <2>1, <2>3 DEF Taken
    <2>5. Unsent = output_buffer /\ Unsent' = output_buffer'
      BY <2>4 DEF Unsent
    <2> QED
      BY <1>1, <1>2, <2>5 DEF Numbered
  <1>4. CASE output_buffer # << >> /\ ~Taken
    <2>1. ~Taken'
      BY <1>4, SendWrites DEF Taken
    <2>2. Unsent = output_buffer /\ Unsent' = output_buffer'
      BY <1>4, <2>1 DEF Unsent
    <2> QED
      BY <1>1, <1>2, <2>2 DEF Numbered
  <1>5. CASE output_buffer # << >> /\ Taken
    <2>1. Taken'
      BY <1>5, SendWrites DEF Taken
    <2>2. Unsent = Tail(output_buffer) /\ Unsent' = Tail(output_buffer')
      BY <1>5, <2>1 DEF Unsent
    <2>3. Tail(output_buffer') = Append(Tail(output_buffer), sequence)
      BY <1>1, <1>5, AppendEnds
    <2>4. Tail(output_buffer) \in Seq(Nat)
      BY <1>1, <1>5, TailLength
    <2> QED
      BY <1>1, <1>2, <2>2, <2>3, <2>4 DEF Numbered
  <1> QED
    BY <1>3, <1>4, <1>5

\* A transfer delivers the oldest message that has not arrived.
LEMMA TakeMaps ==
    ASSUME LoopInv, NEW i \in DOMAIN writes, Take(i)
    PROVE  /\ ~failed /\ failed' = failed
           /\ Unsent # << >> /\ Unsent \in Seq(Nat) /\ stream \in Seq(Nat)
           /\ Unsent' = Tail(Unsent)
           /\ stream' = Append(stream, Head(Unsent))
  <1> USE DEF LoopInv
  <1>1. /\ i = 1 /\ output_buffer # << >> /\ output_buffer \in Seq(Nat)
        /\ writes[1].message = Head(output_buffer) /\ ~failed /\ ~Taken
    BY OnlyWrite DEF Take
  <1>2. DOMAIN writes' = {1} /\ writes'[1].state = "taken"
    BY Restated DEF Take
  <1>3. Taken'
    BY <1>2 DEF Taken
  <1>4. Unsent = output_buffer /\ Unsent' = Tail(output_buffer')
    BY <1>1, <1>3 DEF Unsent
  <1>5. /\ output_buffer' = output_buffer /\ failed' = failed
        /\ stream' = Append(stream, Head(output_buffer))
    BY <1>1 DEF Take
  <1>6. stream \in Seq(Nat)
    BY DEF OneWrite, LoopTypeOK
  <1> QED
    BY <1>1, <1>4, <1>5, <1>6

\* A failing transfer breaks the line.
LEMMA FailMaps ==
    ASSUME LoopInv, NEW i \in DOMAIN writes, Fail(i)
    PROVE  failed' = TRUE /\ Unsent' = Unsent /\ stream' = stream
  <1> USE DEF LoopInv
  <1>1. i = 1 /\ ~Taken
    BY OnlyWrite DEF Fail
  <1>2. DOMAIN writes' = {1} /\ writes'[1].state = "error"
    BY Restated DEF Fail
  <1>3. ~Taken'
    BY <1>2 DEF Taken
  <1> QED
    BY <1>1, <1>3 DEF Fail, Unsent

\* The completion handler does what the transfer has already shown.
LEMMA CompleteMaps ==
    ASSUME LoopInv, NEW i \in DOMAIN writes, Complete(i)
    PROVE  failed' = failed /\ Unsent' = Unsent /\ stream' = stream
  <1> USE DEF LoopInv
  <1>1. /\ output_buffer \in Seq(Nat) /\ output_buffer # << >> /\ Taken
        /\ output_buffer' = Tail(output_buffer)
    BY CompleteWrites
  <1>2. ~Taken'
    <2>1. CASE output_buffer' = << >>
      <3>1. writes' = << >>
        BY <2>1, CompleteWrites
      <3> QED
        BY <3>1 DEF Taken
    <2>2. CASE output_buffer' # << >>
      <3>1. Head(output_buffer') \in Nat
        BY <1>1, <2>2, TailLength
      <3>2. DOMAIN writes' = {1} /\ writes'[1].state = "pending"
        BY <2>2, <3>1, CompleteWrites, Singleton DEF Pending, WriteOf
      <3> QED
        BY <3>2 DEF Taken
    <2> QED
      BY <2>1, <2>2
  <1>3. Unsent = Tail(output_buffer) /\ Unsent' = output_buffer'
    BY <1>1, <1>2 DEF Unsent
  <1> QED
    BY <1>1, <1>3 DEF Complete

\* The completion handler with an error changes nothing of Outbox.
LEMMA CompleteErrorMaps ==
    ASSUME LoopInv, NEW i \in DOMAIN writes, CompleteError(i)
    PROVE  failed' = failed /\ Unsent' = Unsent /\ stream' = stream
  <1> USE DEF LoopInv
  <1>1. i = 1 /\ ~Taken /\ Without(i) = << >>
    BY OnlyWrite DEF CompleteError
  <1>2. writes' = << >>
    BY <1>1 DEF CompleteError
  <1>3. ~Taken'
    BY <1>2 DEF Taken
  <1> QED
    BY <1>1, <1>3 DEF CompleteError, Unsent

\* A step of the loop is a step of Outbox, or changes nothing of it, and keeps the
\* messages numbered.
LEMMA StepMaps ==
    ASSUME LoopInv, [Next]_loopVars
    PROVE  [Box!Next]_Box!boxVars /\ Numbered'
  <1> USE DEF Unsent
  <1>1. CASE Send
    <2>1. /\ Unsent' = Append(Unsent, Len(stream) + Len(Unsent))
          /\ stream' = stream /\ failed' = failed
          /\ Unsent \in Seq(Nat) /\ stream \in Seq(Nat)
      BY <1>1, SendMaps
    <2>2. sequence' = sequence + 1
      BY <1>1 DEF Send
    <2>3. Box!Send
      BY <2>1 DEF Box!Send
    <2> HIDE DEF Unsent
    <2>4. Len(Unsent) \in Nat /\ Len(stream) \in Nat /\ Len(Unsent') = Len(Unsent) + 1
      BY <2>1
    <2>5. Numbered'
      BY <2>1, <2>2, <2>4 DEF Numbered, LoopInv
    <2> QED
      BY <2>3, <2>5 DEF Box!Next
  <1>2. ASSUME NEW i \in DOMAIN writes, Take(i)
        PROVE  [Box!Next]_Box!boxVars /\ Numbered'
    <2>1. /\ ~failed /\ failed' = failed
          /\ Unsent # << >> /\ Unsent \in Seq(Nat) /\ stream \in Seq(Nat)
          /\ Unsent' = Tail(Unsent)
          /\ stream' = Append(stream, Head(Unsent))
      BY <1>2, TakeMaps
    <2>2. sequence' = sequence
      BY <1>2 DEF Take
    <2>3. Box!Deliver
      BY <2>1 DEF Box!Deliver
    <2> HIDE DEF Unsent
    <2>4. /\ Len(Unsent) \in Nat /\ Len(stream) \in Nat /\ Len(Unsent') = Len(Unsent) - 1
          /\ Len(stream') = Len(stream) + 1
      BY <2>1
    <2>5. Numbered'
      BY <2>1, <2>2, <2>4 DEF Numbered, LoopInv
    <2> QED
      BY <2>3, <2>5 DEF Box!Next
  <1>3. ASSUME NEW i \in DOMAIN writes, Fail(i)
        PROVE  [Box!Next]_Box!boxVars /\ Numbered'
    <2>1. failed' = TRUE /\ Unsent' = Unsent /\ stream' = stream
      BY <1>3, FailMaps
    <2>2. Box!Break
      BY <2>1 DEF Box!Break
    <2> QED
      BY <1>3, <2>1, <2>2 DEF Box!Next, Fail, Numbered, LoopInv
  <1>4. ASSUME NEW i \in DOMAIN writes, Complete(i)
        PROVE  [Box!Next]_Box!boxVars /\ Numbered'
    <2>1. failed' = failed /\ Unsent' = Unsent /\ stream' = stream
      BY <1>4, CompleteMaps
    <2> QED
      BY <1>4, <2>1 DEF Box!boxVars, Complete, Numbered, LoopInv
  <1>5. ASSUME NEW i \in DOMAIN writes, CompleteError(i)
        PROVE  [Box!Next]_Box!boxVars /\ Numbered'
    <2>1. failed' = failed /\ Unsent' = Unsent /\ stream' = stream
      BY <1>5, CompleteErrorMaps
    <2> QED
      BY <1>5, <2>1 DEF Box!boxVars, CompleteError, Numbered, LoopInv
  <1>6. CASE UNCHANGED loopVars
    BY <1>6 DEF loopVars, Taken, Box!boxVars, Numbered, LoopInv
  <1> QED
    BY <1>1, <1>2, <1>3, <1>4, <1>5, <1>6 DEF Next, Handle

\* The output buffer implements Outbox: what is sent arrives once and in the order
\* it was sent, and nothing arrives after a write has failed.
THEOREM LoopImplementsOutbox == Spec => ImplementsOutbox
  <1>1. Init => Box!Init /\ LoopInv
    <2> SUFFICES ASSUME Init PROVE Box!Init /\ LoopInv
      OBVIOUS
    <2>1. OneWrite
      BY OneWriteInit
    <2>2. ~Taken
      BY DEF Init, Taken
    <2>3. Unsent = << >>
      BY <2>2 DEF Init, Unsent
    <2>4. Numbered
      BY <2>3 DEF Init, Numbered
    <2> QED
      BY <2>1, <2>2, <2>4 DEF Init, Box!Init, LoopInv
  <1>2. LoopInv /\ [Next]_loopVars => LoopInv' /\ [Box!Next]_Box!boxVars
    BY OneWriteStep, StepMaps DEF LoopInv
  <1> QED
    BY <1>1, <1>2, PTL DEF Spec, Box!Spec, ImplementsOutbox
=============================================================================
