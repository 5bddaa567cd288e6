------------------------------- MODULE Outbox -------------------------------
(***************************************************************************)
(* What a sender of messages relies on: what it sends arrives once and in  *)
(* the order it was sent, until the line breaks; then nothing arrives any  *)
(* more.  The abstract specification of the output buffers, and what       *)
(* Venue's responses are.                                                  *)
(***************************************************************************)
EXTENDS Naturals, Sequences

VARIABLES
    outbox,   \* the messages sent and not delivered, oldest first
    inbox,    \* the messages delivered, oldest first
    broken    \* nothing is delivered any more

boxVars == <<outbox, inbox, broken>>

Init ==
    /\ outbox = << >>
    /\ inbox = << >>
    /\ broken = FALSE

\* The messages are numbered in the order they are sent.
Send ==
    /\ outbox' = Append(outbox, Len(inbox) + Len(outbox))
    /\ UNCHANGED <<inbox, broken>>

Deliver ==
    /\ ~broken /\ outbox # << >>
    /\ inbox' = Append(inbox, Head(outbox))
    /\ outbox' = Tail(outbox)
    /\ broken' = broken

Break ==
    /\ broken' = TRUE
    /\ UNCHANGED <<outbox, inbox>>

Next == Send \/ Deliver \/ Break

Spec == Init /\ [][Next]_boxVars
=============================================================================
