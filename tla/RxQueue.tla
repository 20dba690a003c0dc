------------------------------- MODULE RxQueue -------------------------------
(***************************************************************************)
(* What the receive side of Serial promises to the sketch, with the ring   *)
(* buffer, the interrupt and the UART abstracted away: a bounded first-in  *)
(* first-out queue of bytes that refuses a byte only when it is full.      *)
(* SerialRx is shown to implement this module.                             *)
(***************************************************************************)
EXTENDS Integers, Sequences

CONSTANTS
  Byte,      \* the values a byte can take
  Capacity   \* how many bytes can wait to be read

VARIABLES
  queue,     \* the bytes received and not yet read, oldest first
  last,      \* what the latest read() or peek() returned; NoData if nothing
  refused    \* how many bytes arrived while the queue was full

vars == <<queue, last, refused>>

\* The -1 that read() and peek() return when there is nothing to return.
NoData == -1

Init ==
  /\ queue = <<>>
  /\ last = NoData
  /\ refused = 0

\* A byte arrives and there is room for it.
Accept(b) ==
  /\ Len(queue) < Capacity
  /\ queue' = Append(queue, b)
  /\ UNCHANGED <<last, refused>>

\* A byte arrives and the queue is full.
Refuse ==
  /\ Len(queue) = Capacity
  /\ refused' = refused + 1
  /\ UNCHANGED <<queue, last>>

\* The oldest byte is taken out.
Get ==
  /\ queue # <<>>
  /\ last' = Head(queue)
  /\ queue' = Tail(queue)
  /\ UNCHANGED refused

\* The oldest byte is looked at and stays.
Look ==
  /\ queue # <<>>
  /\ last' = Head(queue)
  /\ UNCHANGED <<queue, refused>>

\* A read or a peek while nothing waits.
Miss ==
  /\ queue = <<>>
  /\ last' = NoData
  /\ UNCHANGED <<queue, refused>>

\* The port is closed: whatever waits is thrown away.
Clear ==
  /\ queue' = <<>>
  /\ UNCHANGED <<last, refused>>

Next ==
  \/ \E b \in Byte : Accept(b)
  \/ Refuse
  \/ Get
  \/ Look
  \/ Miss
  \/ Clear

Spec == Init /\ [][Next]_vars
==============================================================================
