------------------------------- MODULE TxQueue -------------------------------
(***************************************************************************)
(* What the transmit side of Serial promises: a bounded first-in first-out *)
(* queue between the program that writes bytes and the line that takes     *)
(* them.  No byte is lost, sent twice or overtaken.  SerialTx is shown to  *)
(* implement this module.                                                  *)
(***************************************************************************)
EXTENDS Integers, Sequences

CONSTANTS
  Byte,      \* the values a byte can take
  Capacity   \* how many bytes can be under way

VARIABLES
  queue,     \* the bytes written and not yet sent as a whole, oldest first
  sent       \* the latest byte that was sent, -1 before the first

vars == <<queue, sent>>

Init == queue = <<>> /\ sent = -1

Put(b) ==
  /\ Len(queue) < Capacity
  /\ queue' = Append(queue, b)
  /\ UNCHANGED sent

Take ==
  /\ queue # <<>>
  /\ sent' = Head(queue)
  /\ queue' = Tail(queue)

Next == Take \/ \E b \in Byte : Put(b)

Spec == Init /\ [][Next]_vars
==============================================================================
