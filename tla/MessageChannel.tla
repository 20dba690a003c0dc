--------------------------- MODULE MessageChannel ---------------------------
(***************************************************************************)
(* What the framing of the serial protocol is for: the device acts on the  *)
(* messages of the host, each one exactly as it was sent, in order, and    *)
(* none twice.  A message may be lost on the way, as a whole.  ReceiveMsg  *)
(* is shown to implement this module.                                      *)
(***************************************************************************)
EXTENDS Integers, Sequences

CONSTANT Message   \* what the host can send

VARIABLES
  sent,   \* the messages sent so far, in order
  last,   \* the number of the latest message the device acted on, 0 if none
  shown   \* that message; Nothing before the first one and after a restart

vars == <<sent, last, shown>>

Nothing == [mode |-> 0, data |-> <<>>]

Init ==
  /\ sent = <<>>
  /\ last = 0
  /\ shown = Nothing

Send ==
  /\ \E m \in Message : sent' = Append(sent, m)
  /\ UNCHANGED <<last, shown>>

\* The device acts on a later message than the one before.  Those in between
\* are lost.
Deliver ==
  /\ \E i \in last + 1 .. Len(sent) : last' = i /\ shown' = sent[i]
  /\ UNCHANGED sent

\* The device restarts and has to wait for the next message.
Restart ==
  /\ shown' = Nothing
  /\ UNCHANGED <<sent, last>>

Next == Send \/ Deliver \/ Restart

Spec == Init /\ [][Next]_vars
=============================================================================
