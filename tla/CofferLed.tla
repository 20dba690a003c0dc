------------------------------ MODULE CofferLed ------------------------------
(***************************************************************************)
(* The timing of the LED controller: the line, the receive interrupt and   *)
(* loop() together.  show() switches the interrupts off while it shifts    *)
(* the colours out, the USART holds one byte meanwhile, and the sketch     *)
(* relies on a slow line to lose nothing.  Bytes are counted here, not     *)
(* told apart: a byte is a header or not as the line pleases.              *)
(*                                                                         *)
(* Time passes in Tick only.  The instructions of receiveMsg() and of the  *)
(* interrupt take no time of their own; it is part of ComputeTime.  A      *)
(* pending interrupt runs before loop() goes on, unless its byte ends in   *)
(* the very moment in which show() switches the interrupts off.            *)
(***************************************************************************)
EXTENDS Integers

CONSTANTS
  ByteTime,     \* the time of one byte on the line, start to stop bit
  ShowTime,     \* how long show() keeps the interrupts off
  ComputeTime,  \* the rest of a turn of loop(), at most
  MsgLen,       \* data bytes of a message
  Capacity      \* bytes the receive ring holds

ASSUME TimeAssumption ==
  /\ ByteTime \in Nat /\ ShowTime \in Nat /\ ComputeTime \in Nat
  /\ MsgLen \in Nat \ {0}
  /\ Capacity \in Nat

\* What the baud rate has to guarantee: no two bytes end while show() runs ...
ASSUME BaudAssumption == ShowTime < ByteTime
\* ... and the sketch: a message takes longer to arrive than a turn of loop().
ASSUME LoopAssumption == ComputeTime + ShowTime <= MsgLen * ByteTime
ASSUME RingAssumption == 2 * MsgLen <= Capacity

VARIABLES
  gap,      \* time since the last byte ended on the line, up to ByteTime
  udr,      \* bytes in the USART: 0 or 1
  ring,     \* bytes in the receive ring
  sreg_i,   \* the global interrupt enable bit of SREG
  pc,       \* where loop() is: "receive", "compute" or "show"
  clock,    \* time spent in this part of loop()
  rcvIdx,   \* s_rcvIdx of receiveMsg()
  overrun,  \* bytes overwritten in the USART
  dropped   \* bytes the interrupt dropped because the ring was full

vars == <<gap, udr, ring, sreg_i, pc, clock, rcvIdx, overrun, dropped>>

Init ==
  /\ gap \in 0 .. ByteTime
  /\ udr = 0 /\ ring = 0
  /\ sreg_i = 1
  /\ pc = "receive"
  /\ clock = 0
  /\ rcvIdx = 0
  /\ overrun = 0 /\ dropped = 0

IrqPending == sreg_i = 1 /\ udr > 0

\* A byte ends on the line, no sooner than ByteTime after the one before.
LineByte ==
  /\ gap = ByteTime
  /\ gap' = 0
  /\ udr' = 1
  /\ overrun' = overrun + udr
  /\ UNCHANGED <<ring, sreg_i, pc, clock, rcvIdx, dropped>>

\* The receive interrupt moves the byte into the ring, if there is room.
RxCompleteIrq ==
  /\ IrqPending
  /\ udr' = 0
  /\ IF ring < Capacity
       THEN ring' = ring + 1 /\ UNCHANGED dropped
       ELSE dropped' = dropped + 1 /\ UNCHANGED ring
  /\ UNCHANGED <<gap, sreg_i, pc, clock, rcvIdx, overrun>>

\* Time passes.  A pending interrupt does not wait, and a part of loop() that
\* has used up its time ends before.
Tick ==
  /\ ~IrqPending
  /\ \/ pc = "compute" /\ clock < ComputeTime
     \/ pc = "show" /\ clock < ShowTime
  /\ clock' = clock + 1
  /\ gap' = IF gap < ByteTime THEN gap + 1 ELSE gap
  /\ UNCHANGED <<udr, ring, sreg_i, pc, rcvIdx, overrun, dropped>>

\* A version that takes at most one byte in a turn of loop().
ReadByteAndLeave ==
  /\ pc = "receive" /\ ~IrqPending
  /\ ring > 0 /\ rcvIdx < MsgLen
  /\ ring' = ring - 1
  /\ rcvIdx' \in {0, (rcvIdx + 1) % MsgLen}
  /\ pc' = "compute"
  /\ UNCHANGED <<gap, udr, sreg_i, clock, overrun, dropped>>

\* A version that takes a byte only when another one has come behind it.
ReadByteWaits ==
  /\ pc = "receive" /\ ~IrqPending
  /\ ring > 1 /\ rcvIdx < MsgLen
  /\ ring' = ring - 1
  /\ rcvIdx' \in {0, rcvIdx + 1}
  /\ UNCHANGED <<gap, udr, sreg_i, pc, clock, overrun, dropped>>

\* A turn of the loop of receiveMsg() takes one byte: a header or a data byte.
ReadByte ==
  /\ pc = "receive" /\ ~IrqPending
  /\ ring > 0 /\ rcvIdx < MsgLen
  /\ ring' = ring - 1
  /\ rcvIdx' \in {0, rcvIdx + 1}
  /\ UNCHANGED <<gap, udr, sreg_i, pc, clock, overrun, dropped>>

\* A version that switches the interrupts off before the colours are computed.
ReceiveDoneNoInterrupts ==
  /\ pc = "receive" /\ ~IrqPending
  /\ ring = 0 \/ rcvIdx = MsgLen
  /\ rcvIdx' = IF rcvIdx = MsgLen THEN 0 ELSE rcvIdx
  /\ pc' = "compute"
  /\ clock' = 0
  /\ sreg_i' = 0
  /\ UNCHANGED <<gap, udr, ring, overrun, dropped>>

\* receiveMsg() returns: the ring is empty or a message is complete.
ReceiveDone ==
  /\ pc = "receive" /\ ~IrqPending
  /\ ring = 0 \/ rcvIdx = MsgLen
  /\ rcvIdx' = IF rcvIdx = MsgLen THEN 0 ELSE rcvIdx
  /\ pc' = "compute"
  /\ clock' = 0
  /\ UNCHANGED <<gap, udr, ring, sreg_i, overrun, dropped>>

\* show() has waited for the latch of the strip and switches interrupts off,
\* perhaps just when a byte has come in ...
ShowBegin ==
  /\ pc = "compute"
  /\ IrqPending => gap = 0
  /\ pc' = "show"
  /\ sreg_i' = 0
  /\ clock' = 0
  /\ UNCHANGED <<gap, udr, ring, rcvIdx, overrun, dropped>>

\* ... and on again when all colours are out.  loop() starts anew.
ShowEnd ==
  /\ pc = "show" /\ clock = ShowTime
  /\ pc' = "receive"
  /\ sreg_i' = 1
  /\ clock' = 0
  /\ UNCHANGED <<gap, udr, ring, rcvIdx, overrun, dropped>>

Next ==
  \/ LineByte \/ RxCompleteIrq \/ Tick
  \/ ReadByte \/ ReceiveDone \/ ShowBegin \/ ShowEnd

\* Time goes on, the processor goes on, and interrupts are served; only the
\* line may fall silent.
Spec ==
  /\ Init /\ [][Next]_vars
  /\ WF_vars(RxCompleteIrq)
  /\ WF_vars(Tick \/ ReadByte \/ ReceiveDone \/ ShowBegin \/ ShowEnd)

------------------------------------------------------------------------------
(* Properties.                                                              *)

TypeOK ==
  /\ gap \in 0 .. ByteTime
  /\ udr \in 0 .. 1
  /\ ring \in 0 .. Capacity
  /\ sreg_i \in 0 .. 1
  /\ pc \in {"receive", "compute", "show"}
  /\ clock \in Nat
  /\ rcvIdx \in 0 .. MsgLen
  /\ overrun \in Nat /\ dropped \in Nat

\* At 2400 baud no byte is overwritten in the USART while show() keeps the
\* interrupts off, whenever it starts.
NoOverrun == overrun = 0

\* The ring never fills up: receiveMsg() stops after each message, so one turn
\* of loop() may leave bytes behind, but the backlog never grows without bound.
NoDrop == dropped = 0

\* How long until receiveMsg() is called again, at most.
TimeToReceive ==
  CASE pc = "receive" -> 0
    [] pc = "compute" -> ComputeTime - clock + ShowTime
    [] pc = "show"    -> ShowTime - clock

\* What the line has delivered and no message has used up, measured in time.
Backlog == ByteTime * (udr + ring + rcvIdx) + gap

\* The inductive strengthening of the two: a pending byte is a recent one, and
\* the backlog stays below a message plus a turn of loop().
ClockOK ==
  /\ pc = "receive" => clock = 0
  /\ pc = "compute" => clock <= ComputeTime
  /\ pc = "show" => clock <= ShowTime
  /\ sreg_i = IF pc = "show" THEN 0 ELSE 1
PendingIsRecent ==
  udr > 0 => gap <= CASE pc = "receive" -> ShowTime
                      [] pc = "compute" -> 0
                      [] pc = "show"    -> clock
BacklogBounded ==
  Backlog + TimeToReceive <= MsgLen * ByteTime + ComputeTime + ShowTime

\* The inductive invariant that the theorems rest on.
LoopInv == TypeOK /\ ClockOK /\ PendingIsRecent /\ BacklogBounded

\* receiveMsg() empties the ring again and again: a backlog left by one turn of
\* loop() is worked off, even under a host that never pauses.
RingDrained == []<>(ring = 0)
==============================================================================
