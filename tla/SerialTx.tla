------------------------------- MODULE SerialTx -------------------------------
(***************************************************************************)
(* The transmit side of HardwareSerial: write() puts a byte into the data  *)
(* register of the USART or into a ring buffer, the data register empty    *)
(* interrupt moves bytes from the ring to the register, and flush() waits  *)
(* until the last one is out.  write() and flush() also work with the      *)
(* interrupts off; they call the handler themselves then.                  *)
(*                                                                         *)
(* A step is an access to state that the interrupt or the USART changes    *)
(* too.  A loop that waits takes no step as long as it has nothing to do.  *)
(***************************************************************************)
EXTENDS Integers, Sequences

CONSTANTS
  Byte,      \* the values a byte can take
  TxSize,    \* SERIAL_TX_BUFFER_SIZE
  Reopen     \* does the program call begin() while the port is open?

ASSUME TxSizeAssumption == TxSize \in 2 .. 256
ASSUME ByteAssumption == 0 \in Byte /\ Byte \subseteq 0 .. 255
ASSUME ReopenAssumption == Reopen \in BOOLEAN

VARIABLES
  sreg_i,    \* the global interrupt enable bit of SREG
  udrie,     \* UDRIE0 in UCSR0B: is the interrupt wanted?
  txen,      \* TXEN0 in UCSR0B: is the port open?
  txc,       \* TXC0 in UCSR0A: transmit complete
  udr,       \* the data register, Empty or a byte; UDRE0 is set when it is Empty
  shift,     \* the byte on the line, or Empty
  tx_buffer, \* _tx_buffer
  tx_head,   \* _tx_buffer_head
  tx_tail,   \* _tx_buffer_tail
  written,   \* _written
  pc,        \* where the program is in a call on Serial
  c,         \* the byte write() was called with
  atomic,    \* SREG_I as ATOMIC_BLOCK has saved it
  irq,       \* where the interrupt handler is: "none", "send" or "clear"
  irqByte,   \* its local variable c
  irqSreg,   \* SREG_I when it returns: 1 from an interrupt, 0 from a call
  sent       \* the latest byte that is out on the line

usart   == <<udrie, txen, txc, udr, shift>>
ring    == <<tx_buffer, tx_head, tx_tail>>
handler == <<irq, irqByte, irqSreg>>
program == <<written, pc, c, atomic>>
vars    == <<sreg_i, usart, ring, handler, program, sent>>

Empty == -1
Slot  == 0 .. TxSize - 1
NextIndex(i) == (i + 1) % TxSize

Init ==
  /\ sreg_i = 1
  /\ udrie = 0 /\ txen = 0 /\ txc = 0 /\ udr = Empty /\ shift = Empty
  /\ tx_buffer = [i \in Slot |-> 0] /\ tx_head = 0 /\ tx_tail = 0
  /\ irq = "none" /\ irqByte = 0 /\ irqSreg = 0
  /\ written = FALSE /\ pc = "idle" /\ c = 0 /\ atomic = 1
  /\ sent = Empty

-----------------------------------------------------------------------------
(* The USART.                                                               *)

\* A byte in the data register moves on at once if the line is free.
Load(b) ==
  IF shift = Empty THEN shift' = b /\ udr' = Empty
                   ELSE udr' = b /\ UNCHANGED shift

\* A byte takes far longer on the line than the instructions between loading it
\* and clearing TXC, unless interrupts come between them.
JustLoaded ==
  /\ udr = Empty
  /\ irq = "clear" \/ (pc = "direct" /\ sreg_i = 0)

\* The byte on the line is out; the next one follows or the transmission is
\* complete.
LineDone ==
  /\ shift # Empty /\ ~JustLoaded
  /\ sent' = shift
  /\ shift' = udr
  /\ udr' = Empty
  /\ txc' = IF udr = Empty THEN 1 ELSE txc
  /\ UNCHANGED <<sreg_i, udrie, txen, ring, handler, program>>

-----------------------------------------------------------------------------
(* _tx_udr_empty_irq(), from the interrupt or called by the program.        *)

TakeByte ==
  /\ irqByte' = tx_buffer[tx_tail]
  /\ tx_tail' = NextIndex(tx_tail)
  /\ irq' = "send"
  /\ irqSreg' = sreg_i
  /\ sreg_i' = 0
  /\ UNCHANGED <<usart, tx_buffer, tx_head, program, sent>>

\* ISR(USART_UDRE_vect)
Irq ==
  /\ irq = "none" /\ sreg_i = 1 /\ udrie = 1 /\ udr = Empty
  /\ TakeByte

\* *_udr = c
IrqSend ==
  /\ irq = "send"
  /\ Load(irqByte)
  /\ irq' = "clear"
  /\ UNCHANGED <<sreg_i, udrie, txen, txc, ring, irqByte, irqSreg, program, sent>>

\* Clear TXC; an empty ring needs no further interrupt.
IrqClear ==
  /\ irq = "clear"
  /\ txc' = 0
  /\ udrie' = IF tx_head = tx_tail THEN 0 ELSE udrie
  /\ irq' = "none" /\ irqByte' = 0 /\ irqSreg' = 0
  /\ sreg_i' = irqSreg
  /\ UNCHANGED <<txen, udr, shift, ring, program, sent>>

-----------------------------------------------------------------------------
(* write(): directly into an empty data register ...                        *)

Running(at) == pc = at /\ irq = "none"

Write(b) ==
  /\ Running("idle") /\ txen = 1
  /\ pc' = "write"
  /\ c' = b
  /\ written' = TRUE
  /\ UNCHANGED <<sreg_i, usart, ring, handler, atomic, sent>>

WriteEmpty ==
  /\ Running("write")
  /\ pc' = IF tx_head = tx_tail THEN "udre" ELSE "wait"
  /\ UNCHANGED <<sreg_i, usart, ring, handler, written, c, atomic, sent>>

WriteBuffered ==
  /\ Running("udre") /\ udr # Empty
  /\ pc' = "wait"
  /\ UNCHANGED <<sreg_i, usart, ring, handler, written, c, atomic, sent>>

\* A version without ATOMIC_BLOCK.
WriteDirectInterruptible ==
  /\ Running("udre") /\ udr = Empty
  /\ pc' = "direct"
  /\ Load(c)
  /\ atomic' = sreg_i
  /\ UNCHANGED <<sreg_i, udrie, txen, txc, ring, handler, written, c, sent>>

WriteDirect ==
  /\ Running("udre") /\ udr = Empty
  /\ pc' = "direct"
  /\ Load(c)
  /\ atomic' = sreg_i
  /\ sreg_i' = 0
  /\ UNCHANGED <<udrie, txen, txc, ring, handler, written, c, sent>>

WriteDirectClear ==
  /\ Running("direct")
  /\ pc' = "idle"
  /\ txc' = 0
  /\ sreg_i' = atomic
  /\ c' = 0 /\ atomic' = 1
  /\ UNCHANGED <<udrie, txen, udr, shift, ring, handler, written, sent>>

(* ... or into the ring, as soon as there is room.                          *)

\* With the interrupts off write() calls the handler itself.
WritePoll ==
  /\ Running("wait") /\ NextIndex(tx_head) = tx_tail
  /\ sreg_i = 0 /\ udr = Empty
  /\ TakeByte

\* A version that moves the head before it enables the interrupt.
WriteStoreAndMove ==
  /\ Running("wait") /\ NextIndex(tx_head) # tx_tail
  /\ pc' = "head"
  /\ tx_buffer' = [tx_buffer EXCEPT ![tx_head] = c]
  /\ tx_head' = NextIndex(tx_head)
  /\ UNCHANGED <<sreg_i, usart, tx_tail, handler, written, c, atomic, sent>>

WriteStore ==
  /\ Running("wait") /\ NextIndex(tx_head) # tx_tail
  /\ pc' = "head"
  /\ tx_buffer' = [tx_buffer EXCEPT ![tx_head] = c]
  /\ UNCHANGED <<sreg_i, usart, tx_head, tx_tail, handler, written, c, atomic, sent>>

\* The head moves and the interrupt is enabled in one atomic block.
WriteEnable ==
  /\ Running("head")
  /\ pc' = "idle"
  /\ tx_head' = NextIndex(tx_head)
  /\ udrie' = 1
  /\ c' = 0
  /\ UNCHANGED <<sreg_i, txen, txc, udr, shift, tx_buffer, tx_tail, handler, written, atomic, sent>>

-----------------------------------------------------------------------------
(* flush(), alone and as the first part of end().                           *)

Flush(after) ==
  /\ Running("idle") /\ txen = 1
  /\ pc' = IF written THEN after ELSE IF after = "end" THEN "close" ELSE "idle"
  /\ UNCHANGED <<sreg_i, usart, ring, handler, written, c, atomic, sent>>

\* The loop condition: UDRIE first ...
FlushQueued == Running("flush") \/ Running("end")

\* With the interrupts off flush() calls the handler itself.
FlushPoll ==
  /\ FlushQueued
  /\ udrie = 1 /\ sreg_i = 0 /\ udr = Empty
  /\ TakeByte

\* ... then TXC.  Only the program sets UDRIE, so it stays off while flush() waits.
FlushUdrie ==
  /\ FlushQueued /\ udrie = 0
  /\ pc' = IF pc = "flush" THEN "txc" ELSE "endTxc"
  /\ UNCHANGED <<sreg_i, usart, ring, handler, written, c, atomic, sent>>

\* A version that takes an empty ring for the end of the transmission.
FlushDoneEarly ==
  /\ Running("txc") \/ Running("endTxc")
  /\ pc' = IF pc = "txc" THEN "idle" ELSE "close"
  /\ UNCHANGED <<sreg_i, usart, ring, handler, written, c, atomic, sent>>

FlushDone ==
  /\ Running("txc") \/ Running("endTxc")
  /\ txc = 1
  /\ pc' = IF pc = "txc" THEN "idle" ELSE "close"
  /\ UNCHANGED <<sreg_i, usart, ring, handler, written, c, atomic, sent>>

\* end() switches the transmitter off.
End ==
  /\ Running("close")
  /\ pc' = "idle"
  /\ txen' = 0 /\ udrie' = 0
  /\ UNCHANGED <<sreg_i, txc, udr, shift, ring, handler, written, c, atomic, sent>>

\* begin() opens the port.  It forgets that anything was written.
Begin ==
  /\ Running("idle")
  /\ txen = 0 \/ Reopen
  /\ txen' = 1 /\ udrie' = 0
  /\ written' = FALSE
  /\ UNCHANGED <<sreg_i, txc, udr, shift, ring, handler, pc, c, atomic, sent>>

\* noInterrupts() and interrupts().
NoInterrupts ==
  /\ Running("idle") /\ sreg_i = 1
  /\ sreg_i' = 0
  /\ UNCHANGED <<usart, ring, handler, program, sent>>

Interrupts ==
  /\ Running("idle") /\ sreg_i = 0
  /\ sreg_i' = 1
  /\ UNCHANGED <<usart, ring, handler, program, sent>>

-----------------------------------------------------------------------------

\* The program inside a call, which it does not leave half done.
InCall ==
  \/ WriteEmpty \/ WriteBuffered \/ WriteDirect \/ WriteDirectClear
  \/ WritePoll \/ WriteStore \/ WriteEnable
  \/ FlushPoll \/ FlushUdrie \/ FlushDone \/ End

Handler == Irq \/ IrqSend \/ IrqClear

Next ==
  \/ LineDone \/ Handler \/ InCall
  \/ \E b \in Byte : Write(b)
  \/ Flush("flush") \/ Flush("end")
  \/ Begin \/ NoInterrupts \/ Interrupts

\* The line, the processor and the interrupts go on; the program may stop
\* between two calls.
Spec ==
  /\ Init /\ [][Next]_vars
  /\ WF_vars(LineDone) /\ WF_vars(Handler) /\ WF_vars(InCall)

-----------------------------------------------------------------------------
(* Properties.                                                              *)

TypeOK ==
  /\ sreg_i \in 0 .. 1 /\ udrie \in 0 .. 1 /\ txen \in 0 .. 1 /\ txc \in 0 .. 1
  /\ udr \in Byte \cup {Empty} /\ shift \in Byte \cup {Empty}
  /\ tx_buffer \in [Slot -> Byte] /\ tx_head \in Slot /\ tx_tail \in Slot
  /\ irq \in {"none", "send", "clear"} /\ irqByte \in Byte /\ irqSreg \in 0 .. 1
  /\ written \in BOOLEAN /\ c \in Byte /\ atomic \in 0 .. 1
  /\ pc \in {"idle", "write", "udre", "direct", "wait", "head", "flush", "txc",
             "end", "endTxc", "close"}
  /\ sent \in Byte \cup {Empty}

Count    == (TxSize + tx_head - tx_tail) % TxSize
Buffered == [k \in 1 .. Count |-> tx_buffer[(tx_tail + k - 1) % TxSize]]
One(b)   == IF b = Empty THEN <<>> ELSE <<b>>

\* All bytes under way, from the line back to the ring.
UnderWay == One(shift) \o One(udr) \o (IF irq = "send" THEN <<irqByte>> ELSE <<>>) \o Buffered

\* Between two bytes the interrupt is enabled exactly if something is in the
\* ring: a byte is neither left behind nor sent from an empty ring.  Only the
\* handler runs with an empty ring before it disables the interrupt.
UdrieMatchesRing ==
  ~Reopen /\ irq = "none" => (udrie = 1 <=> Count > 0)

\* The ring, the interrupt, the shortcut past the ring and the calls of the
\* handler together are a queue.
TxFifo == INSTANCE TxQueue WITH queue <- UnderWay, Capacity <- TxSize + 1
TxFifoSpec == TxFifo!Spec

\* A comment in flush() says that nothing is queued any more and the hardware
\* has finished when the loop ends.
FlushedMeansSent == [][FlushDone => UnderWay = <<>>]_vars

\* write(), flush() and end() return, with the interrupts on or off.
CallReturns == pc # "idle" ~> pc = "idle"

\* A comment in write() says that with the interrupts on the handler will free
\* up space while write() waits: it returns.
WriteReturns == pc = "wait" ~> pc # "wait"
==============================================================================
