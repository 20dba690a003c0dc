------------------------------- MODULE SerialRx ------------------------------
(***************************************************************************)
(* The receive side of HardwareSerial (the Serial object of the sketch):   *)
(* the USART hands bytes to the receive interrupt, the interrupt stores    *)
(* them in a ring buffer, and the main program takes them out with         *)
(* available(), peek() and read().  Neither side locks: the interrupt owns *)
(* _rx_buffer_head and the main program owns _rx_buffer_tail, and the      *)
(* interrupt may run between any two accesses of the main program.  Each   *)
(* access of read() and peek() to shared state is therefore a step.        *)
(***************************************************************************)
EXTENDS Integers, Sequences

CONSTANTS
  Byte,          \* the values a byte can take
  RxSize,        \* SERIAL_RX_BUFFER_SIZE
  UdrDepth,      \* bytes the USART holds until the interrupt fetches them
  ParityError,   \* subset of BOOLEAN: can a byte carry a parity error?
  MaxArrivals    \* bound on the bytes the line delivers

\* Up to 256 the indexes are bytes, which the AVR reads and writes in one go.
ASSUME RxSizeAssumption == RxSize \in 1 .. 256
ASSUME ByteAssumption == 0 \in Byte /\ Byte \subseteq 0 .. 255
ASSUME UdrAssumption ==
  /\ UdrDepth \in Nat \ {0}
  /\ ParityError \subseteq BOOLEAN
  /\ MaxArrivals \in Nat

VARIABLES
  sreg_i,      \* the global interrupt enable bit of SREG
  ucsrb,       \* the RXEN0 and RXCIE0 bits of the USART control register
  udr,         \* what the USART has received and the interrupt not fetched
  rx_buffer,   \* _rx_buffer
  rx_head,     \* _rx_buffer_head: next slot the interrupt writes
  rx_tail,     \* _rx_buffer_tail: next slot the main program reads
  pc,          \* where the main program is inside a call on Serial
  c,           \* the local variable c of read()
  avail,       \* what available() last promised, less what was read since
  last,        \* what the latest read() or peek() returned
  refused,     \* bytes the interrupt discarded because the ring was full
  arrivals     \* bytes the line has delivered (bounds the model)

hardware == <<sreg_i, ucsrb, udr, arrivals>>
ring     == <<rx_buffer, rx_head, rx_tail>>
program  == <<pc, c, avail, last>>
vars     == <<hardware, ring, program, refused>>

NoData == -1
Slot   == 0 .. RxSize - 1
Frame  == [data : Byte, upe : BOOLEAN]

NextIndex(i) == (i + 1) % RxSize

\* available(): the unsigned difference of the two indexes.
Count == (RxSize + rx_head - rx_tail) % RxSize

\* The unread bytes, oldest first.
Contents == [k \in 1 .. Count |-> rx_buffer[(rx_tail + k - 1) % RxSize]]

Init ==
  /\ sreg_i = TRUE
  /\ ucsrb = [rxen |-> FALSE, rxcie |-> FALSE]
  /\ udr = <<>>
  /\ rx_buffer = [i \in Slot |-> 0]
  /\ rx_head = 0
  /\ rx_tail = 0
  /\ pc = "idle"
  /\ c = 0
  /\ avail = 0
  /\ last = NoData
  /\ refused = 0
  /\ arrivals = 0

------------------------------------------------------------------------------
(* The USART and its interrupt.                                             *)

\* A byte is complete on the line.  When the USART has no place left, the
\* byte is lost, or it takes the place of the newest one held.
LineByte(f) ==
  /\ ucsrb.rxen
  /\ arrivals < MaxArrivals
  /\ arrivals' = arrivals + 1
  /\ \/ Len(udr) < UdrDepth /\ udr' = Append(udr, f)
     \/ Len(udr) = UdrDepth /\ udr' \in {udr, [udr EXCEPT ![UdrDepth] = f]}
  /\ UNCHANGED <<sreg_i, ucsrb, ring, program, refused>>

\* A byte with a parity error is fetched and dropped.
DiscardBadByte ==
  /\ Head(udr).upe
  /\ UNCHANGED <<ring, refused>>

\* The byte goes into the slot at the head, and the head moves on to it.
StoreByte ==
  /\ ~Head(udr).upe
  /\ NextIndex(rx_head) # rx_tail
  /\ rx_buffer' = [rx_buffer EXCEPT ![rx_head] = Head(udr).data]
  /\ rx_head' = NextIndex(rx_head)
  /\ UNCHANGED <<rx_tail, refused>>

\* The slot after the head is the tail: the ring is full, the byte is dropped.
DropByte ==
  /\ ~Head(udr).upe
  /\ NextIndex(rx_head) = rx_tail
  /\ refused' = refused + 1
  /\ UNCHANGED ring

\* _rx_complete_irq(), which runs with interrupts off and so in one step.
RxCompleteIrq ==
  /\ sreg_i /\ ucsrb.rxcie /\ udr # <<>>
  /\ udr' = Tail(udr)
  /\ DiscardBadByte \/ StoreByte \/ DropByte
  /\ UNCHANGED <<sreg_i, ucsrb, arrivals, program>>

------------------------------------------------------------------------------
(* The main program.                                                        *)

\* begin(): the receiver and its interrupt are switched on.
Begin ==
  /\ pc = "idle"
  /\ ucsrb' = [rxen |-> TRUE, rxcie |-> TRUE]
  /\ UNCHANGED <<sreg_i, udr, arrivals, ring, program, refused>>

\* end(): first the receiver is switched off, which also empties the USART...
EndReceiver ==
  /\ pc = "idle"
  /\ pc' = "end"
  /\ ucsrb' = [ucsrb EXCEPT !.rxen = FALSE]
  /\ udr' = <<>>
  /\ UNCHANGED <<sreg_i, arrivals, ring, c, avail, last, refused>>

\* ... then its interrupt ...
EndInterrupt ==
  /\ pc = "end"
  /\ pc' = "ended"
  /\ ucsrb' = [ucsrb EXCEPT !.rxcie = FALSE]
  /\ UNCHANGED <<sreg_i, udr, arrivals, ring, c, avail, last, refused>>

\* ... and last the bytes nobody read are thrown away.
EndClear ==
  /\ pc = "ended"
  /\ pc' = "idle"
  /\ rx_head' = rx_tail
  /\ avail' = 0
  /\ UNCHANGED <<hardware, rx_buffer, rx_tail, c, last, refused>>

\* A version whose difference of the indexes is not taken modulo the size.
AvailableNoModulo ==
  /\ pc = "idle"
  /\ avail' = RxSize + rx_head - rx_tail
  /\ UNCHANGED <<hardware, ring, pc, c, last, refused>>

\* available()
Available ==
  /\ pc = "idle"
  /\ avail' = Count
  /\ UNCHANGED <<hardware, ring, pc, c, last, refused>>

\* read() or peek() finds the two indexes equal and returns -1.
ReadNothing ==
  /\ pc = "idle"
  /\ rx_head = rx_tail
  /\ last' = NoData
  /\ UNCHANGED <<hardware, ring, pc, c, avail, refused>>

\* read() finds the two indexes different ...
ReadCheck ==
  /\ pc = "idle"
  /\ rx_head # rx_tail
  /\ pc' = "reading"
  /\ UNCHANGED <<hardware, ring, c, avail, last, refused>>

\* ... copies the byte out of its slot ...
ReadLoad ==
  /\ pc = "reading"
  /\ pc' = "loaded"
  /\ c' = rx_buffer[rx_tail]
  /\ UNCHANGED <<hardware, ring, avail, last, refused>>

\* A version that moves the tail first and then returns what it points to.
ReadAdvanceFirst ==
  /\ pc = "loaded"
  /\ pc' = "idle"
  /\ rx_tail' = NextIndex(rx_tail)
  /\ last' = rx_buffer[rx_tail']
  /\ avail' = IF avail > 0 THEN avail - 1 ELSE 0
  /\ UNCHANGED <<hardware, rx_buffer, rx_head, c, refused>>

\* ... and only then gives the slot back by moving the tail.
ReadAdvance ==
  /\ pc = "loaded"
  /\ pc' = "idle"
  /\ rx_tail' = NextIndex(rx_tail)
  /\ last' = c
  /\ avail' = IF avail > 0 THEN avail - 1 ELSE 0
  /\ UNCHANGED <<hardware, rx_buffer, rx_head, c, refused>>

\* peek() finds the two indexes different ...
PeekCheck ==
  /\ pc = "idle"
  /\ rx_head # rx_tail
  /\ pc' = "peeking"
  /\ UNCHANGED <<hardware, ring, c, avail, last, refused>>

\* ... and returns the byte, which stays.
PeekLoad ==
  /\ pc = "peeking"
  /\ pc' = "idle"
  /\ last' = rx_buffer[rx_tail]
  /\ UNCHANGED <<hardware, ring, c, avail, refused>>

\* cli() and sei(), as show() of the LED driver calls them.
NoInterrupts ==
  /\ pc = "idle" /\ sreg_i
  /\ sreg_i' = FALSE
  /\ UNCHANGED <<ucsrb, udr, arrivals, ring, program, refused>>

Interrupts ==
  /\ pc = "idle" /\ ~sreg_i
  /\ sreg_i' = TRUE
  /\ UNCHANGED <<ucsrb, udr, arrivals, ring, program, refused>>

Next ==
  \/ \E b \in Byte, e \in ParityError : LineByte([data |-> b, upe |-> e])
  \/ RxCompleteIrq
  \/ Begin \/ EndReceiver \/ EndInterrupt \/ EndClear
  \/ Available
  \/ ReadNothing \/ ReadCheck \/ ReadLoad \/ ReadAdvance
  \/ PeekCheck \/ PeekLoad
  \/ NoInterrupts \/ Interrupts

Spec == Init /\ [][Next]_vars

------------------------------------------------------------------------------
(* Properties.                                                              *)

\* Every variable stays in its range: the indexes always name a slot of the
\* ring, whatever the interrupt and the main program do to them.
TypeOK ==
  /\ sreg_i \in BOOLEAN
  /\ ucsrb \in [rxen : BOOLEAN, rxcie : BOOLEAN]
  /\ udr \in Seq(Frame) /\ Len(udr) <= UdrDepth
  /\ rx_buffer \in [Slot -> Byte]
  /\ rx_head \in Slot /\ rx_tail \in Slot
  /\ pc \in {"idle", "reading", "loaded", "peeking", "end", "ended"}
  /\ c \in Byte
  /\ avail \in Nat
  /\ last \in Byte \cup {NoData}
  /\ refused \in Nat
  /\ arrivals \in Nat

\* What available() announced can be read: no interrupt between available()
\* and the reads that rely on it makes the number of waiting bytes smaller
\* (receiveMsg() of the sketch reads without looking at the -1 of read()).
AvailableIsLowerBound == avail <= Count

\* The facts about a call in progress that keep the two sides apart: the slot
\* being read is not the one the interrupt writes, and its copy stays good.
CallInProgress ==
  /\ pc \in {"reading", "loaded", "peeking"} => rx_head # rx_tail
  /\ pc = "loaded" => c = rx_buffer[rx_tail]

\* The inductive invariant that the theorems rest on.
RingInv == TypeOK /\ CallInProgress /\ AvailableIsLowerBound

\* Ring, indexes and interrupt together are a bounded queue: bytes come out
\* in the order they arrived, none twice, none torn, and the only ones refused
\* are those that found RxSize - 1 bytes waiting.
Fifo == INSTANCE RxQueue WITH Capacity <- RxSize - 1, queue <- Contents
FifoSpec == Fifo!Spec
==============================================================================
