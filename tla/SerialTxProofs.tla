---------------------------- MODULE SerialTxProofs ----------------------------
(***************************************************************************)
(* The invariant of the transmit side, and that its ring, its interrupt,   *)
(* the shortcut past the ring and the polling calls of the handler         *)
(* together implement the bounded queue of TxQueue, for every size of the  *)
(* ring and every set of byte values, as long as the program does not call *)
(* begin() on an open port.                                                *)
(***************************************************************************)
EXTENDS SerialTx, ProofLemmas, SequenceTheorems, TLAPS

(***************************************************************************)
(* The invariant.  UdrieMatchesRing is what the code relies on; it is not  *)
(* inductive by itself: whether the interrupt may come, and so whether the *)
(* ring may change, depends on where the program is.                       *)
(***************************************************************************)

\* A byte waits in the data register only behind one on the line, and the
\* handler has found the register empty.
RegisterOrder ==
  /\ udr # Empty => shift # Empty
  /\ irq = "send" => udr = Empty

\* The handler runs with the interrupts off and still enabled in UCSR0B; when
\* it has returned the enable bit says whether something is in the ring.
HandlerState ==
  /\ irq # "none" => udrie = 1 /\ sreg_i = 0
  /\ irq = "none" => (udrie = 1 <=> tx_head # tx_tail)

\* Where the program is inside a call no handler runs and the ring is empty, or
\* has the room and the byte that write() has seen.
CallState ==
  /\ pc \in {"udre", "direct", "txc", "endTxc", "close"} => irq = "none" /\ udrie = 0
  /\ pc = "direct" => sreg_i = 0
  /\ pc = "head" => NextIndex(tx_head) # tx_tail /\ tx_buffer[tx_head] = c

\* A port that is closed or has not been written to has nothing in the ring.
PortState ==
  /\ txen = 0 => pc = "idle" /\ irq = "none" /\ udrie = 0
  /\ ~written => pc \in {"idle", "close"} /\ irq = "none" /\ udrie = 0

\* TXC is set only if the line is free, except between loading a byte and
\* clearing TXC.
TxcState == txc = 1 /\ irq # "clear" /\ pc # "direct" => shift = Empty

TxInv ==
  /\ TypeOK /\ RegisterOrder /\ HandlerState /\ CallState /\ PortState /\ TxcState

(***************************************************************************)
(* The indexes of the ring, with the facts of ProofLemmas.              *)
(***************************************************************************)

LEMMA RingSize == TxSize \in Nat \ {0} /\ TxSize > 1
BY TxSizeAssumption

LEMMA NextIndexCases ==
  ASSUME NEW i \in Slot
  PROVE  /\ NextIndex(i) \in Slot
         /\ i < TxSize - 1 => NextIndex(i) = i + 1
         /\ i = TxSize - 1 => NextIndex(i) = 0
BY AfterCases, RingSize DEF NextIndex, After, Slot

\* No slot follows itself, and no two slots are followed by the same one.
LEMMA NextIndexDiffers ==
  ASSUME NEW i \in Slot, NEW j \in Slot
  PROVE  /\ NextIndex(i) # i
         /\ i # j => NextIndex(i) # NextIndex(j)
BY NextIndexCases, RingSize DEF Slot

\* Count is the distance from the tail to the head.
LEMMA CountFacts ==
  ASSUME TypeOK
  PROVE  /\ Count \in 0 .. TxSize - 1
         /\ Count = Between(TxSize, tx_head, tx_tail)
         /\ Count = 0 <=> tx_head = tx_tail
<1>1. /\ tx_head \in 0 .. TxSize - 1 /\ tx_tail \in 0 .. TxSize - 1
      /\ TxSize \in Nat \ {0}
  BY RingSize DEF TypeOK, Slot
<1>2. Count = Between(TxSize, tx_head, tx_tail)
  BY DEF Count, Between
<1>3. /\ Count \in 0 .. TxSize - 1
      /\ tx_head >= tx_tail => Count = tx_head - tx_tail
      /\ tx_head < tx_tail => Count = TxSize + tx_head - tx_tail
  BY <1>1, <1>2, BetweenCases
<1> QED
  BY <1>1, <1>2, <1>3

(***************************************************************************)
(* Every step keeps the invariant.                                         *)
(***************************************************************************)

LEMMA InitEstablishesTxInv == Init => TxInv
<1> SUFFICES ASSUME Init PROVE TxInv
  OBVIOUS
<1>1. TypeOK
  <2>1. 0 \in Slot /\ 0 \in Byte
    BY RingSize, ByteAssumption DEF Slot
  <2>2. written \in BOOLEAN
    BY Zenon DEF Init
  <2>3. tx_buffer \in [Slot -> Byte]
    BY <2>1 DEF Init
  <2> QED
    BY <2>1, <2>2, <2>3 DEF Init, TypeOK
<1>2. RegisterOrder /\ HandlerState /\ TxcState
  BY DEF Init, RegisterOrder, HandlerState, TxcState, Empty
<1>3. CallState /\ PortState
  BY DEF Init, CallState, PortState
<1> QED
  BY <1>1, <1>2, <1>3 DEF TxInv

\* The line takes the byte from the data register, or reports that it is free.
LEMMA LineDoneKeepsTxInv ==
  ASSUME TxInv, LineDone
  PROVE  TxInv'
<1> USE DEF TxInv, TypeOK, LineDone, JustLoaded, ring, handler, program, Empty
<1>1. TypeOK'
  OBVIOUS
<1>2. RegisterOrder'
  BY DEF RegisterOrder
<1>3. HandlerState'
  BY DEF HandlerState
<1>4. CallState'
  BY DEF CallState
<1>5. PortState'
  BY DEF PortState
<1>6. TxcState'
  BY DEF TxcState
<1> QED
  BY <1>1, <1>2, <1>3, <1>4, <1>5, <1>6

\* The handler takes a byte only from a ring that is not empty, so the room that
\* write() has seen stays.
LEMMA TakeByteKeepsTxInv ==
  ASSUME TxInv, TakeByte, irq = "none", udrie = 1, udr = Empty
  PROVE  TxInv'
<1> USE DEF TxInv, TypeOK, TakeByte, usart, program, Empty
<1>1. tx_head # tx_tail /\ tx_tail' \in Slot
  BY NextIndexCases DEF HandlerState
<1>2. pc = "head" => NextIndex(tx_head) # tx_tail'
  BY <1>1, NextIndexDiffers
<1>3. TypeOK'
  BY <1>1
<1>4. RegisterOrder'
  BY DEF RegisterOrder
<1>5. HandlerState'
  BY DEF HandlerState
<1>6. CallState'
  BY <1>2 DEF CallState
<1>7. PortState'
  BY DEF PortState
<1>8. TxcState'
  BY DEF TxcState
<1> QED
  BY <1>3, <1>4, <1>5, <1>6, <1>7, <1>8

LEMMA IrqSendKeepsTxInv ==
  ASSUME TxInv, IrqSend
  PROVE  TxInv'
<1> USE DEF TxInv, TypeOK, IrqSend, Load, ring, program, Empty
<1>1. TypeOK'
  OBVIOUS
<1>2. RegisterOrder'
  BY DEF RegisterOrder
<1>3. HandlerState'
  BY DEF HandlerState
<1>4. CallState'
  BY DEF CallState
<1>5. PortState'
  BY DEF PortState
<1>6. TxcState'
  BY DEF TxcState
<1> QED
  BY <1>1, <1>2, <1>3, <1>4, <1>5, <1>6

\* The handler switches its interrupt off when it leaves the ring empty.
LEMMA IrqClearKeepsTxInv ==
  ASSUME TxInv, IrqClear
  PROVE  TxInv'
<1> USE DEF TxInv, TypeOK, IrqClear, ring, program, Empty
<1>1. TypeOK'
  BY ByteAssumption
<1>2. RegisterOrder'
  BY DEF RegisterOrder
<1>3. HandlerState'
  BY DEF HandlerState
<1>4. CallState'
  BY DEF CallState
<1>5. PortState'
  BY DEF PortState
<1>6. TxcState'
  BY DEF TxcState
<1> QED
  BY <1>1, <1>2, <1>3, <1>4, <1>5, <1>6

LEMMA WriteKeepsTxInv ==
  ASSUME TxInv, \E b \in Byte : Write(b)
  PROVE  TxInv'
<1> USE DEF TxInv, TypeOK, Write, Running, usart, ring, handler
<1>1. TypeOK'
  OBVIOUS
<1>2. RegisterOrder'
  BY DEF RegisterOrder
<1>3. HandlerState'
  BY DEF HandlerState
<1>4. CallState'
  BY DEF CallState
<1>5. PortState'
  BY DEF PortState
<1>6. TxcState'
  BY DEF TxcState
<1> QED
  BY <1>1, <1>2, <1>3, <1>4, <1>5, <1>6

LEMMA WriteEmptyKeepsTxInv ==
  ASSUME TxInv, WriteEmpty \/ WriteBuffered
  PROVE  TxInv'
<1> USE DEF TxInv, TypeOK, WriteEmpty, WriteBuffered, Running, usart, ring, handler
<1>1. TypeOK'
  OBVIOUS
<1>2. RegisterOrder'
  BY DEF RegisterOrder
<1>3. HandlerState'
  BY DEF HandlerState
<1>4. CallState'
  BY DEF HandlerState, CallState
<1>5. PortState'
  BY DEF PortState
<1>6. TxcState'
  BY DEF TxcState
<1> QED
  BY <1>1, <1>2, <1>3, <1>4, <1>5, <1>6

\* write() passes the ring by only if it is empty and the register is free.
LEMMA WriteDirectKeepsTxInv ==
  ASSUME TxInv, WriteDirect
  PROVE  TxInv'
<1> USE DEF TxInv, TypeOK, WriteDirect, Running, Load, ring, handler, Empty
<1>1. TypeOK'
  OBVIOUS
<1>2. RegisterOrder'
  BY DEF RegisterOrder
<1>3. HandlerState'
  BY DEF HandlerState
<1>4. CallState'
  BY DEF CallState
<1>5. PortState'
  BY DEF PortState
<1>6. TxcState'
  BY DEF TxcState
<1> QED
  BY <1>1, <1>2, <1>3, <1>4, <1>5, <1>6

LEMMA WriteDirectClearKeepsTxInv ==
  ASSUME TxInv, WriteDirectClear
  PROVE  TxInv'
<1> USE DEF TxInv, TypeOK, WriteDirectClear, Running, ring, handler, Empty
<1>1. TypeOK'
  BY ByteAssumption
<1>2. RegisterOrder'
  BY DEF RegisterOrder
<1>3. HandlerState'
  BY DEF HandlerState
<1>4. CallState'
  BY DEF CallState
<1>5. PortState'
  BY DEF PortState
<1>6. TxcState'
  BY DEF TxcState
<1> QED
  BY <1>1, <1>2, <1>3, <1>4, <1>5, <1>6

\* The byte goes into the free slot at the head, which no handler reads.
LEMMA WriteStoreKeepsTxInv ==
  ASSUME TxInv, WriteStore
  PROVE  TxInv'
<1> USE DEF TxInv, TypeOK, WriteStore, Running, usart, handler
<1>1. TypeOK'
  OBVIOUS
<1>2. RegisterOrder'
  BY DEF RegisterOrder
<1>3. HandlerState'
  BY DEF HandlerState
<1>4. CallState'
  BY DEF CallState
<1>5. PortState'
  BY DEF PortState
<1>6. TxcState'
  BY DEF TxcState
<1> QED
  BY <1>1, <1>2, <1>3, <1>4, <1>5, <1>6

\* The head moves past a slot that is free, and the interrupt is wanted now.
LEMMA WriteEnableKeepsTxInv ==
  ASSUME TxInv, WriteEnable
  PROVE  TxInv'
<1> USE DEF TxInv, TypeOK, WriteEnable, Running, handler
<1>1. TypeOK'
  BY NextIndexCases, ByteAssumption
<1>2. RegisterOrder'
  BY DEF RegisterOrder
<1>3. HandlerState'
  BY DEF HandlerState, CallState
<1>4. CallState'
  BY DEF CallState
<1>5. PortState'
  BY DEF PortState
<1>6. TxcState'
  BY DEF TxcState
<1> QED
  BY <1>1, <1>2, <1>3, <1>4, <1>5, <1>6

LEMMA FlushKeepsTxInv ==
  ASSUME TxInv, Flush("flush") \/ Flush("end")
  PROVE  TxInv'
<1> USE DEF TxInv, TypeOK, Flush, Running, usart, ring, handler
<1>1. TypeOK'
  OBVIOUS
<1>2. RegisterOrder'
  BY DEF RegisterOrder
<1>3. HandlerState'
  BY DEF HandlerState
<1>4. CallState'
  BY DEF CallState, PortState
<1>5. PortState'
  BY DEF PortState
<1>6. TxcState'
  BY DEF TxcState
<1> QED
  BY <1>1, <1>2, <1>3, <1>4, <1>5, <1>6

LEMMA FlushUdrieKeepsTxInv ==
  ASSUME TxInv, FlushUdrie
  PROVE  TxInv'
<1> USE DEF TxInv, TypeOK, FlushUdrie, FlushQueued, Running, usart, ring, handler
<1>1. TypeOK'
  OBVIOUS
<1>2. RegisterOrder'
  BY DEF RegisterOrder
<1>3. HandlerState'
  BY DEF HandlerState
<1>4. CallState'
  BY DEF CallState
<1>5. PortState'
  BY DEF PortState
<1>6. TxcState'
  BY DEF TxcState
<1> QED
  BY <1>1, <1>2, <1>3, <1>4, <1>5, <1>6

LEMMA FlushDoneKeepsTxInv ==
  ASSUME TxInv, FlushDone
  PROVE  TxInv'
<1> USE DEF TxInv, TypeOK, FlushDone, Running, usart, ring, handler
<1>1. TypeOK'
  OBVIOUS
<1>2. RegisterOrder'
  BY DEF RegisterOrder
<1>3. HandlerState'
  BY DEF HandlerState
<1>4. CallState'
  BY DEF CallState
<1>5. PortState'
  BY DEF PortState
<1>6. TxcState'
  BY DEF TxcState
<1> QED
  BY <1>1, <1>2, <1>3, <1>4, <1>5, <1>6

LEMMA EndKeepsTxInv ==
  ASSUME TxInv, End
  PROVE  TxInv'
<1> USE DEF TxInv, TypeOK, End, Running, ring, handler
<1>1. TypeOK'
  OBVIOUS
<1>2. RegisterOrder'
  BY DEF RegisterOrder
<1>3. HandlerState'
  BY DEF HandlerState, CallState
<1>4. CallState'
  BY DEF CallState
<1>5. PortState'
  BY DEF PortState
<1>6. TxcState'
  BY DEF TxcState
<1> QED
  BY <1>1, <1>2, <1>3, <1>4, <1>5, <1>6

LEMMA InterruptsKeepsTxInv ==
  ASSUME TxInv, NoInterrupts \/ Interrupts
  PROVE  TxInv'
<1> USE DEF TxInv, TypeOK, NoInterrupts, Interrupts, Running, usart, ring, handler, program
<1>1. TypeOK'
  OBVIOUS
<1>2. RegisterOrder'
  BY DEF RegisterOrder
<1>3. HandlerState'
  BY DEF HandlerState
<1>4. CallState'
  BY DEF CallState
<1>5. PortState'
  BY DEF PortState
<1>6. TxcState'
  BY DEF TxcState
<1> QED
  BY <1>1, <1>2, <1>3, <1>4, <1>5, <1>6

\* Without a second begin() the port is closed here, and nothing is in the ring.
LEMMA BeginKeepsTxInv ==
  ASSUME TxInv, Begin, ~Reopen
  PROVE  TxInv'
<1>1. txen = 0
  BY Zenon DEF Begin
<1>2. /\ pc = "idle" /\ irq = "none" /\ txen' = 1 /\ udrie' = 0
      /\ UNCHANGED <<sreg_i, txc, udr, shift, ring, handler, pc, c, atomic, sent>>
  BY Zenon DEF Begin, Running
<1>3. written' \in BOOLEAN
  BY Zenon DEF Begin
<1>4. TypeOK'
  BY <1>2, <1>3 DEF TxInv, TypeOK, ring, handler
<1>5. RegisterOrder' /\ TxcState'
  BY <1>2 DEF TxInv, RegisterOrder, TxcState, handler
<1>6. HandlerState' /\ CallState' /\ PortState'
  BY <1>1, <1>2
  DEF TxInv, HandlerState, CallState, PortState, ring, handler
<1> QED
  BY <1>4, <1>5, <1>6 DEF TxInv

LEMMA NextKeepsTxInv ==
  ASSUME ~Reopen, TxInv, [Next]_vars
  PROVE  TxInv'
<1>1. CASE LineDone
  BY <1>1, LineDoneKeepsTxInv
<1>2. CASE Handler
  BY <1>2, TakeByteKeepsTxInv, IrqSendKeepsTxInv, IrqClearKeepsTxInv DEF Handler, Irq
<1>3. CASE InCall
  <2>1. CASE WritePoll \/ FlushPoll
    <3>1. TakeByte /\ irq = "none" /\ udr = Empty
      BY <2>1 DEF WritePoll, FlushPoll, FlushQueued, Running
    <3>2. udrie = 1
      BY <2>1, NextIndexDiffers
      DEF WritePoll, FlushPoll, Running, TxInv, TypeOK, HandlerState
    <3> QED
      BY <3>1, <3>2, TakeByteKeepsTxInv
  <2>2. CASE WriteEmpty \/ WriteBuffered \/ WriteDirect \/ WriteDirectClear
    BY <2>2, WriteEmptyKeepsTxInv, WriteDirectKeepsTxInv, WriteDirectClearKeepsTxInv
  <2>3. CASE WriteStore \/ WriteEnable
    BY <2>3, WriteStoreKeepsTxInv, WriteEnableKeepsTxInv
  <2>4. CASE FlushUdrie \/ FlushDone \/ End
    BY <2>4, FlushUdrieKeepsTxInv, FlushDoneKeepsTxInv, EndKeepsTxInv
  <2> QED
    BY <1>3, <2>1, <2>2, <2>3, <2>4 DEF InCall
<1>4. CASE \E b \in Byte : Write(b)
  BY <1>4, WriteKeepsTxInv
<1>5. CASE Flush("flush") \/ Flush("end")
  BY <1>5, FlushKeepsTxInv
<1>6. CASE Begin \/ NoInterrupts \/ Interrupts
  BY <1>6, BeginKeepsTxInv, InterruptsKeepsTxInv
<1>7. CASE UNCHANGED vars
  BY <1>7
  DEF vars, usart, ring, handler, program, TxInv, TypeOK, RegisterOrder,
      HandlerState, CallState, PortState, TxcState
<1> QED
  BY <1>1, <1>2, <1>3, <1>4, <1>5, <1>6, <1>7 DEF Next

\* In a program that does not reopen the port the registers, the ring and the
\* calls of write(), flush() and end() stay consistent with each other.
THEOREM TxInvariant ==
  ASSUME ~Reopen
  PROVE  Spec => []TxInv
<1>1. Init => TxInv
  BY InitEstablishesTxInv
<1>2. TxInv /\ [Next]_vars => TxInv'
  BY NextKeepsTxInv
<1> QED
  BY <1>1, <1>2, PTL DEF Spec

\* The data register empty interrupt is enabled exactly if a byte is in the
\* ring, however the interrupts, the polling calls and end() follow each other.
THEOREM UdrieIsRight ==
  ASSUME ~Reopen
  PROVE  Spec => []UdrieMatchesRing
<1>1. TxInv => UdrieMatchesRing
  BY CountFacts DEF TxInv, HandlerState, UdrieMatchesRing
<1> QED
  BY <1>1, TxInvariant, PTL

(***************************************************************************)
(* The bytes under way.                                                    *)
(***************************************************************************)

\* The byte that the handler holds in its local variable.
Held == IF irq = "send" THEN <<irqByte>> ELSE <<>>

\* The bytes in the ring are a sequence of Count bytes.
BufferedFacts ==
  /\ Buffered \in Seq(Byte)
  /\ Len(Buffered) = Count
  /\ \A k \in 1 .. Count : Buffered[k] = tx_buffer[Place(TxSize, tx_tail, k)]

LEMMA BufferedLemma == TypeOK => BufferedFacts
<1> SUFFICES ASSUME TypeOK PROVE BufferedFacts
  OBVIOUS
<1>1. Count \in 0 .. TxSize - 1
  BY CountFacts
<1>2. ASSUME NEW k \in 1 .. Count
      PROVE  tx_buffer[(tx_tail + k - 1) % TxSize] \in Byte
  <2>1. k \in 1 .. TxSize
    BY <1>1, RingSize
  <2>2. Place(TxSize, tx_tail, k) \in Slot
    BY <2>1, PlaceCases, RingSize DEF TypeOK, Slot
  <2> QED
    BY <2>2 DEF Place, TypeOK
<1>3. Buffered \in [1 .. Count -> Byte]
  BY <1>2 DEF Buffered
<1>4. Buffered \in Seq(Byte) /\ Len(Buffered) = Count
  BY <1>1, <1>3, RingSize
<1> QED
  BY <1>4 DEF BufferedFacts, Buffered, Place

LEMMA BufferedUnchanged == UNCHANGED ring => Buffered' = Buffered
BY DEF ring, Buffered, Count

\* The slots that hold bytes are those before the head.
LEMMA StoredPlaces ==
  ASSUME TypeOK, NEW k \in 1 .. Count
  PROVE  Place(TxSize, tx_tail, k) \in Slot \ {tx_head}
<1>1. k \in 1 .. TxSize
  BY CountFacts, RingSize
<1>2. Place(TxSize, tx_tail, k) \in Slot
  BY <1>1, PlaceCases, RingSize DEF TypeOK, Slot
<1>3. Place(TxSize, tx_tail, k) # tx_head
  BY CountFacts, PlaceHead, RingSize DEF TypeOK, Slot
<1> QED
  BY <1>2, <1>3

\* A byte stored at the head is not one of the ring's yet.
LEMMA StoreBuffered ==
  ASSUME TypeOK, TypeOK', UNCHANGED <<tx_head, tx_tail>>, NEW b \in Byte,
         tx_buffer' = [tx_buffer EXCEPT ![tx_head] = b]
  PROVE  Buffered' = Buffered
<1>1. BufferedFacts /\ BufferedFacts'
  BY BufferedLemma, PTL
<1>2. Count' = Count
  BY DEF Count
<1>3. ASSUME NEW k \in 1 .. Count PROVE Buffered'[k] = Buffered[k]
  <2>1. Place(TxSize, tx_tail, k) \in Slot \ {tx_head}
    BY StoredPlaces
  <2>2. tx_buffer'[Place(TxSize, tx_tail, k)] = tx_buffer[Place(TxSize, tx_tail, k)]
    BY <2>1 DEF TypeOK
  <2> QED
    BY <1>1, <1>2, <2>2 DEF BufferedFacts
<1> QED
  BY <1>1, <1>2, <1>3, SeqEqual DEF BufferedFacts

\* Moving the head appends the byte stored there.
LEMMA MoveHeadBuffered ==
  ASSUME TypeOK, TypeOK', NextIndex(tx_head) # tx_tail,
         tx_head' = NextIndex(tx_head), UNCHANGED <<tx_buffer, tx_tail>>
  PROVE  /\ Buffered' = Append(Buffered, tx_buffer[tx_head])
         /\ Count < TxSize - 1
<1> DEFINE b == tx_buffer[tx_head]
<1>1. Count' = Count + 1 /\ Count < TxSize - 1
  BY BetweenHead, RingSize DEF Count, Between, NextIndex, After, TypeOK, Slot
<1>2. BufferedFacts /\ BufferedFacts'
  BY BufferedLemma, PTL
<1>3. b \in Byte
  BY DEF TypeOK
<1> HIDE DEF b
<1>4. /\ Append(Buffered, b) \in Seq(Byte)
      /\ Len(Append(Buffered, b)) = Count + 1
      /\ \A k \in 1 .. Count : Append(Buffered, b)[k] = Buffered[k]
      /\ Append(Buffered, b)[Count + 1] = b
  BY <1>2, <1>3, AppendProperties DEF BufferedFacts
<1>5. ASSUME NEW k \in 1 .. Count + 1
      PROVE  Buffered'[k] = Append(Buffered, b)[k]
  <2>1. Buffered'[k] = tx_buffer[Place(TxSize, tx_tail, k)]
    BY <1>1, <1>2 DEF BufferedFacts
  <2>2. CASE k = Count + 1
    <3>1. Place(TxSize, tx_tail, k) = tx_head
      BY <2>2, CountFacts, PlaceHead, RingSize DEF TypeOK, Slot
    <3> QED
      BY <1>4, <2>1, <2>2, <3>1 DEF b
  <2>3. CASE k \in 1 .. Count
    BY <1>2, <1>4, <2>1, <2>3 DEF BufferedFacts
  <2>4. k = Count + 1 \/ k \in 1 .. Count
    <3>1. Count \in Nat
      BY CountFacts, RingSize
    <3> QED
      BY <3>1
  <2> QED
    BY <2>2, <2>3, <2>4
<1>6. Buffered' = Append(Buffered, b)
  BY <1>1, <1>2, <1>4, <1>5, SeqEqual DEF BufferedFacts
<1> QED
  BY <1>1, <1>6 DEF b

\* Moving the tail takes the oldest byte away.
LEMMA MoveTailBuffered ==
  ASSUME TypeOK, TypeOK', tx_head # tx_tail,
         tx_tail' = NextIndex(tx_tail), UNCHANGED <<tx_buffer, tx_head>>
  PROVE  Buffered = <<tx_buffer[tx_tail]>> \o Buffered'
<1> DEFINE b == tx_buffer[tx_tail]
<1>1. Count' = Count - 1 /\ Count > 0 /\ Count \in 0 .. TxSize - 1
  BY BetweenTail, CountFacts, RingSize
  DEF Count, Between, NextIndex, After, TypeOK, Slot
<1>2. BufferedFacts /\ BufferedFacts'
  BY BufferedLemma, PTL
<1>3. b \in Byte
  BY DEF TypeOK
<1>4. Buffered[1] = b
  <2>1. Place(TxSize, tx_tail, 1) = tx_tail
    BY PlaceCases, RingSize DEF TypeOK, Slot
  <2> QED
    BY <1>1, <1>2, <2>1 DEF BufferedFacts
<1> HIDE DEF b
<1>5. <<b>> \in Seq(Byte) /\ Len(<<b>>) = 1 /\ <<b>>[1] = b
  BY <1>3
<1>6. /\ <<b>> \o Buffered' \in Seq(Byte)
      /\ Len(<<b>> \o Buffered') = Count
      /\ \A k \in 1 .. Count : (<<b>> \o Buffered')[k] =
                                 IF k <= 1 THEN <<b>>[k] ELSE Buffered'[k - 1]
  BY <1>1, <1>2, <1>5, ConcatProperties DEF BufferedFacts
<1>7. ASSUME NEW k \in 1 .. Count
      PROVE  Buffered[k] = (<<b>> \o Buffered')[k]
  <2>1. CASE k = 1
    BY <1>4, <1>5, <1>6, <2>1
  <2>2. CASE k > 1
    <3>1. k - 1 \in 1 .. Count' /\ k - 1 \in 1 .. TxSize - 1
      BY <1>1, <2>2, RingSize
    <3>2. Buffered'[k - 1] = tx_buffer[Place(TxSize, NextIndex(tx_tail), k - 1)]
      BY <1>2, <3>1 DEF BufferedFacts
    <3>3. Place(TxSize, NextIndex(tx_tail), k - 1) = Place(TxSize, tx_tail, (k - 1) + 1)
      BY <3>1, PlaceNext, RingSize DEF NextIndex, After, TypeOK, Slot
    <3>4. (k - 1) + 1 = k
      BY <1>1
    <3>5. Buffered[k] = tx_buffer[Place(TxSize, tx_tail, k)]
      BY <1>2 DEF BufferedFacts
    <3> QED
      BY <1>6, <2>2, <3>2, <3>3, <3>4, <3>5
  <2>3. k = 1 \/ k > 1
    BY <1>1, RingSize
  <2> QED
    BY <2>1, <2>2, <2>3
<1>8. Buffered = <<b>> \o Buffered'
  BY <1>2, <1>6, <1>7, SeqEqual DEF BufferedFacts
<1> QED
  BY <1>8 DEF b

LEMMA OneFacts ==
  ASSUME NEW b \in Byte \cup {Empty}
  PROVE  /\ One(b) \in Seq(Byte)
         /\ b = Empty => One(b) = <<>> /\ Len(One(b)) = 0
         /\ b # Empty => One(b) = <<b>> /\ Len(One(b)) = 1
BY DEF One

\* The parts of UnderWay are sequences of bytes.
Parts ==
  /\ One(shift) \in Seq(Byte) /\ One(udr) \in Seq(Byte)
  /\ Held \in Seq(Byte) /\ Buffered \in Seq(Byte)
  /\ UnderWay = ((One(shift) \o One(udr)) \o Held) \o Buffered

LEMMA PartFacts == TypeOK => Parts
<1> SUFFICES ASSUME TypeOK PROVE Parts
  OBVIOUS
<1>1. shift \in Byte \cup {Empty} /\ udr \in Byte \cup {Empty} /\ irqByte \in Byte
  BY DEF TypeOK
<1>2. Held \in Seq(Byte)
  BY <1>1 DEF Held
<1> QED
  BY <1>1, <1>2, OneFacts, BufferedLemma DEF Parts, BufferedFacts, UnderWay, Held

LEMMA NextPartFacts == TypeOK' => Parts'
BY PartFacts, PTL

\* The first byte can be taken off a sequence that begins with it.
LEMMA FirstAndRest ==
  ASSUME NEW S, NEW x \in S, NEW s \in Seq(S)
  PROVE  <<x>> \o s # <<>> /\ Head(<<x>> \o s) = x /\ Tail(<<x>> \o s) = s
<1> DEFINE t == <<x>> \o s
<1>1. <<x>> \in Seq(S) /\ Len(<<x>>) = 1 /\ <<x>>[1] = x /\ Len(s) \in Nat
  OBVIOUS
<1>2. /\ t \in Seq(S) /\ Len(t) = 1 + Len(s)
      /\ \A i \in 1 .. 1 + Len(s) : t[i] = IF i <= 1 THEN <<x>>[i] ELSE s[i - 1]
  BY <1>1, ConcatProperties
<1> HIDE DEF t
<1>3. t # <<>> /\ t[1] = x /\ Head(t) = t[1]
  BY <1>1, <1>2
<1>4. /\ Tail(t) \in Seq(S) /\ Len(Tail(t)) = Len(s)
      /\ \A i \in 1 .. Len(s) : Tail(t)[i] = t[i + 1]
  BY <1>1, <1>2, <1>3, HeadTailProperties
<1>5. \A i \in 1 .. Len(s) : Tail(t)[i] = s[i]
  BY <1>1, <1>2, <1>4
<1>6. Tail(t) = s
  BY <1>4, <1>5, SeqEqual
<1> QED
  BY <1>3, <1>6 DEF t

(***************************************************************************)
(* Every step of the transmit side is a step of the queue or leaves it     *)
(* alone.                                                                  *)
(***************************************************************************)

\* The line sends the oldest byte.
LEMMA LineDoneRefines ==
  ASSUME TxInv, LineDone
  PROVE  TxFifo!Take
<1> DEFINE rest == (One(udr) \o Held) \o Buffered
<1>1. TypeOK /\ TypeOK'
  BY LineDoneKeepsTxInv DEF TxInv
<1>2. /\ shift \in Byte /\ shift # Empty /\ shift' = udr /\ udr' = Empty
      /\ One(shift) = <<shift>> /\ One(udr') = <<>>
  BY <1>1, OneFacts DEF LineDone, TypeOK
<1>3. Held' = Held /\ Buffered' = Buffered
  BY BufferedUnchanged DEF LineDone, Held, handler
<1>4. <<shift>> \in Seq(Byte)
  BY <1>2
<1>5. One(udr) \o Held \in Seq(Byte) /\ rest \in Seq(Byte)
  BY <1>1, PartFacts, ConcatProperties DEF Parts
<1>6. UnderWay = <<shift>> \o rest
  <2>1. (<<shift>> \o One(udr)) \o Held = <<shift>> \o (One(udr) \o Held)
    BY <1>1, <1>4, PartFacts, ConcatAssociative DEF Parts
  <2>2. (<<shift>> \o (One(udr) \o Held)) \o Buffered = <<shift>> \o rest
    BY <1>1, <1>4, <1>5, PartFacts, ConcatAssociative DEF Parts
  <2> QED
    BY <1>1, <1>2, <2>1, <2>2, PartFacts DEF Parts
<1>7. UnderWay' = rest
  <2>1. UnderWay' = ((One(shift') \o One(udr')) \o Held') \o Buffered'
    BY <1>1, NextPartFacts DEF Parts
  <2>2. One(udr) \o <<>> = One(udr)
    BY <1>1, PartFacts, ConcatEmptySeq DEF Parts
  <2> QED
    BY <1>2, <1>3, <2>1, <2>2
<1>8. UnderWay # <<>> /\ Head(UnderWay) = shift /\ Tail(UnderWay) = rest
  BY <1>2, <1>5, <1>6, FirstAndRest
<1> QED
  BY <1>7, <1>8 DEF LineDone, TxFifo!Take

\* The handler carries the oldest byte of the ring along.
LEMMA TakeByteRefines ==
  ASSUME TxInv, TakeByte, irq = "none", udrie = 1, udr = Empty
  PROVE  UNCHANGED TxFifo!vars
<1>1. TypeOK /\ TypeOK'
  BY TakeByteKeepsTxInv DEF TxInv
<1>2. Buffered = <<tx_buffer[tx_tail]>> \o Buffered'
  BY <1>1, MoveTailBuffered DEF TakeByte, TxInv, HandlerState
<1>3. Held = <<>> /\ Held' = <<tx_buffer[tx_tail]>> /\ Held' \in Seq(Byte)
  BY <1>1 DEF Held, TakeByte, TypeOK
<1>4. UNCHANGED <<shift, udr>>
  BY DEF TakeByte, usart
<1> DEFINE line == One(shift) \o One(udr)
<1>5. line \in Seq(Byte) /\ line \o <<>> = line /\ Buffered' \in Seq(Byte)
  <2>1. Buffered' \in Seq(Byte)
    BY <1>1, NextPartFacts DEF Parts
  <2> QED
    BY <1>1, <2>1, PartFacts, ConcatProperties, ConcatEmptySeq DEF Parts
<1>6. UnderWay' = (line \o Held') \o Buffered'
  <2>1. UnderWay' = ((One(shift') \o One(udr')) \o Held') \o Buffered'
    BY <1>1, NextPartFacts DEF Parts
  <2> QED
    BY <1>4, <2>1
<1>7. UnderWay = line \o Buffered
  BY <1>1, <1>3, <1>5, PartFacts DEF Parts
<1> HIDE DEF line
<1>8. (line \o Held') \o Buffered' = line \o (Held' \o Buffered')
  BY <1>3, <1>5, ConcatAssociative
<1> QED
  BY <1>2, <1>3, <1>6, <1>7, <1>8 DEF TakeByte, TxFifo!vars

\* ... and puts it behind the byte on the line.
LEMMA IrqSendRefines ==
  ASSUME TxInv, IrqSend
  PROVE  UNCHANGED TxFifo!vars
<1>1. TypeOK /\ TypeOK'
  BY IrqSendKeepsTxInv DEF TxInv
<1>2. /\ udr = Empty /\ One(udr) = <<>>
      /\ irqByte \in Byte /\ irqByte # Empty /\ One(irqByte) = <<irqByte>>
  BY <1>1, OneFacts, ByteAssumption
  DEF IrqSend, TxInv, RegisterOrder, TypeOK, Empty
<1>3. Held = <<irqByte>> /\ Held' = <<>> /\ Buffered' = Buffered
  BY BufferedUnchanged DEF Held, IrqSend
<1>4. UnderWay' = ((One(shift') \o One(udr')) \o <<>>) \o Buffered
  <2>1. UnderWay' = ((One(shift') \o One(udr')) \o Held') \o Buffered'
    BY <1>1, NextPartFacts DEF Parts
  <2> QED
    BY <1>3, <2>1
<1>5. UnderWay = ((One(shift) \o <<>>) \o <<irqByte>>) \o Buffered
  BY <1>1, <1>2, <1>3, PartFacts DEF Parts
<1>6. <<irqByte>> \in Seq(Byte)
  BY <1>2
<1>7. CASE shift = Empty
  <2>1. One(shift') = <<irqByte>> /\ One(udr') = <<>> /\ One(shift) = <<>>
    BY <1>2, <1>7, OneFacts DEF IrqSend, Load
  <2>2. /\ (<<irqByte>> \o <<>>) \o <<>> = <<irqByte>>
        /\ (<<>> \o <<>>) \o <<irqByte>> = <<irqByte>>
    BY <1>6
  <2> QED
    BY <1>4, <1>5, <2>1, <2>2 DEF IrqSend, TxFifo!vars
<1>8. CASE shift # Empty
  <2>1. One(shift') = One(shift) /\ One(udr') = <<irqByte>>
    BY <1>2, <1>8 DEF IrqSend, Load
  <2>2. One(shift) \in Seq(Byte) /\ One(shift) \o <<irqByte>> \in Seq(Byte)
    BY <1>1, <1>6, PartFacts, ConcatProperties DEF Parts
  <2>3. /\ One(shift) \o <<>> = One(shift)
        /\ (One(shift) \o <<irqByte>>) \o <<>> = One(shift) \o <<irqByte>>
    BY <2>2, ConcatEmptySeq
  <2> QED
    BY <1>4, <1>5, <2>1, <2>3 DEF IrqSend, TxFifo!vars
<1> QED
  BY <1>7, <1>8

\* write() past the ring puts its byte behind the one on the line.
LEMMA WriteDirectRefines ==
  ASSUME TxInv, WriteDirect
  PROVE  TxFifo!Put(c)
<1>1. TypeOK /\ TypeOK'
  BY WriteDirectKeepsTxInv DEF TxInv
<1>2. /\ udr = Empty /\ One(udr) = <<>>
      /\ c \in Byte /\ c # Empty /\ One(c) = <<c>> /\ <<c>> \in Seq(Byte)
  BY <1>1, OneFacts, ByteAssumption DEF WriteDirect, TypeOK, Empty
<1>3. Held = <<>> /\ Held' = <<>> /\ Buffered' = Buffered
  BY BufferedUnchanged DEF Held, WriteDirect, Running, handler
<1>4. Buffered = <<>>
  <2>1. tx_head = tx_tail
    BY DEF WriteDirect, Running, TxInv, HandlerState, CallState
  <2> QED
    BY <1>1, <2>1, CountFacts, BufferedLemma DEF BufferedFacts
<1>5. One(shift) \in Seq(Byte) /\ One(shift) \o <<>> = One(shift)
  BY <1>1, PartFacts, ConcatEmptySeq DEF Parts
<1>6. UnderWay = One(shift)
  BY <1>1, <1>2, <1>3, <1>4, <1>5, PartFacts DEF Parts
<1>7. UnderWay' = One(shift') \o One(udr')
  <2>1. UnderWay' = ((One(shift') \o One(udr')) \o Held') \o Buffered'
    BY <1>1, NextPartFacts DEF Parts
  <2>2. One(shift') \o One(udr') \in Seq(Byte)
    <3>1. One(shift') \in Seq(Byte) /\ One(udr') \in Seq(Byte)
      BY <1>1, NextPartFacts DEF Parts
    <3> QED
      BY <3>1, ConcatProperties
  <2> QED
    BY <1>3, <1>4, <2>1, <2>2, ConcatEmptySeq
<1>8. UnderWay' = One(shift) \o <<c>>
  <2>1. CASE shift = Empty
    BY <1>2, <1>7, <2>1, OneFacts DEF WriteDirect, Load
  <2>2. CASE shift # Empty
    BY <1>2, <1>7, <2>2 DEF WriteDirect, Load
  <2> QED
    BY <2>1, <2>2
<1>9. UnderWay' = Append(UnderWay, c)
  BY <1>2, <1>5, <1>6, <1>8, AppendIsConcat
<1>10. Len(UnderWay) < TxSize + 1
  <2>1. Len(One(shift)) \in 0 .. 1
    BY <1>1, OneFacts DEF TypeOK
  <2>2. Len(UnderWay) \in 0 .. 1
    BY <1>6, <2>1
  <2> QED
    BY <2>2, RingSize
<1> QED
  BY <1>9, <1>10 DEF WriteDirect, TxFifo!Put

\* The last step of write() appends its byte to the ring.
LEMMA WriteEnableRefines ==
  ASSUME TxInv, WriteEnable
  PROVE  TxFifo!Put(c)
<1>1. TypeOK /\ TypeOK'
  BY WriteEnableKeepsTxInv DEF TxInv
<1>2. /\ Buffered' = Append(Buffered, c) /\ Count < TxSize - 1
      /\ c \in Byte /\ <<c>> \in Seq(Byte)
  BY <1>1, MoveHeadBuffered DEF WriteEnable, Running, TxInv, CallState, TypeOK
<1>3. Held = <<>> /\ Held' = <<>> /\ UNCHANGED <<shift, udr>>
  BY DEF Held, WriteEnable, Running, handler
<1> DEFINE line == One(shift) \o One(udr)
<1>4. /\ line \in Seq(Byte) /\ line \o <<>> = line /\ Len(line) \in 0 .. 2
      /\ Buffered \in Seq(Byte) /\ Len(Buffered) = Count /\ Count \in Nat
  <2>1. Len(One(shift)) \in 0 .. 1 /\ Len(One(udr)) \in 0 .. 1
    BY <1>1, OneFacts DEF TypeOK
  <2>2. Len(Buffered) = Count /\ Count \in Nat
    BY <1>1, CountFacts, BufferedLemma, RingSize DEF BufferedFacts
  <2>3. /\ line \in Seq(Byte)
        /\ Len(line) = Len(One(shift)) + Len(One(udr))
    BY <1>1, PartFacts, ConcatProperties DEF Parts
  <2>4. line \o <<>> = line
    BY <2>3, ConcatEmptySeq
  <2>5. Buffered \in Seq(Byte)
    BY <1>1, PartFacts DEF Parts
  <2>6. Len(line) \in 0 .. 2
    <3>1. \A m, n \in 0 .. 1 : m + n \in 0 .. 2
      OBVIOUS
    <3> HIDE DEF line
    <3> QED
      BY <2>1, <2>3, <3>1
  <2> QED
    BY <2>2, <2>3, <2>4, <2>5, <2>6
<1>5. UnderWay = line \o Buffered
  BY <1>1, <1>3, <1>4, PartFacts DEF Parts
<1>6. UnderWay' = line \o Append(Buffered, c)
  <2>1. UnderWay' = ((One(shift') \o One(udr')) \o Held') \o Buffered'
    BY <1>1, NextPartFacts DEF Parts
  <2> QED
    BY <1>2, <1>3, <1>4, <2>1
<1> HIDE DEF line
<1>7. /\ line \o Buffered \in Seq(Byte)
      /\ Len(line \o Buffered) < TxSize + 1
  <2>1. /\ line \o Buffered \in Seq(Byte)
        /\ Len(line \o Buffered) = Len(line) + Count
    BY <1>4, ConcatProperties
  <2>2. \A m \in 0 .. 2, n \in Nat : n < TxSize - 1 => m + n < TxSize + 1
    BY RingSize
  <2>3. Len(line) + Count < TxSize + 1
    BY <1>2, <1>4, <2>2
  <2> QED
    BY <2>1, <2>3
<1>8. line \o Append(Buffered, c) = Append(line \o Buffered, c)
  <2>1. Append(Buffered, c) = Buffered \o <<c>>
    BY <1>2, <1>4, AppendIsConcat
  <2>2. Append(line \o Buffered, c) = (line \o Buffered) \o <<c>>
    BY <1>2, <1>7, AppendIsConcat
  <2>3. (line \o Buffered) \o <<c>> = line \o (Buffered \o <<c>>)
    BY <1>2, <1>4, ConcatAssociative
  <2> QED
    BY <2>1, <2>2, <2>3
<1> QED
  BY <1>5, <1>6, <1>7, <1>8 DEF WriteEnable, TxFifo!Put

\* All other steps leave the bytes under way where they are.
LEMMA OtherStepsRefine ==
  ASSUME TxInv, TxInv',
         \/ IrqClear \/ WriteEmpty \/ WriteBuffered \/ WriteDirectClear \/ WriteStore
         \/ FlushUdrie \/ FlushDone \/ End \/ Begin \/ NoInterrupts \/ Interrupts
         \/ Flush("flush") \/ Flush("end") \/ (\E b \in Byte : Write(b))
         \/ UNCHANGED vars
  PROVE  UNCHANGED TxFifo!vars
<1>1. UNCHANGED <<shift, udr, sent>>
  BY DEF IrqClear, WriteEmpty, WriteBuffered, WriteDirectClear, WriteStore,
         FlushUdrie, FlushDone, End, Begin, NoInterrupts, Interrupts, Flush,
         Write, vars, usart
<1>2. Held' = Held
  BY DEF Held, IrqClear, WriteEmpty, WriteBuffered, WriteDirectClear, WriteStore,
         FlushUdrie, FlushDone, End, Begin, NoInterrupts, Interrupts, Flush,
         Write, vars, handler
<1>3. Buffered' = Buffered
  <2>1. CASE WriteStore
    BY <2>1, StoreBuffered DEF WriteStore, TxInv, TypeOK
  <2>2. CASE ~WriteStore
    <3>1. UNCHANGED ring
      BY <2>2
      DEF IrqClear, WriteEmpty, WriteBuffered, WriteDirectClear, FlushUdrie,
          FlushDone, End, Begin, NoInterrupts, Interrupts, Flush, Write, vars
    <3> QED
      BY <3>1, BufferedUnchanged
  <2> QED
    BY <2>1, <2>2
<1>4. UnderWay' = UnderWay
  <2>1. UnderWay' = ((One(shift') \o One(udr')) \o Held') \o Buffered'
    BY NextPartFacts DEF TxInv, Parts
  <2>2. UnderWay = ((One(shift) \o One(udr)) \o Held) \o Buffered
    BY PartFacts DEF TxInv, Parts
  <2> QED
    BY <1>1, <1>2, <1>3, <2>1, <2>2
<1> QED
  BY <1>1, <1>4 DEF TxFifo!vars

LEMMA InitRefines == Init => TxFifo!Init
<1> SUFFICES ASSUME Init PROVE TxFifo!Init
  OBVIOUS
<1>1. TypeOK
  BY InitEstablishesTxInv DEF TxInv
<1>2. Buffered = <<>>
  BY <1>1, CountFacts, BufferedLemma DEF Init, BufferedFacts
<1>3. UnderWay = <<>>
  BY <1>2 DEF Init, UnderWay, One
<1> QED
  BY <1>3 DEF Init, TxFifo!Init, Empty

LEMMA NextRefines ==
  ASSUME TxInv, TxInv', [Next]_vars
  PROVE  [TxFifo!Next]_TxFifo!vars
<1>1. CASE LineDone
  BY <1>1, LineDoneRefines DEF TxFifo!Next
<1>2. CASE Irq
  BY <1>2, TakeByteRefines DEF Irq
<1>3. CASE WritePoll \/ FlushPoll
  <2>1. TakeByte /\ irq = "none" /\ udr = Empty
    BY <1>3 DEF WritePoll, FlushPoll, FlushQueued, Running
  <2>2. udrie = 1
    BY <1>3, NextIndexDiffers
    DEF WritePoll, FlushPoll, Running, TxInv, TypeOK, HandlerState
  <2> QED
    BY <2>1, <2>2, TakeByteRefines
<1>4. CASE IrqSend
  BY <1>4, IrqSendRefines
<1>5. CASE WriteDirect \/ WriteEnable
  <2>1. c \in Byte
    BY DEF TxInv, TypeOK
  <2> QED
    BY <1>5, <2>1, WriteDirectRefines, WriteEnableRefines DEF TxFifo!Next
<1>6. CASE \/ IrqClear \/ WriteEmpty \/ WriteBuffered \/ WriteDirectClear \/ WriteStore
           \/ FlushUdrie \/ FlushDone \/ End \/ Begin \/ NoInterrupts \/ Interrupts
           \/ Flush("flush") \/ Flush("end") \/ (\E b \in Byte : Write(b))
           \/ UNCHANGED vars
  BY <1>6, OtherStepsRefine
<1> QED
  BY <1>1, <1>2, <1>3, <1>4, <1>5, <1>6 DEF Next, Handler, InCall

\* No byte is lost, sent twice or overtaken on its way from write() to the line.
THEOREM ImplementsTxFifo ==
  ASSUME ~Reopen
  PROVE  Spec => TxFifoSpec
<1>1. Init => TxFifo!Init
  BY InitRefines
<1>2. TxInv /\ TxInv' /\ [Next]_vars => [TxFifo!Next]_TxFifo!vars
  BY NextRefines
<1> QED
  BY <1>1, <1>2, TxInvariant, PTL DEF Spec, TxFifoSpec, TxFifo!Spec

\* When the loop of flush() ends nothing is queued any more and the line is free.
THEOREM FlushIsComplete ==
  ASSUME ~Reopen
  PROVE  Spec => FlushedMeansSent
<1>1. TxInv /\ FlushDone => UnderWay = <<>>
  <2> SUFFICES ASSUME TxInv, FlushDone PROVE UnderWay = <<>>
    OBVIOUS
  <2>1. irq = "none" /\ tx_head = tx_tail /\ shift = Empty /\ udr = Empty
    BY DEF FlushDone, Running, TxInv, CallState, HandlerState, TxcState, RegisterOrder
  <2>2. Buffered = <<>>
    BY <2>1, CountFacts, BufferedLemma DEF BufferedFacts, TxInv
  <2> QED
    BY <2>1, <2>2 DEF UnderWay, One
<1>2. TxInv /\ [Next]_vars => [FlushDone => UnderWay = <<>>]_vars
  BY <1>1
<1> QED
  BY <1>2, TxInvariant, PTL DEF Spec, FlushedMeansSent
===============================================================================
