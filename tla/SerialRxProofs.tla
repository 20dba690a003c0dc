--------------------------- MODULE SerialRxProofs ---------------------------
(***************************************************************************)
(* The invariant of the receive ring, and that the ring implements the     *)
(* bounded queue of RxQueue, for every size of the ring, every set of byte *)
(* values and every number of arrivals.                                    *)
(***************************************************************************)
EXTENDS SerialRx, ProofLemmas, SequenceTheorems, TLAPS

(***************************************************************************)
(* The indexes of the receive ring, with the facts of ProofLemmas.      *)
(***************************************************************************)

\* The number of bytes between a tail t and a head h.
Distance(h, t) == (RxSize + h - t) % RxSize

\* The slot of the k-th unread byte when the tail is t.
At(t, k) == (t + k - 1) % RxSize

LEMMA RingSize == RxSize \in Nat \ {0}
BY RxSizeAssumption

\* NextIndex steps to the following slot, or from the last one to the first.
LEMMA NextIndexCases ==
  ASSUME NEW i \in Slot
  PROVE  /\ NextIndex(i) \in Slot
         /\ i < RxSize - 1 => NextIndex(i) = i + 1
         /\ i = RxSize - 1 => NextIndex(i) = 0
BY AfterCases, RingSize DEF NextIndex, After, Slot

LEMMA DistanceCases ==
  ASSUME NEW h \in Slot, NEW t \in Slot
  PROVE  /\ Distance(h, t) \in 0 .. RxSize - 1
         /\ h >= t => Distance(h, t) = h - t
         /\ h < t => Distance(h, t) = RxSize + h - t
BY BetweenCases, RingSize DEF Distance, Between, Slot

\* Moving the head one slot on adds one byte, unless the ring was full.
LEMMA DistanceHead ==
  ASSUME NEW h \in Slot, NEW t \in Slot, NextIndex(h) # t
  PROVE  /\ Distance(NextIndex(h), t) = Distance(h, t) + 1
         /\ Distance(h, t) < RxSize - 1
BY BetweenHead, RingSize DEF NextIndex, After, Distance, Between, Slot

\* A head just behind the tail means RxSize - 1 bytes.
LEMMA DistanceFull ==
  ASSUME NEW h \in Slot, NEW t \in Slot, NextIndex(h) = t
  PROVE  Distance(h, t) = RxSize - 1
BY BetweenFull, RingSize DEF NextIndex, After, Distance, Between, Slot

\* Moving the tail one slot on takes one byte away, unless there was none.
LEMMA DistanceTail ==
  ASSUME NEW h \in Slot, NEW t \in Slot, h # t
  PROVE  /\ Distance(h, NextIndex(t)) = Distance(h, t) - 1
         /\ Distance(h, t) > 0
BY BetweenTail, RingSize DEF NextIndex, After, Distance, Between, Slot

LEMMA AtCases ==
  ASSUME NEW t \in Slot, NEW k \in 1 .. RxSize
  PROVE  /\ At(t, k) \in Slot
         /\ t + k - 1 < RxSize => At(t, k) = t + k - 1
         /\ t + k - 1 >= RxSize => At(t, k) = t + k - 1 - RxSize
BY PlaceCases, RingSize DEF At, Place, Slot

\* The slot after the last unread byte is the head; no earlier one is.
LEMMA AtHead ==
  ASSUME NEW h \in Slot, NEW t \in Slot
  PROVE  /\ At(t, Distance(h, t) + 1) = h
         /\ \A k \in 1 .. Distance(h, t) : At(t, k) # h
BY PlaceHead, RingSize DEF At, Place, Distance, Between, Slot

\* Counting from the next tail is counting one further from this one.
LEMMA AtNext ==
  ASSUME NEW t \in Slot, NEW k \in 1 .. RxSize - 1
  PROVE  At(NextIndex(t), k) = At(t, k + 1)
BY PlaceNext, RingSize DEF At, Place, NextIndex, After, Slot

(***************************************************************************)
(* The invariant.                                                          *)
(***************************************************************************)

LEMMA InitEstablishesRingInv == Init => RingInv
<1> SUFFICES ASSUME Init PROVE RingInv
  OBVIOUS
<1>1. TypeOK
  BY RingSize, ByteAssumption, UdrAssumption
  DEF Init, TypeOK, Slot, NoData
<1>2. Distance(rx_head, rx_tail) >= 0
  BY <1>1, DistanceCases DEF TypeOK
<1> QED
  BY <1>1, <1>2
  DEF Init, RingInv, CallInProgress, AvailableIsLowerBound, Count, Distance

\* The line only touches the USART, and the USART keeps its depth.
LEMMA LineByteKeepsRingInv ==
  ASSUME RingInv, NEW f \in Frame, LineByte(f)
  PROVE  RingInv'
<1>1. udr' \in Seq(Frame) /\ Len(udr') <= UdrDepth
  <2>1. CASE Len(udr) < UdrDepth /\ udr' = Append(udr, f)
    BY <2>1, UdrAssumption DEF RingInv, TypeOK
  <2>2. CASE Len(udr) = UdrDepth /\ udr' \in {udr, [udr EXCEPT ![UdrDepth] = f]}
    <3>1. UdrDepth \in 1 .. Len(udr)
      BY <2>2, UdrAssumption
    <3>2. /\ [udr EXCEPT ![UdrDepth] = f] \in Seq(Frame)
          /\ Len([udr EXCEPT ![UdrDepth] = f]) = Len(udr)
      BY <3>1, ExceptSeq DEF RingInv, TypeOK
    <3> QED
      BY <2>2, <3>2 DEF RingInv, TypeOK
  <2> QED
    BY <2>1, <2>2 DEF LineByte
<1>2. arrivals' \in Nat
  BY DEF LineByte, RingInv, TypeOK
<1> QED
  BY <1>1, <1>2
  DEF LineByte, ring, program, RingInv, TypeOK, CallInProgress,
      AvailableIsLowerBound, Count

\* The interrupt writes the free slot at the head, which no call is reading.
LEMMA RxCompleteIrqKeepsRingInv ==
  ASSUME RingInv, RxCompleteIrq
  PROVE  RingInv'
<1> USE DEF RingInv, TypeOK
<1>1. udr' \in Seq(Frame) /\ Len(udr') <= UdrDepth /\ Head(udr) \in Frame
  BY UdrAssumption DEF RxCompleteIrq
<1>2. CASE DiscardBadByte
  BY <1>1, <1>2
  DEF RxCompleteIrq, DiscardBadByte, ring, program, CallInProgress,
      AvailableIsLowerBound, Count
<1>3. CASE DropByte
  BY <1>1, <1>3
  DEF RxCompleteIrq, DropByte, ring, program, CallInProgress,
      AvailableIsLowerBound, Count
<1>4. CASE StoreByte
  <2>1. rx_head' \in Slot
    BY <1>4, NextIndexCases DEF StoreByte
  <2>2. rx_buffer' \in [Slot -> Byte]
    BY <1>1, <1>4 DEF StoreByte, Frame
  <2>3. TypeOK'
    BY <1>1, <1>4, <2>1, <2>2 DEF RxCompleteIrq, StoreByte, program
  <2>4. CallInProgress'
    <3>1. rx_head # rx_tail => rx_buffer'[rx_tail] = rx_buffer[rx_tail]
      BY <1>4 DEF StoreByte
    <3> QED
      BY <1>4, <3>1 DEF RxCompleteIrq, StoreByte, program, CallInProgress
  <2>5. AvailableIsLowerBound'
    <3>1. /\ Distance(rx_head', rx_tail) = Distance(rx_head, rx_tail) + 1
          /\ Distance(rx_head, rx_tail) \in Nat
      BY <1>4, DistanceHead, DistanceCases DEF StoreByte
    <3> QED
      BY <1>4, <3>1
      DEF RxCompleteIrq, StoreByte, program, AvailableIsLowerBound, Count, Distance
  <2> QED
    BY <2>3, <2>4, <2>5
<1> QED
  BY <1>2, <1>3, <1>4 DEF RxCompleteIrq

\* Giving the slot back takes one byte off what available() announced.
LEMMA ReadAdvanceKeepsRingInv ==
  ASSUME RingInv, ReadAdvance
  PROVE  RingInv'
<1> USE DEF RingInv, TypeOK
<1>1. rx_tail' \in Slot
  BY NextIndexCases DEF ReadAdvance
<1>2. rx_head # rx_tail
  BY DEF ReadAdvance, CallInProgress
<1>3. /\ Distance(rx_head, rx_tail') = Distance(rx_head, rx_tail) - 1
      /\ Distance(rx_head, rx_tail) > 0
      /\ Distance(rx_head, rx_tail) \in Nat
  BY <1>2, DistanceTail, DistanceCases DEF ReadAdvance
<1>4. TypeOK'
  BY <1>1 DEF ReadAdvance, hardware
<1>5. AvailableIsLowerBound'
  BY <1>3 DEF ReadAdvance, AvailableIsLowerBound, Count, Distance
<1> QED
  BY <1>4, <1>5 DEF ReadAdvance, CallInProgress

\* Every other step of the main program leaves the ring as it is, or empties it.
LEMMA ProgramKeepsRingInv ==
  ASSUME RingInv,
         \/ Begin \/ EndReceiver \/ EndInterrupt \/ EndClear
         \/ Available \/ ReadNothing \/ ReadCheck \/ ReadLoad
         \/ PeekCheck \/ PeekLoad \/ NoInterrupts \/ Interrupts
  PROVE  RingInv'
<1> USE DEF RingInv, TypeOK, hardware, ring, CallInProgress,
            AvailableIsLowerBound, Count
<1>1. Distance(rx_head, rx_tail) \in Nat
  BY DistanceCases
<1>2. CASE Begin \/ NoInterrupts \/ Interrupts
  <2>1. /\ sreg_i' \in {sreg_i, TRUE, FALSE}
        /\ ucsrb' \in {ucsrb, [rxen |-> TRUE, rxcie |-> TRUE]}
    BY <1>2 DEF Begin, NoInterrupts, Interrupts
  <2>2. UNCHANGED <<udr, arrivals, ring, program, refused>>
    BY <1>2 DEF Begin, NoInterrupts, Interrupts
  <2>3. sreg_i' \in BOOLEAN
    BY <2>1, Zenon
  <2>4. ucsrb' \in [rxen : BOOLEAN, rxcie : BOOLEAN]
    <3>1. [rxen |-> TRUE, rxcie |-> TRUE] \in [rxen : BOOLEAN, rxcie : BOOLEAN]
      OBVIOUS
    <3> QED
      BY <2>1, <3>1, Zenon
  <2>5. CallInProgress' /\ AvailableIsLowerBound'
    BY <2>2 DEF program
  <2>6. TypeOK'
    BY <2>2, <2>3, <2>4 DEF program
  <2> QED
    BY <2>5, <2>6
<1>3. CASE EndReceiver
  <2>1. udr' \in Seq(Frame) /\ Len(udr') <= UdrDepth
    BY <1>3, UdrAssumption DEF EndReceiver
  <2> QED
    BY <1>3, <2>1 DEF EndReceiver
<1>4. CASE EndInterrupt
  BY <1>4 DEF EndInterrupt
<1>5. CASE EndClear
  <2>1. rx_head' \in Slot /\ Distance(rx_head', rx_tail') >= 0
    BY <1>5, DistanceCases DEF EndClear
  <2> QED
    BY <1>5, <2>1 DEF EndClear, Distance
<1>6. CASE Available
  BY <1>1, <1>6 DEF Available, Distance
<1>7. CASE ReadNothing \/ ReadCheck \/ ReadLoad
  BY <1>7 DEF ReadNothing, ReadCheck, ReadLoad, NoData
<1>8. CASE PeekCheck \/ PeekLoad
  BY <1>8 DEF PeekCheck, PeekLoad
<1> QED
  BY <1>2, <1>3, <1>4, <1>5, <1>6, <1>7, <1>8

LEMMA NextKeepsRingInv == RingInv /\ [Next]_vars => RingInv'
<1> SUFFICES ASSUME RingInv, [Next]_vars PROVE RingInv'
  OBVIOUS
<1>1. ASSUME NEW b \in Byte, NEW e \in ParityError,
             LineByte([data |-> b, upe |-> e])
      PROVE  RingInv'
  <2>1. [data |-> b, upe |-> e] \in Frame
    BY UdrAssumption DEF Frame
  <2> QED
    BY <1>1, <2>1, LineByteKeepsRingInv
<1>2. CASE RxCompleteIrq
  BY <1>2, RxCompleteIrqKeepsRingInv
<1>3. CASE ReadAdvance
  BY <1>3, ReadAdvanceKeepsRingInv
<1>4. CASE \/ Begin \/ EndReceiver \/ EndInterrupt \/ EndClear
           \/ Available \/ ReadNothing \/ ReadCheck \/ ReadLoad
           \/ PeekCheck \/ PeekLoad \/ NoInterrupts \/ Interrupts
  BY <1>4, ProgramKeepsRingInv
<1>5. CASE UNCHANGED vars
  BY <1>5
  DEF vars, hardware, ring, program, RingInv, TypeOK, CallInProgress,
      AvailableIsLowerBound, Count
<1> QED
  BY <1>1, <1>2, <1>3, <1>4, <1>5 DEF Next

\* The ring never leaves its range, no call reads a slot that the interrupt may
\* write, and what available() announced stays readable.
THEOREM RingInvariant == Spec => []RingInv
BY InitEstablishesRingInv, NextKeepsRingInv, PTL DEF Spec

\* receiveMsg() may read as often as available() said without getting a -1.
THEOREM AvailableHolds == Spec => []AvailableIsLowerBound
<1>1. RingInv => AvailableIsLowerBound
  BY DEF RingInv
<1> QED
  BY <1>1, RingInvariant, PTL

\* Every variable of the receive side stays in its range.
THEOREM TypeCorrect == Spec => []TypeOK
<1>1. RingInv => TypeOK
  BY DEF RingInv
<1> QED
  BY <1>1, RingInvariant, PTL

(***************************************************************************)
(* The ring implements the bounded queue.                                  *)
(***************************************************************************)

\* The unread bytes are a sequence of Count bytes.
ContentsFacts ==
  /\ Contents \in Seq(Byte)
  /\ Len(Contents) = Count
  /\ Count = Distance(rx_head, rx_tail)
  /\ Count \in 0 .. RxSize - 1
  /\ \A k \in 1 .. Count : Contents[k] = rx_buffer[At(rx_tail, k)]

LEMMA ContentsLemma == RingInv => ContentsFacts
<1> SUFFICES ASSUME RingInv PROVE ContentsFacts
  OBVIOUS
<1>1. Count = Distance(rx_head, rx_tail) /\ Count \in 0 .. RxSize - 1
  BY DistanceCases DEF Count, Distance, RingInv, TypeOK
<1>2. ASSUME NEW k \in 1 .. Count
      PROVE  rx_buffer[(rx_tail + k - 1) % RxSize] \in Byte
  <2>1. k \in 1 .. RxSize
    BY <1>1, RingSize
  <2>2. At(rx_tail, k) \in Slot
    BY <2>1, AtCases DEF RingInv, TypeOK
  <2> QED
    BY <2>2 DEF At, RingInv, TypeOK
<1>3. Contents \in [1 .. Count -> Byte]
  BY <1>2 DEF Contents
<1>4. Contents \in Seq(Byte) /\ Len(Contents) = Count
  BY <1>1, <1>3, RingSize
<1> QED
  BY <1>1, <1>4 DEF ContentsFacts, Contents, At

LEMMA ContentsIsSeq ==
  ASSUME RingInv
  PROVE  /\ Contents \in Seq(Byte)
         /\ Len(Contents) = Count
         /\ Count = Distance(rx_head, rx_tail)
         /\ Count \in 0 .. RxSize - 1
         /\ \A k \in 1 .. Count : Contents[k] = rx_buffer[At(rx_tail, k)]
BY ContentsLemma DEF ContentsFacts

\* A step that leaves the ring alone leaves the unread bytes alone.
LEMMA ContentsUnchanged == UNCHANGED ring => Contents' = Contents
BY DEF ring, Contents, Count

\* The interrupt accepts the byte, refuses it when the ring is full, or throws
\* away one with a parity error.
LEMMA RxCompleteIrqRefines ==
  ASSUME RingInv, RxCompleteIrq
  PROVE  \/ \E b \in Byte : Fifo!Accept(b)
         \/ Fifo!Refuse
         \/ UNCHANGED Fifo!vars
<1>1. Head(udr) \in Frame
  BY DEF RxCompleteIrq, RingInv, TypeOK
<1>2. CASE DiscardBadByte
  BY <1>2, ContentsUnchanged
  DEF RxCompleteIrq, DiscardBadByte, program, Fifo!vars
<1>3. CASE DropByte
  <2>1. Len(Contents) = RxSize - 1
    BY <1>3, ContentsIsSeq, DistanceFull DEF DropByte, RingInv, TypeOK
  <2> QED
    BY <1>3, <2>1, ContentsUnchanged
    DEF RxCompleteIrq, DropByte, program, Fifo!Refuse
<1>4. CASE StoreByte
  <2> DEFINE b == Head(udr).data
  <2>1. b \in Byte
    BY <1>1 DEF Frame
  <2>2. RingInv'
    BY RxCompleteIrqKeepsRingInv
  <2>3. Count' = Count + 1 /\ Count < RxSize - 1
    BY <1>4, DistanceHead DEF StoreByte, Count, Distance, RingInv, TypeOK
  <2>4. /\ Contents' \in Seq(Byte)
        /\ Len(Contents') = Count + 1
        /\ \A k \in 1 .. Count + 1 : Contents'[k] = rx_buffer'[At(rx_tail, k)]
    <3>1. /\ Contents' \in Seq(Byte)
          /\ Len(Contents') = Count'
          /\ \A k \in 1 .. Count' : Contents'[k] = rx_buffer'[At(rx_tail', k)]
      <4>1. ContentsFacts'
        BY <2>2, ContentsLemma, PTL
      <4> QED
        BY <4>1 DEF ContentsFacts
    <3> QED
      BY <1>4, <2>3, <3>1 DEF StoreByte
  <2>5. /\ Append(Contents, b) \in Seq(Byte)
        /\ Len(Append(Contents, b)) = Count + 1
    BY <2>1, ContentsIsSeq
  <2>6. ASSUME NEW k \in 1 .. Count + 1
        PROVE  Contents'[k] = Append(Contents, b)[k]
    <3>1. CASE k = Count + 1
      <4>1. At(rx_tail, k) = rx_head
        BY <3>1, AtHead, ContentsIsSeq DEF RingInv, TypeOK
      <4>2. rx_buffer'[rx_head] = b
        BY <1>4 DEF StoreByte, RingInv, TypeOK
      <4> QED
        BY <2>1, <2>4, <3>1, <4>1, <4>2, ContentsIsSeq
    <3>2. CASE k \in 1 .. Count
      <4>1. At(rx_tail, k) # rx_head
        BY <3>2, AtHead, ContentsIsSeq DEF RingInv, TypeOK
      <4>2. At(rx_tail, k) \in Slot
        <5>1. k \in 1 .. RxSize
          BY <2>3, <3>2, ContentsIsSeq, RingSize
        <5> QED
          BY <5>1, AtCases DEF RingInv, TypeOK
      <4>3. rx_buffer'[At(rx_tail, k)] = rx_buffer[At(rx_tail, k)]
        BY <1>4, <4>1, <4>2 DEF StoreByte, RingInv, TypeOK
      <4> QED
        BY <2>1, <2>4, <3>2, <4>3, ContentsIsSeq
    <3> QED
      BY <3>1, <3>2, ContentsIsSeq, RingSize
  <2>7. Contents' = Append(Contents, b)
    BY <2>4, <2>5, <2>6, SeqEqual, ContentsIsSeq
  <2> QED
    BY <1>4, <2>1, <2>3, <2>7, ContentsIsSeq
    DEF RxCompleteIrq, StoreByte, program, Fifo!Accept
<1> QED
  BY <1>2, <1>3, <1>4 DEF RxCompleteIrq

\* The last step of read() takes the oldest byte and returns it.
LEMMA ReadAdvanceRefines ==
  ASSUME RingInv, ReadAdvance
  PROVE  Fifo!Get
<1>1. rx_head # rx_tail /\ c = rx_buffer[rx_tail]
  BY DEF ReadAdvance, RingInv, CallInProgress
<1>2. Count' = Count - 1 /\ Count > 0
  BY <1>1, DistanceTail DEF ReadAdvance, Count, Distance, RingInv, TypeOK
<1>3. RingInv'
  BY ReadAdvanceKeepsRingInv
<1>4. Contents # <<>>
  BY <1>2, ContentsIsSeq
<1>5. /\ Contents' \in Seq(Byte)
      /\ Len(Contents') = Count - 1
      /\ \A k \in 1 .. Count - 1 : Contents'[k] = rx_buffer[At(NextIndex(rx_tail), k)]
  <2>1. /\ Contents' \in Seq(Byte)
        /\ Len(Contents') = Count'
        /\ \A k \in 1 .. Count' : Contents'[k] = rx_buffer'[At(rx_tail', k)]
    <3>1. ContentsFacts'
      BY <1>3, ContentsLemma, PTL
    <3> QED
      BY <3>1 DEF ContentsFacts
  <2> QED
    BY <1>2, <2>1 DEF ReadAdvance
<1>6. /\ Tail(Contents) \in Seq(Byte)
      /\ Len(Tail(Contents)) = Count - 1
      /\ \A k \in 1 .. Count - 1 : Tail(Contents)[k] = Contents[k + 1]
  BY <1>4, ContentsIsSeq, HeadTailProperties
<1>7. ASSUME NEW k \in 1 .. Count - 1
      PROVE  Contents'[k] = Tail(Contents)[k]
  <2>1. k \in 1 .. RxSize - 1 /\ k + 1 \in 1 .. Count
    BY <1>2, ContentsIsSeq, RingSize
  <2>2. At(NextIndex(rx_tail), k) = At(rx_tail, k + 1)
    BY <2>1, AtNext DEF RingInv, TypeOK
  <2> QED
    BY <1>5, <1>6, <2>1, <2>2, ContentsIsSeq
<1>8. Contents' = Tail(Contents)
  BY <1>5, <1>6, <1>7, SeqEqual
<1>9. c = Head(Contents)
  <2>1. At(rx_tail, 1) = rx_tail
    <3>1. 1 \in 1 .. RxSize
      BY RingSize
    <3> QED
      BY <3>1, AtCases, RingSize DEF RingInv, TypeOK, Slot
  <2>2. Contents[1] = rx_buffer[rx_tail]
    BY <1>2, <2>1, ContentsIsSeq
  <2> QED
    BY <1>1, <1>4, <2>2, ContentsIsSeq
<1> QED
  BY <1>4, <1>8, <1>9 DEF ReadAdvance, Fifo!Get

\* peek() returns the oldest byte and leaves it there.
LEMMA PeekLoadRefines ==
  ASSUME RingInv, PeekLoad
  PROVE  Fifo!Look
<1>1. rx_head # rx_tail
  BY DEF PeekLoad, RingInv, CallInProgress
<1>2. Count > 0
  BY <1>1, DistanceTail DEF Count, Distance, RingInv, TypeOK
<1>3. At(rx_tail, 1) = rx_tail
  <2>1. 1 \in 1 .. RxSize
    BY RingSize
  <2> QED
    BY <2>1, AtCases, RingSize DEF RingInv, TypeOK, Slot
<1>4. Contents[1] = rx_buffer[rx_tail]
  BY <1>2, <1>3, ContentsIsSeq
<1>5. Contents # <<>> /\ Head(Contents) = rx_buffer[rx_tail]
  BY <1>2, <1>4, ContentsIsSeq
<1> QED
  BY <1>5, ContentsUnchanged DEF PeekLoad, Fifo!Look

\* read() or peek() with both indexes equal finds no byte.
LEMMA ReadNothingRefines ==
  ASSUME RingInv, ReadNothing
  PROVE  Fifo!Miss
<1>1. Count = 0
  BY DistanceCases DEF ReadNothing, Count, Distance, RingInv, TypeOK, Slot
<1>2. Contents = <<>>
  BY <1>1, ContentsIsSeq
<1> QED
  BY <1>2, ContentsUnchanged DEF ReadNothing, Fifo!Miss, Fifo!NoData, NoData

\* end() empties the queue.
LEMMA EndClearRefines ==
  ASSUME RingInv, EndClear
  PROVE  Fifo!Clear
<1>1. RingInv'
  BY ProgramKeepsRingInv
<1>2. Count' = 0
  <2>1. rx_head' = rx_tail' /\ rx_tail' \in Slot
    BY <1>1 DEF EndClear, RingInv, TypeOK
  <2> QED
    BY <2>1, DistanceCases DEF Count, Distance, Slot
<1>3. Contents' \in Seq(Byte) /\ Len(Contents') = Count'
  <2>1. ContentsFacts'
    BY <1>1, ContentsLemma, PTL
  <2> QED
    BY <2>1 DEF ContentsFacts
<1>4. Contents' = <<>>
  BY <1>2, <1>3
<1> QED
  BY <1>4 DEF EndClear, Fifo!Clear

LEMMA InitRefines == Init => Fifo!Init
<1> SUFFICES ASSUME Init PROVE Fifo!Init
  OBVIOUS
<1>1. RingInv
  BY InitEstablishesRingInv
<1>2. Count = 0
  BY <1>1, DistanceCases DEF Init, Count, Distance, RingInv, TypeOK, Slot
<1>3. Contents = <<>>
  BY <1>1, <1>2, ContentsIsSeq
<1> QED
  BY <1>3 DEF Init, Fifo!Init, Fifo!NoData, NoData

LEMMA NextRefines == RingInv /\ [Next]_vars => [Fifo!Next]_Fifo!vars
<1> SUFFICES ASSUME RingInv, [Next]_vars PROVE [Fifo!Next]_Fifo!vars
  OBVIOUS
<1>1. CASE RxCompleteIrq
  BY <1>1, RxCompleteIrqRefines DEF Fifo!Next
<1>2. CASE ReadAdvance
  BY <1>2, ReadAdvanceRefines DEF Fifo!Next
<1>3. CASE PeekLoad
  BY <1>3, PeekLoadRefines DEF Fifo!Next
<1>4. CASE ReadNothing
  BY <1>4, ReadNothingRefines DEF Fifo!Next
<1>5. CASE EndClear
  BY <1>5, EndClearRefines DEF Fifo!Next
<1>6. ASSUME \/ UNCHANGED vars
             \/ \E b \in Byte, e \in ParityError : LineByte([data |-> b, upe |-> e])
             \/ Begin \/ EndReceiver \/ EndInterrupt \/ Available
             \/ ReadCheck \/ ReadLoad \/ PeekCheck \/ NoInterrupts \/ Interrupts
      PROVE  UNCHANGED Fifo!vars
  <2>1. UNCHANGED <<ring, last, refused>>
    BY <1>6
    DEF vars, program, LineByte, Begin, EndReceiver, EndInterrupt, Available,
        ReadCheck, ReadLoad, PeekCheck, NoInterrupts, Interrupts
  <2> QED
    BY <2>1, ContentsUnchanged DEF Fifo!vars
<1> QED
  BY <1>1, <1>2, <1>3, <1>4, <1>5, <1>6 DEF Next

\* Ring, interrupt and the steps of read() and peek() implement a bounded
\* first-in first-out queue of RxSize - 1 bytes.
THEOREM ImplementsFifo == Spec => FifoSpec
BY InitRefines, NextRefines, RingInvariant, PTL DEF Spec, FifoSpec, Fifo!Spec
=============================================================================
