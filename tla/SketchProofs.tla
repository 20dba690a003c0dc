----------------------------- MODULE SketchProofs -----------------------------
(***************************************************************************)
(* Two sides of loop() in coffer-led. Its timing: no byte is lost between  *)
(* the line and receiveMsg(), for every byte time, every duration of       *)
(* show() and of a turn of loop(), every message length and every ring     *)
(* that meet the four assumptions of CofferLed. Its state: what the strip  *)
(* and the status LED show agrees with the messages, for every set of      *)
(* nodes, every data bytes and every length of the strip.                  *)
(***************************************************************************)
EXTENDS CofferLed, LedFrame, ProofLemmas

(***************************************************************************)
(* The backlog is measured in time: a byte counts ByteTime.  These are the *)
(* facts about products that the steps need.                               *)
(***************************************************************************)

\* Bytes weigh their sum.
LEMMA Distribute ==
  ASSUME NEW a \in Nat, NEW n \in Nat, NEW k \in Nat
  PROVE  a * (n + k) = a * n + a * k
BY SMT

\* More bytes weigh more.
LEMMA ProductMonotone ==
  ASSUME NEW a \in Nat, NEW n \in Nat, NEW k \in Nat, n <= k
  PROVE  a * n <= a * k
BY SMT

\* Products and sums of times are times.
LEMMA ProductNat ==
  ASSUME NEW a \in Nat, NEW n \in Nat
  PROVE  a * n \in Nat /\ a * n = n * a
BY SMT

LEMMA SumNat ==
  ASSUME NEW x \in Nat, NEW y \in Nat, NEW z \in Nat
  PROVE  x + y + z \in Nat
OBVIOUS

\* The bytes between the line and the message buffer weigh a time.
LEMMA Weight ==
  ASSUME TypeOK
  PROVE  /\ udr + ring + rcvIdx \in Nat
         /\ ByteTime * (udr + ring + rcvIdx) \in Nat
         /\ MsgLen * ByteTime \in Nat
         /\ ByteTime * MsgLen = MsgLen * ByteTime
BY TimeAssumption, ProductNat DEF TypeOK

(***************************************************************************)
(* The invariant, action by action.                                        *)
(***************************************************************************)

LEMMA InitEstablishes == Init => LoopInv /\ NoOverrun /\ NoDrop
<1> SUFFICES ASSUME Init PROVE LoopInv /\ NoOverrun /\ NoDrop
  OBVIOUS
<1>1. TypeOK
  BY TimeAssumption DEF Init, TypeOK
<1>2. ClockOK /\ PendingIsRecent /\ NoOverrun /\ NoDrop
  BY DEF Init, ClockOK, PendingIsRecent, NoOverrun, NoDrop
<1>3. BacklogBounded
  <2>1. Backlog + TimeToReceive = gap
    BY TimeAssumption DEF Init, Backlog, TimeToReceive
  <2>2. gap <= MsgLen * ByteTime
    <3>1. ByteTime * 1 <= ByteTime * MsgLen
      BY TimeAssumption, ProductMonotone
    <3> QED
      BY <1>1, <3>1, Weight, TimeAssumption DEF TypeOK
  <2> QED
    BY <1>1, <2>1, <2>2, Weight, TimeAssumption DEF BacklogBounded, TypeOK
<1> QED
  BY <1>1, <1>2, <1>3 DEF LoopInv

\* A byte that ends finds the USART empty, and replaces the gap it ends.
LEMMA LineByteKeeps ==
  ASSUME LoopInv, NoOverrun, NoDrop, LineByte
  PROVE  LoopInv' /\ NoOverrun' /\ NoDrop'
<1> USE DEF LoopInv
<1>1. udr = 0
  BY TimeAssumption, BaudAssumption
  DEF LineByte, TypeOK, ClockOK, PendingIsRecent
<1>2. TypeOK'
  BY TimeAssumption DEF LineByte, TypeOK
<1>3. ClockOK' /\ PendingIsRecent'
  BY TimeAssumption DEF LineByte, TypeOK, ClockOK, PendingIsRecent
<1>4. BacklogBounded'
  <2>1. ByteTime * ((ring + rcvIdx) + 1) = ByteTime * (ring + rcvIdx) + ByteTime * 1
    BY TimeAssumption, Distribute DEF TypeOK
  <2>2. Backlog' = Backlog
    BY <1>1, <2>1, TimeAssumption DEF LineByte, Backlog, TypeOK
  <2> QED
    BY <2>2 DEF LineByte, BacklogBounded, TimeToReceive
<1> QED
  BY <1>1, <1>2, <1>3, <1>4 DEF LineByte, NoOverrun, NoDrop

\* The interrupt finds room: a full ring would be too large a backlog.
LEMMA RxCompleteIrqKeeps ==
  ASSUME LoopInv, NoOverrun, NoDrop, RxCompleteIrq
  PROVE  LoopInv' /\ NoOverrun' /\ NoDrop'
<1> USE DEF LoopInv
<1>1. udr = 1
  BY DEF RxCompleteIrq, IrqPending, TypeOK
<1>2. TimeToReceive \in Nat
  BY TimeAssumption DEF TimeToReceive, TypeOK, ClockOK
<1>3. ring < Capacity
  <2> SUFFICES ASSUME ring = Capacity PROVE FALSE
    BY RingAssumption, TimeAssumption DEF TypeOK
  <2> DEFINE n == udr + ring + rcvIdx
  <2>1. n \in Nat /\ (MsgLen + MsgLen) + 1 <= n
    BY <1>1, RingAssumption, TimeAssumption DEF TypeOK
  <2>2. ByteTime * ((MsgLen + MsgLen) + 1) <= ByteTime * n
    BY <2>1, ProductMonotone, TimeAssumption
  <2>3. ByteTime * ((MsgLen + MsgLen) + 1)
          = ByteTime * (MsgLen + MsgLen) + ByteTime * 1
    BY Distribute, TimeAssumption
  <2>4. ByteTime * (MsgLen + MsgLen) = ByteTime * MsgLen + ByteTime * MsgLen
    BY Distribute, TimeAssumption
  <2>5. /\ ByteTime * MsgLen = MsgLen * ByteTime
        /\ MsgLen * ByteTime \in Nat
        /\ ByteTime * n \in Nat
    BY Weight
  <2>6. ByteTime * n + gap + TimeToReceive <= MsgLen * ByteTime + ComputeTime + ShowTime
    BY DEF BacklogBounded, Backlog
  <2> HIDE DEF n
  <2> QED
    BY <1>2, <2>2, <2>3, <2>4, <2>5, <2>6, TimeAssumption, BaudAssumption, LoopAssumption
    DEF TypeOK
<1>4. TypeOK'
  BY <1>3, TimeAssumption DEF RxCompleteIrq, TypeOK
<1>5. ClockOK' /\ PendingIsRecent'
  BY DEF RxCompleteIrq, ClockOK, PendingIsRecent
<1>6. BacklogBounded'
  <2>1. udr' + ring' + rcvIdx' = udr + ring + rcvIdx
    BY <1>1, <1>3, TimeAssumption DEF RxCompleteIrq, TypeOK
  <2> QED
    BY <2>1 DEF RxCompleteIrq, BacklogBounded, Backlog, TimeToReceive
<1> QED
  BY <1>3, <1>4, <1>5, <1>6 DEF RxCompleteIrq, NoOverrun, NoDrop

\* What a tick adds to the gap it takes off the time left.
LEMMA TickKeeps ==
  ASSUME LoopInv, NoOverrun, NoDrop, Tick
  PROVE  LoopInv' /\ NoOverrun' /\ NoDrop'
<1> USE DEF LoopInv
<1>1. TypeOK'
  BY TimeAssumption DEF Tick, TypeOK
<1>2. ClockOK'
  BY TimeAssumption DEF Tick, TypeOK, ClockOK
<1>3. PendingIsRecent'
  BY TimeAssumption DEF Tick, IrqPending, TypeOK, ClockOK, PendingIsRecent
<1>4. BacklogBounded'
  <2>1. TimeToReceive' = TimeToReceive - 1 /\ TimeToReceive \in Nat
    BY TimeAssumption DEF Tick, TimeToReceive, TypeOK, ClockOK
  <2>2. ByteTime * (udr' + ring' + rcvIdx') = ByteTime * (udr + ring + rcvIdx)
    BY DEF Tick
  <2>3. gap' <= gap + 1 /\ gap' \in Nat /\ gap \in Nat
    BY <1>1, TimeAssumption DEF Tick, TypeOK
  <2> QED
    BY <2>1, <2>2, <2>3, Weight, TimeAssumption DEF BacklogBounded, Backlog
<1> QED
  BY <1>1, <1>2, <1>3, <1>4 DEF Tick, NoOverrun, NoDrop

\* A data byte moves from the ring to the message, a header empties both.
LEMMA ReadByteKeeps ==
  ASSUME LoopInv, NoOverrun, NoDrop, ReadByte
  PROVE  LoopInv' /\ NoOverrun' /\ NoDrop'
<1> USE DEF LoopInv
<1>1. TypeOK'
  BY TimeAssumption, RingAssumption DEF ReadByte, TypeOK
<1>2. ClockOK' /\ PendingIsRecent'
  BY DEF ReadByte, ClockOK, PendingIsRecent
<1>3. BacklogBounded'
  <2>1. /\ udr' + ring' + rcvIdx' \in Nat /\ udr + ring + rcvIdx \in Nat
        /\ udr' + ring' + rcvIdx' <= udr + ring + rcvIdx
    <3>1. /\ udr \in Nat /\ ring \in Nat /\ rcvIdx \in Nat
          /\ udr' \in Nat /\ ring' \in Nat /\ rcvIdx' \in Nat
      BY <1>1, TimeAssumption, RingAssumption DEF TypeOK
    <3>2. udr' + ring' + rcvIdx' <= udr + ring + rcvIdx
      <4>1. CASE rcvIdx' = 0
        BY <3>1, <4>1 DEF ReadByte
      <4>2. CASE rcvIdx' = rcvIdx + 1
        BY <3>1, <4>2 DEF ReadByte
      <4> QED
        BY <4>1, <4>2 DEF ReadByte
    <3> QED
      BY <3>1, <3>2, SumNat
  <2>2. ByteTime * (udr' + ring' + rcvIdx') <= ByteTime * (udr + ring + rcvIdx)
    BY <2>1, ProductMonotone, TimeAssumption
  <2>3. /\ ByteTime * (udr' + ring' + rcvIdx') \in Nat
        /\ ByteTime * (udr + ring + rcvIdx) \in Nat
    BY <2>1, ProductNat, TimeAssumption
  <2>4. UNCHANGED <<gap, TimeToReceive>> /\ gap \in Nat /\ TimeToReceive \in Nat
    BY TimeAssumption DEF ReadByte, TimeToReceive, TypeOK, ClockOK
  <2> QED
    BY <2>2, <2>3, <2>4, Weight, TimeAssumption DEF BacklogBounded, Backlog
<1> QED
  BY <1>1, <1>2, <1>3 DEF ReadByte, NoOverrun, NoDrop

\* A complete message takes its weight off the backlog; otherwise the ring is
\* empty and less than a message is left.
LEMMA ReceiveDoneKeeps ==
  ASSUME LoopInv, NoOverrun, NoDrop, ReceiveDone
  PROVE  LoopInv' /\ NoOverrun' /\ NoDrop'
<1> USE DEF LoopInv
<1>1. udr = 0
  BY DEF ReceiveDone, IrqPending, TypeOK, ClockOK
<1>2. TypeOK'
  BY TimeAssumption DEF ReceiveDone, TypeOK
<1>3. ClockOK' /\ PendingIsRecent'
  BY <1>1, TimeAssumption DEF ReceiveDone, ClockOK, PendingIsRecent
<1>4. TimeToReceive' = ComputeTime + ShowTime
  BY TimeAssumption DEF ReceiveDone, TimeToReceive
<1>5. CASE rcvIdx = MsgLen
  <2>1. ByteTime * (ring + MsgLen) = ByteTime * ring + ByteTime * MsgLen
    BY Distribute, TimeAssumption DEF TypeOK
  <2>2. Backlog = Backlog' + MsgLen * ByteTime
    BY <1>1, <1>5, <2>1, Weight, ProductNat, TimeAssumption, RingAssumption
    DEF ReceiveDone, Backlog, TypeOK
  <2>3. Backlog <= MsgLen * ByteTime + ComputeTime + ShowTime
    <3>1. TimeToReceive = 0 /\ Backlog \in Nat
      BY Weight, TimeAssumption DEF ReceiveDone, TimeToReceive, Backlog, TypeOK
    <3> QED
      BY <3>1 DEF BacklogBounded
  <2>4. Backlog' \in Nat
    <3>1. udr' + ring' + rcvIdx' \in Nat
      <4>1. udr' \in Nat /\ ring' \in Nat /\ rcvIdx' \in Nat
        BY <1>2, TimeAssumption, RingAssumption DEF TypeOK
      <4> QED
        BY <4>1, SumNat
    <3>2. ByteTime * (udr' + ring' + rcvIdx') \in Nat
      BY <3>1, ProductNat, TimeAssumption
    <3>3. gap' \in Nat
      BY <1>2, TimeAssumption DEF TypeOK
    <3> QED
      BY <3>2, <3>3, SumNat DEF Backlog
  <2>5. BacklogBounded'
    <3> DEFINE left == Backlog'
    <3>1. left \in Nat /\ left + MsgLen * ByteTime <= MsgLen * ByteTime + ComputeTime + ShowTime
      BY <2>2, <2>3, <2>4
    <3> HIDE DEF left
    <3>2. left + (ComputeTime + ShowTime) <= MsgLen * ByteTime + ComputeTime + ShowTime
      BY <3>1, Weight, TimeAssumption, LoopAssumption
    <3> QED
      BY <1>4, <3>2 DEF left, BacklogBounded
  <2> QED
    BY <1>2, <1>3, <2>5 DEF ReceiveDone, NoOverrun, NoDrop
<1>6. CASE ring = 0 /\ rcvIdx # MsgLen
  <2>1. rcvIdx \in Nat /\ rcvIdx + 1 <= MsgLen
    BY <1>6, TimeAssumption DEF TypeOK
  <2>2. ByteTime * (rcvIdx + 1) <= ByteTime * MsgLen
    BY <2>1, ProductMonotone, TimeAssumption
  <2>3. ByteTime * (rcvIdx + 1) = ByteTime * rcvIdx + ByteTime * 1
    BY <2>1, Distribute, TimeAssumption
  <2>4. Backlog' = ByteTime * rcvIdx + gap /\ ByteTime * rcvIdx \in Nat
    BY <1>1, <1>6, <2>1, ProductNat, TimeAssumption DEF ReceiveDone, Backlog
  <2>5. Backlog' <= MsgLen * ByteTime
    BY <2>2, <2>3, <2>4, Weight, TimeAssumption DEF TypeOK
  <2> QED
    BY <1>2, <1>3, <1>4, <2>4, <2>5, Weight, TimeAssumption
    DEF ReceiveDone, BacklogBounded, NoOverrun, NoDrop, TypeOK
<1> QED
  BY <1>5, <1>6 DEF ReceiveDone

\* Switching the interrupts off or on moves no byte.
LEMMA ShowKeeps ==
  ASSUME LoopInv, NoOverrun, NoDrop, ShowBegin \/ ShowEnd
  PROVE  LoopInv' /\ NoOverrun' /\ NoDrop'
<1> USE DEF LoopInv
<1>1. TypeOK' /\ NoOverrun' /\ NoDrop'
  BY TimeAssumption DEF ShowBegin, ShowEnd, TypeOK, NoOverrun, NoDrop
<1>2. ClockOK'
  BY TimeAssumption DEF ShowBegin, ShowEnd, TypeOK, ClockOK
<1>3. PendingIsRecent'
  BY TimeAssumption
  DEF ShowBegin, ShowEnd, IrqPending, TypeOK, ClockOK, PendingIsRecent
<1>4. BacklogBounded'
  <2>1. TimeToReceive' <= TimeToReceive /\ TimeToReceive' \in Nat /\ TimeToReceive \in Nat
    BY TimeAssumption DEF ShowBegin, ShowEnd, TimeToReceive, TypeOK, ClockOK
  <2>2. Backlog' = Backlog /\ Backlog \in Nat
    BY Weight, TimeAssumption DEF ShowBegin, ShowEnd, Backlog, TypeOK
  <2> DEFINE limit == MsgLen * ByteTime + ComputeTime + ShowTime
  <2>3. Backlog + TimeToReceive <= limit /\ limit \in Nat
    BY Weight, TimeAssumption DEF BacklogBounded
  <2> DEFINE left == TimeToReceive'
  <2>4. left <= TimeToReceive /\ left \in Nat
    BY <2>1
  <2> HIDE DEF limit, left
  <2>5. Backlog + left <= limit
    BY <2>1, <2>2, <2>3, <2>4
  <2> QED
    BY <2>2, <2>5 DEF limit, left, BacklogBounded
<1> QED
  BY <1>1, <1>2, <1>3, <1>4

LEMMA NextKeeps ==
  LoopInv /\ NoOverrun /\ NoDrop /\ [Next]_vars => LoopInv' /\ NoOverrun' /\ NoDrop'
<1> SUFFICES ASSUME LoopInv, NoOverrun, NoDrop, [Next]_vars
             PROVE  LoopInv' /\ NoOverrun' /\ NoDrop'
  OBVIOUS
<1>1. CASE UNCHANGED vars
  BY <1>1
  DEF vars, LoopInv, TypeOK, ClockOK, PendingIsRecent, BacklogBounded, Backlog,
      TimeToReceive, NoOverrun, NoDrop
<1> QED
  BY <1>1, LineByteKeeps, RxCompleteIrqKeeps, TickKeeps, ReadByteKeeps,
     ReceiveDoneKeeps, ShowKeeps
  DEF Next

\* The state of line, ring and loop() stays within the bounds of LoopInv: the
\* backlog never exceeds a message plus a turn of loop().
THEOREM LoopInvariant == Spec => [](LoopInv /\ NoOverrun /\ NoDrop)
BY InitEstablishes, NextKeeps, PTL DEF Spec

\* While show() takes less than a byte time, no byte is overwritten in the USART.
THEOREM NoByteOverwritten == Spec => []NoOverrun
BY LoopInvariant, PTL

\* While a turn of loop() takes no longer than a message, a ring of two
\* messages never overflows, however long the host keeps sending.
THEOREM NoByteDropped == Spec => []NoDrop
BY LoopInvariant, PTL

(***************************************************************************)
(* The sum of the loads.                                                   *)
(***************************************************************************)

\* calcTotalLoad() returns a percentage, whatever the data bytes are.
LEMMA TotalLoad ==
  ASSUME NEW load, \A i \in Nodes : load[i] \in Nat
  PROVE  calcTotalLoad(load) \in 0 .. 100
<1>1. Cardinality(Nodes) \in Nat \ {0}
  BY FS_CardinalityType, FS_EmptySet, NodesAssumption
<1> DEFINE sum == SumOf(load, Nodes)
<1>2. PICK g \in Sums(Nodes, load) : sum = g[Nodes]
  BY SumOver, NodesAssumption
<1> HIDE DEF sum
<1>3. sum \in Nat
  BY <1>2 DEF Sums
<1>4. sum \div Cardinality(Nodes) \in Nat
  BY <1>1, <1>3
<1>5. calcTotalLoad(load) =
        IF sum \div Cardinality(Nodes) > 100 THEN 100 ELSE sum \div Cardinality(Nodes)
  BY DEF calcTotalLoad, sum, SumOf
<1> QED BY <1>4, <1>5

\* Every buffer of loop() has loads for all nodes.
LEMMA LoadOfBuffer ==
  ASSUME NEW load \in Data \cup {[i \in Nodes |-> 0]}
  PROVE  calcTotalLoad(load) \in 0 .. 100
<1>1. \A i \in Nodes : load[i] \in Nat
  BY MessageAssumption
<1> QED BY <1>1, TotalLoad

(***************************************************************************)
(* The clock of the status LED.                                            *)
(***************************************************************************)

\* The time since a start, as differences of unsigned numbers tell it.
Elapsed == (now + Wrap - flashStart) % Wrap

\* Time adds up, also when millis() starts over, while less than a round has passed.
LEMMA ElapsedGrows ==
  ASSUME NEW w \in Nat \ {0}, NEW x \in 0 .. w - 1, NEW y \in 0 .. w - 1, NEW t \in Nat,
         ((x + w - y) % w) + t < w
  PROVE  (((x + t) % w) + w - y) % w = ((x + w - y) % w) + t
<1> DEFINE e == IF x < y THEN x + w - y ELSE x - y
           z == IF x + t < w THEN x + t ELSE x + t - w
<1>1. (x + w - y) % w = e
  BY DifferenceMod
<1>2. e \in 0 .. w - 1 /\ e + t < w
  BY <1>1
<1>3. t \in 0 .. w - 1
  BY <1>2
<1>4. (x + t) % w = z
  BY <1>3, SumMod
<1>5. z \in 0 .. w - 1
  BY <1>3
<1>6. (z + w - y) % w = IF z < y THEN z + w - y ELSE z - y
  BY <1>5, DifferenceMod
<1>7. (IF z < y THEN z + w - y ELSE z - y) = e + t
  BY <1>2, <1>5
<1> QED BY <1>1, <1>4, <1>6, <1>7

(***************************************************************************)
(* The invariant.                                                          *)
(***************************************************************************)

\* As long as the flash lasts, the difference of the times is the time since the
\* message; and when it is over the turn to come will see that it is.
FlashInv ==
  /\ FlashTellsMessage
  /\ age <= FlashDelay => statusLed /\ Elapsed = age
  /\ statusLed /\ age > FlashDelay => Elapsed > FlashDelay

\* The invariant of loop(): types, the booting status, and the flash.
LedInv == LoopTypeOK /\ BootMatchesReport /\ FlashInv

LEMMA LedInit == LoopInit => LedInv
<1> SUFFICES ASSUME LoopInit PROVE LedInv
  OBVIOUS
<1>1. LoopTypeOK
  <2>1. statusLed \in BOOLEAN /\ loopAt \in {"loop", "pass"}
    BY Zenon DEF LoopInit
  <2>2. flashStart \in 0 .. Wrap - 1 /\ now \in 0 .. Wrap - 1 /\ age \in 0 .. FlashDelay + 1
    BY TurnAssumption DEF LoopInit
  <2>3. bootStatus \in [Nodes -> 0 .. Full] /\ wavePos \in 0 .. Strip
    BY StepAssumption, LedAssumption DEF LoopInit, Strip
  <2>4. modeState \in Mode \cup {NONE} /\ rcvBuffer \in Data \cup {[i \in Nodes |-> 0]}
    BY DEF LoopInit
  <2> QED BY <2>1, <2>2, <2>3, <2>4 DEF LoopTypeOK
<1>2. BootMatchesReport
  BY DEF LoopInit, BootMatchesReport, NONE, BOOT
<1>3. FlashInv
  BY TurnAssumption DEF LoopInit, FlashInv, FlashTellsMessage
<1> QED BY <1>1, <1>2, <1>3 DEF LedInv

\* What a turn makes of a booting status.
LEMMA BootAfterMessageType ==
  ASSUME NEW status \in [Nodes -> 0 .. Full], NEW data \in Data
  PROVE  /\ BootAfterMessage(status, data) \in [Nodes -> 0 .. Full]
         /\ \A i \in Nodes : data[i] = 0 <=> BootAfterMessage(status, data)[i] = 0
BY StepAssumption DEF BootAfterMessage

\* updateBootEffect() never takes a node back, and starts or stops none.
LEMMA UpdateBootType ==
  ASSUME NEW status \in [Nodes -> 0 .. Full]
  PROVE  /\ updateBootEffect(status) \in [Nodes -> 0 .. Full]
         /\ \A i \in Nodes : /\ status[i] = 0 <=> updateBootEffect(status)[i] = 0
                             /\ status[i] <= updateBootEffect(status)[i]
BY StepAssumption DEF updateBootEffect

\* One subtraction of the strip is enough.
LEMMA WaveType ==
  ASSUME NEW pos \in 0 .. Strip, NEW mode, NEW load \in Data \cup {[i \in Nodes |-> 0]}
  PROVE  /\ NextWavePos(pos, mode, load) \in 0 .. Strip
         /\ mode # LOAD => NextWavePos(pos, mode, load) = pos
         /\ mode = LOAD => (NextWavePos(pos, mode, load) + Strip - pos) % Strip \in 100 .. 400
<1>1. calcTotalLoad(load) \in 0 .. 100
  BY LoadOfBuffer
<1>2. Strip \in Nat /\ Strip >= 600
  BY LedAssumption DEF Strip
<1> DEFINE s == 100 + 3 * calcTotalLoad(load)
<1>3. s \in 100 .. 400
  BY <1>1
<1>4. NextWavePos(pos, mode, load) =
        IF mode = LOAD THEN IF pos + s > Strip THEN pos + s - Strip ELSE pos + s
        ELSE pos
  BY <1>1, <1>2 DEF NextWavePos
<1> HIDE DEF s
<1>5. ASSUME mode = LOAD
      PROVE  (NextWavePos(pos, mode, load) + Strip - pos) % Strip = s
  <2>1. s % Strip = s
    BY <1>2, <1>3
  <2>2. (s + Strip) % Strip = s % Strip
    BY <1>2, <1>3
  <2>3. NextWavePos(pos, mode, load) + Strip - pos = IF pos + s > Strip THEN s ELSE s + Strip
    BY <1>2, <1>3, <1>4, <1>5
  <2> QED BY <2>1, <2>2, <2>3
<1> QED BY <1>2, <1>3, <1>4, <1>5

\* A turn with a message is told from one without.
LEMMA MessageIsOne ==
  /\ NoMessage \notin Message
  /\ \A msg \in Message : msg.mode \in Mode /\ msg.mode \in 0 .. 15 /\ msg.data \in Data
<1>1. ASSUME NEW msg \in Message PROVE msg.mode \in Mode /\ msg.mode \in 0 .. 15 /\ msg.data \in Data
  BY MessageAssumption DEF Message
<1>2. NoMessage.mode = -1
  BY DEF NoMessage
<1> QED BY <1>1, <1>2

\* What a turn does to the state, whichever message it has.
LEMMA TurnWithMessage ==
  ASSUME LedInv, NEW msg \in Message, Loop(msg)
  PROVE  /\ modeState' = msg.mode /\ rcvBuffer' = msg.data
         /\ flashStart' = now /\ statusLed' = ~FlashOver(now) /\ age' = 0
         /\ wavePos' = NextWavePos(wavePos, modeState', rcvBuffer')
         /\ LET boot == IF msg.mode = BOOT THEN BootAfterMessage(bootStatus, msg.data)
                        ELSE bootStatus
            IN bootStatus' = IF msg.mode = BOOT THEN updateBootEffect(boot) ELSE boot
         /\ loopAt = "loop" /\ loopAt' = "pass" /\ now' = now
<1>1. msg # NoMessage
  BY MessageIsOne
<1> QED BY <1>1, Zenon DEF Loop, BootStart

LEMMA TurnWithout ==
  ASSUME LedInv, Loop(NoMessage)
  PROVE  /\ modeState' = modeState /\ rcvBuffer' = rcvBuffer
         /\ flashStart' = flashStart /\ statusLed' = (statusLed /\ ~FlashOver(flashStart))
         /\ age' = age
         /\ wavePos' = NextWavePos(wavePos, modeState', rcvBuffer')
         /\ bootStatus' = IF modeState = BOOT THEN updateBootEffect(bootStatus) ELSE bootStatus
         /\ loopAt = "loop" /\ loopAt' = "pass" /\ now' = now
BY Zenon DEF Loop, BootStart

\* The booting nodes after a turn, and how the turn moved them.
LEMMA TurnMovesBoot ==
  ASSUME LedInv, NEW msg \in Message \cup {NoMessage}, Loop(msg)
  PROVE  /\ bootStatus' \in [Nodes -> 0 .. Full]
         /\ BootMatchesReport'
         /\ \A i \in Nodes : BootKeepsOn(i)
<1> USE DEF LedInv, LoopTypeOK
<1>1. CASE msg \in Message
  <2> DEFINE boot == IF msg.mode = BOOT THEN BootAfterMessage(bootStatus, msg.data) ELSE bootStatus
  <2>1. /\ modeState' = msg.mode /\ rcvBuffer' = msg.data
        /\ bootStatus' = IF msg.mode = BOOT THEN updateBootEffect(boot) ELSE boot
    BY <1>1, TurnWithMessage
  <2>2. msg.data \in Data
    BY <1>1, MessageIsOne
  <2>3. CASE msg.mode = BOOT
    <3>1. /\ boot \in [Nodes -> 0 .. Full]
          /\ \A i \in Nodes : msg.data[i] = 0 <=> boot[i] = 0
      BY <2>2, <2>3, BootAfterMessageType
    <3>2. \A i \in Nodes : msg.data[i] # 0 => bootStatus[i] <= boot[i]
      BY <2>2, <2>3 DEF BootAfterMessage
    <3> HIDE DEF boot
    <3>3. bootStatus' = updateBootEffect(boot)
      BY <2>1, <2>3
    <3>4. /\ updateBootEffect(boot) \in [Nodes -> 0 .. Full]
          /\ \A i \in Nodes : /\ boot[i] = 0 <=> updateBootEffect(boot)[i] = 0
                              /\ boot[i] <= updateBootEffect(boot)[i]
      BY <3>1, UpdateBootType
    <3>5. BootMatchesReport'
      BY <3>1, <3>3, <3>4, <2>1 DEF BootMatchesReport
    <3>6. ASSUME NEW i \in Nodes PROVE BootKeepsOn(i)
      <4>1. CASE msg.data[i] = 0
        <5>1. bootStatus'[i] = 0 /\ rcvBuffer'[i] = 0 /\ modeState' = BOOT
          BY <4>1, <3>1, <3>3, <3>4, <2>1, <2>3
        <5> QED BY <5>1 DEF BootKeepsOn
      <4>2. CASE msg.data[i] # 0
        <5>1. bootStatus[i] <= boot[i] /\ boot[i] <= bootStatus'[i]
          BY <4>2, <3>2, <3>3, <3>4
        <5>2. bootStatus[i] \in Nat /\ boot[i] \in Nat /\ bootStatus'[i] \in Nat
          BY <3>1, <3>3, <3>4
        <5> QED BY <5>1, <5>2 DEF BootKeepsOn
      <4> QED BY <4>1, <4>2
    <3> QED BY <3>3, <3>4, <3>5, <3>6
  <2>4. CASE msg.mode # BOOT
    <3>1. bootStatus' = bootStatus /\ modeState' # BOOT
      BY <2>1, <2>4
    <3>2. \A i \in Nodes : BootKeepsOn(i)
      BY <3>1 DEF BootKeepsOn
    <3> QED BY <3>1, <3>2 DEF BootMatchesReport
  <2> QED BY <2>3, <2>4
<1>2. CASE msg = NoMessage
  <2>1. /\ modeState' = modeState /\ rcvBuffer' = rcvBuffer
        /\ bootStatus' = IF modeState = BOOT THEN updateBootEffect(bootStatus) ELSE bootStatus
    BY <1>2, TurnWithout
  <2>2. /\ updateBootEffect(bootStatus) \in [Nodes -> 0 .. Full]
        /\ \A i \in Nodes : /\ bootStatus[i] = 0 <=> updateBootEffect(bootStatus)[i] = 0
                            /\ bootStatus[i] <= updateBootEffect(bootStatus)[i]
    BY UpdateBootType
  <2>3. BootMatchesReport'
    BY <2>1, <2>2 DEF BootMatchesReport
  <2>4. ASSUME NEW i \in Nodes PROVE BootKeepsOn(i)
    <3>1. bootStatus[i] \in Nat /\ bootStatus'[i] \in Nat /\ bootStatus[i] <= bootStatus'[i]
      BY <2>1, <2>2
    <3> QED BY <3>1 DEF BootKeepsOn
  <2> QED BY <2>1, <2>2, <2>3, <2>4
<1> QED BY <1>1, <1>2

\* The status LED after a turn.
LEMMA TurnTellsMessage ==
  ASSUME LedInv, NEW msg \in Message \cup {NoMessage}, Loop(msg)
  PROVE  /\ FlashInv'
         /\ statusLed' \in BOOLEAN /\ flashStart' \in 0 .. Wrap - 1 /\ now' \in 0 .. Wrap - 1
         /\ age' \in 0 .. FlashDelay + 1
<1>0. /\ statusLed \in BOOLEAN /\ flashStart \in 0 .. Wrap - 1 /\ now \in 0 .. Wrap - 1
      /\ age \in 0 .. FlashDelay + 1
      /\ FlashDelay \in Nat /\ Wrap \in Nat
  BY TurnAssumption DEF LedInv, LoopTypeOK
<1>1. CASE msg \in Message
  <2>1. flashStart' = now /\ now' = now /\ age' = 0
    BY <1>1, TurnWithMessage
  <2>2. (now + Wrap - now) % Wrap = 0
    BY <1>0, DifferenceMod
  <2>3. ~FlashOver(now)
    BY <2>2, <1>0 DEF FlashOver
  <2>4. statusLed' = TRUE
    BY <1>1, <2>3, TurnWithMessage, Zenon
  <2>5. Elapsed' = 0
    BY <2>1, <2>2 DEF Elapsed
  <2>6. statusLed'
    BY <2>4, Zenon
  <2>7. FlashTellsMessage'
    BY <2>1, <2>6, <1>0 DEF FlashTellsMessage
  <2>8. FlashInv'
    BY <2>1, <2>5, <2>6, <2>7, <1>0 DEF FlashInv
  <2>9. statusLed' \in BOOLEAN
    BY <2>4, Zenon
  <2> QED BY <2>1, <2>8, <2>9, <1>0
<1>2. CASE msg = NoMessage
  <2>1. flashStart' = flashStart /\ now' = now /\ age' = age /\ loopAt = "loop" /\ loopAt' = "pass"
    BY <1>2, TurnWithout
  <2>2. statusLed' = (statusLed /\ ~FlashOver(flashStart))
    BY <1>2, TurnWithout, Zenon
  <2>3. statusLed' <=> (statusLed /\ ~FlashOver(flashStart))
    BY <2>2, Zenon
  <2>4. statusLed' \in BOOLEAN
    BY <2>2, Zenon
  <2>5. Elapsed' = Elapsed
    BY <2>1 DEF Elapsed
  <2>6. FlashOver(flashStart) <=> Elapsed > FlashDelay
    BY DEF FlashOver, Elapsed
  <2>7. FlashInv
    BY DEF LedInv
  <2>8. statusLed' <=> age <= FlashDelay
    <3>1. CASE age <= FlashDelay
      BY <3>1, <2>3, <2>6, <2>7, <1>0 DEF FlashInv
    <3>2. CASE age > FlashDelay
      BY <3>2, <2>3, <2>6, <2>7, <1>0 DEF FlashInv
    <3> QED BY <3>1, <3>2, <1>0
  <2>9. FlashTellsMessage'
    BY <2>1, <2>8 DEF FlashTellsMessage
  <2>10. age' <= FlashDelay => statusLed' /\ Elapsed' = age'
    BY <2>1, <2>5, <2>7, <2>8 DEF FlashInv
  <2>11. ~(statusLed' /\ age' > FlashDelay)
    BY <2>1, <2>8, <1>0
  <2>12. FlashInv'
    BY <2>9, <2>10, <2>11 DEF FlashInv
  <2> QED BY <2>1, <2>4, <2>12, <1>0
<1> QED BY <1>1, <1>2

\* A turn of loop(), with a message or without.
LEMMA TurnKeeps ==
  ASSUME LedInv, NEW msg \in Message \cup {NoMessage}, Loop(msg)
  PROVE  /\ LedInv'
         /\ IF modeState' = LOAD
            THEN (wavePos' + Strip - wavePos) % Strip \in 100 .. 400
            ELSE wavePos' = wavePos
<1>1. /\ modeState' \in Mode \cup {NONE}
      /\ rcvBuffer' \in Data \cup {[i \in Nodes |-> 0]}
      /\ wavePos' = NextWavePos(wavePos, modeState', rcvBuffer')
      /\ loopAt' = "pass"
  <2>1. CASE msg \in Message
    BY <2>1, TurnWithMessage, MessageIsOne
  <2>2. CASE msg = NoMessage
    BY <2>2, TurnWithout DEF LedInv, LoopTypeOK
  <2> QED BY <2>1, <2>2
<1>2. wavePos \in 0 .. Strip
  BY DEF LedInv, LoopTypeOK
<1>3. /\ wavePos' \in 0 .. Strip
      /\ IF modeState' = LOAD
         THEN (wavePos' + Strip - wavePos) % Strip \in 100 .. 400
         ELSE wavePos' = wavePos
  BY <1>1, <1>2, WaveType
<1>4. LoopTypeOK'
  BY <1>1, <1>3, TurnMovesBoot, TurnTellsMessage DEF LoopTypeOK
<1> QED BY <1>3, <1>4, TurnMovesBoot, TurnTellsMessage DEF LedInv

\* Time passes.
LEMMA PassKeeps ==
  ASSUME LedInv, NEW t \in Turn, Pass(t)
  PROVE  LedInv'
<1>0. /\ flashStart \in 0 .. Wrap - 1 /\ now \in 0 .. Wrap - 1
      /\ age \in 0 .. FlashDelay + 1
      /\ FlashDelay \in Nat /\ Wrap \in Nat \ {0} /\ t \in Nat /\ FlashDelay + t < Wrap
  BY TurnAssumption DEF LedInv, LoopTypeOK
<1>1. /\ loopAt = "pass" /\ loopAt' = "loop" /\ now' = (now + t) % Wrap
      /\ age' = IF age + t > FlashDelay THEN FlashDelay + 1 ELSE age + t
      /\ modeState' = modeState /\ rcvBuffer' = rcvBuffer /\ bootStatus' = bootStatus
      /\ wavePos' = wavePos /\ statusLed' = statusLed /\ flashStart' = flashStart
  BY DEF Pass
<1>2. now' \in 0 .. Wrap - 1 /\ age' \in 0 .. FlashDelay + 1
  BY <1>0, <1>1
<1>3. LoopTypeOK'
  BY <1>1, <1>2 DEF LedInv, LoopTypeOK
<1>4. BootMatchesReport'
  BY <1>1 DEF LedInv, BootMatchesReport
<1>5. statusLed <=> age <= FlashDelay
  BY <1>1 DEF LedInv, FlashInv, FlashTellsMessage
<1>6. statusLed' <=> statusLed
  BY <1>1, Zenon
<1>7. ASSUME age <= FlashDelay PROVE Elapsed' = age + t
  <2>1. Elapsed = age
    BY <1>7 DEF LedInv, FlashInv
  <2>2. ((now + Wrap - flashStart) % Wrap) + t < Wrap
    BY <2>1, <1>7, <1>0 DEF Elapsed
  <2>3. (((now + t) % Wrap) + Wrap - flashStart) % Wrap = ((now + Wrap - flashStart) % Wrap) + t
    BY <2>2, <1>0, ElapsedGrows
  <2> QED BY <2>1, <2>3, <1>1 DEF Elapsed
<1>8. age' <= FlashDelay => statusLed' /\ Elapsed' = age'
  BY <1>0, <1>1, <1>5, <1>6, <1>7
<1>9. statusLed' /\ age' > FlashDelay => Elapsed' > FlashDelay
  BY <1>0, <1>1, <1>5, <1>6, <1>7
<1>10. FlashTellsMessage'
  BY <1>1 DEF FlashTellsMessage
<1> QED BY <1>3, <1>4, <1>8, <1>9, <1>10 DEF LedInv, FlashInv

\* Turns and the time between them.
LEMMA LedNext == LedInv /\ [LoopNext]_loopVars => LedInv'
<1> SUFFICES ASSUME LedInv, [LoopNext]_loopVars PROVE LedInv'
  OBVIOUS
<1>1. ASSUME NEW msg \in Message, Loop(msg) PROVE LedInv'
  BY <1>1, TurnKeeps
<1>2. CASE Loop(NoMessage)
  BY <1>2, TurnKeeps
<1>3. ASSUME NEW t \in Turn, Pass(t) PROVE LedInv'
  BY <1>3, PassKeeps
<1>4. CASE UNCHANGED loopVars
  <2>1. FlashTellsMessage' /\ Elapsed' = Elapsed
    BY <1>4 DEF LedInv, FlashInv, loopVars, FlashTellsMessage, Elapsed
  <2>2. FlashInv'
    BY <1>4, <2>1 DEF LedInv, FlashInv, loopVars
  <2>3. LoopTypeOK' /\ BootMatchesReport'
    BY <1>4 DEF LedInv, loopVars, LoopTypeOK, BootMatchesReport
  <2> QED BY <2>2, <2>3 DEF LedInv
<1> QED BY <1>1, <1>2, <1>3, <1>4 DEF LoopNext

\* The inductive invariant.
THEOREM LedInvariant == LoopSpec => []LedInv
<1> QED BY LedInit, LedNext, PTL DEF LoopSpec

\* What is shown agrees with the messages: in the boot mode exactly the nodes reported up
\* have left the dark, and after a turn the status LED is on if and only if the last
\* message is at most FlashDelay old, also when millis() starts over in between.
THEOREM ShownIsTrue == LoopSpec => []ShownMatchesMessages
<1>1. LedInv => ShownMatchesMessages
  BY DEF LedInv, FlashInv, ShownMatchesMessages
<1> QED BY <1>1, LedInvariant, PTL

\* No turn of loop() takes the boot effect of a node back, except to dark and by a report
\* that it is down; the wave moves forward under load, over the end of the strip too, and
\* rests in every other mode.
THEOREM AnimationsNeverJump == LoopSpec => AnimationsMoveOn
<1> DEFINE A == /\ \A i \in Nodes : BootKeepsOn(i)
                /\ IF modeState' = LOAD /\ loopAt = "loop"
                   THEN (wavePos' + Strip - wavePos) % Strip \in 100 .. 400
                   ELSE wavePos' = wavePos
<1>1. LedInv /\ LoopNext => A
  <2> SUFFICES ASSUME LedInv, LoopNext PROVE A
    OBVIOUS
  <2>1. ASSUME NEW msg \in Message \cup {NoMessage}, Loop(msg) PROVE A
    <3>1. loopAt = "loop"
      BY <2>1 DEF Loop
    <3> QED BY <2>1, <3>1, TurnKeeps, TurnMovesBoot
  <2>2. ASSUME NEW t \in Turn, Pass(t) PROVE A
    <3>1. loopAt = "pass" /\ bootStatus' = bootStatus /\ wavePos' = wavePos
      BY <2>2 DEF Pass
    <3>2. \A i \in Nodes : bootStatus[i] \in Nat
      BY DEF LedInv, LoopTypeOK
    <3> QED BY <3>1, <3>2 DEF BootKeepsOn
  <2> HIDE DEF A
  <2> QED BY <2>1, <2>2 DEF LoopNext
<1>2. LedInv /\ [LoopNext]_loopVars => [A]_loopVars
  BY <1>1
<1> QED BY <1>2, LedInvariant, PTL DEF LoopSpec, AnimationsMoveOn

(***************************************************************************)
(* The pixels. From here on the cluster and the strip are as they are: 16  *)
(* nodes and 98 LEDs. The messages are any, and the strip is what a turn   *)
(* makes of them, whatever it showed before.                               *)
(***************************************************************************)

\* The cluster and its strip as they are.
RealSize == Nodes = 0 .. 15 /\ LedCount = 98 /\ Half = 51 /\ Full = 101

(***************************************************************************)
(* Colours: what rounding and interpolating leave of them.                 *)
(***************************************************************************)

\* The colours of a pixel of the driver.
Colours == [Channel -> 0 .. 255]
\* red and green together
LitBy(c) == c["r"] + c["g"]

\* A colour has two parts.
LEMMA ChannelOf ==
  /\ "r" \in Channel /\ "g" \in Channel
  /\ \A f : (\A c \in Channel : f[c] \in 0 .. 255) <=> f["r"] \in 0 .. 255 /\ f["g"] \in 0 .. 255
BY DEF Channel

\* round() is half a unit off at most.
LEMMA RoundFifth ==
  ASSUME NEW x \in Nat
  PROVE  Round(x, 5) \in Nat /\ 10 * Round(x, 5) <= 2 * x + 5 /\ 2 * x - 5 < 10 * Round(x, 5)
BY DEF Round

LEMMA RoundTenth ==
  ASSUME NEW x \in Nat
  PROVE  Round(x, 10) \in Nat /\ 20 * Round(x, 10) <= 2 * x + 10 /\ 2 * x - 10 < 20 * Round(x, 10)
BY DEF Round

LEMMA RoundHalf ==
  ASSUME NEW x \in Nat
  PROVE  Round(x, 2) \in Nat /\ 4 * Round(x, 2) <= 2 * x + 2 /\ 2 * x - 2 < 4 * Round(x, 2)
BY DEF Round

LEMMA RoundPercent ==
  ASSUME NEW x \in Nat
  PROVE  Round(x, 100) \in Nat /\ 200 * Round(x, 100) <= 2 * x + 100 /\ 2 * x - 100 < 200 * Round(x, 100)
BY DEF Round

LEMMA RoundWave ==
  ASSUME NEW x \in Nat
  PROVE  Round(x, 900) \in Nat /\ 1800 * Round(x, 900) <= 2 * x + 900 /\ 2 * x - 900 < 1800 * Round(x, 900)
BY DEF Round

\* The driver scales nothing, once the brightness is full.
LEMMA Unscaled ==
  ASSUME brightness = 0, NEW c \in Colours
  PROVE  setPixelColor(c) = c /\ getPixelColor(c) = c
BY DEF setPixelColor, getPixelColor, Colours

\* The colours the effects start from.
LEMMA PureColours ==
  /\ Black \in Colours /\ Black["r"] = 0 /\ Black["g"] = 0
  /\ Red \in Colours /\ Red["r"] = 255 /\ Red["g"] = 0
  /\ Green \in Colours /\ Green["r"] = 0 /\ Green["g"] = 255
BY DEF Black, Red, Green, Channel, Colours

\* The colour of a load, and what it is at the ends.
LEMMA LoadColour ==
  ASSUME NEW n \in Nat
  PROVE  /\ mapLoadToColor(n) \in Colours /\ LitBy(mapLoadToColor(n)) \in 255 .. 256
         /\ n = 0 => mapLoadToColor(n)["r"] = 0 /\ mapLoadToColor(n)["g"] = 255
         /\ n >= 100 => mapLoadToColor(n)["r"] = 255 /\ mapLoadToColor(n)["g"] = 0
<1> DEFINE p == IF n > 100 THEN 100 ELSE n
           m == mapLoadToColor(n)
<1>1. p \in 0 .. 100 /\ (n = 0 => p = 0) /\ (n >= 100 => p = 100)
  OBVIOUS
<1>2. m = [c \in Channel |-> Round((100 - p) * Green[c] + p * Red[c], 100)]
  BY DEF mapLoadToColor, Interpolate
<1> HIDE DEF p, m
<1>3. m["r"] = Round((100 - p) * 0 + p * 255, 100) /\ m["g"] = Round((100 - p) * 255 + p * 0, 100)
  BY <1>2, PureColours, ChannelOf
<1>4. (100 - p) * 0 + p * 255 = 255 * p /\ (100 - p) * 255 + p * 0 = 25500 - 255 * p
  BY <1>1
<1>5. 255 * p \in Nat /\ 25500 - 255 * p \in Nat
  BY <1>1
<1> DEFINE r == m["r"]
           g == m["g"]
<1>6. /\ r \in Nat /\ 200 * r <= 510 * p + 100 /\ 510 * p - 100 < 200 * r
      /\ g \in Nat /\ 200 * g <= 51100 - 510 * p /\ 50900 - 510 * p < 200 * g
  BY <1>3, <1>4, <1>5, <1>1, RoundPercent
<1>7. /\ r \in 0 .. 255 /\ g \in 0 .. 255 /\ r + g \in 255 .. 256
      /\ (p = 0 => r = 0 /\ g = 255) /\ (p = 100 => r = 255 /\ g = 0)
  <2> HIDE DEF r, g
  <2> QED BY <1>6, <1>1
<1>8. m \in Colours
  <2>1. m["r"] \in 0 .. 255 /\ m["g"] \in 0 .. 255
    BY ONLY <1>7
  <2>2. \A c \in Channel : m[c] \in 0 .. 255
    BY ONLY <2>1, ChannelOf, Zenon
  <2> QED BY ONLY <1>2, <2>2 DEF Colours
<1> QED BY <1>1, <1>7, <1>8 DEF m, LitBy

\* Half way between two colours.
LEMMA BorderColour ==
  ASSUME NEW a \in Colours, NEW b \in Colours, LitBy(a) \in 255 .. 256, LitBy(b) \in 255 .. 256
  PROVE  LET m == Interpolate(a, b, 1, 2) IN
         /\ m \in Colours /\ LitBy(m) \in 255 .. 257
         /\ a["r"] = b["g"] /\ a["g"] = b["r"] => m["r"] = m["g"]
<1> DEFINE m == Interpolate(a, b, 1, 2)
           r == a["r"]
           g == a["g"]
           u == b["r"]
           v == b["g"]
<1>1. r \in 0 .. 255 /\ g \in 0 .. 255 /\ u \in 0 .. 255 /\ v \in 0 .. 255
  BY ChannelOf DEF Colours
<1>2. r + g \in 255 .. 256 /\ u + v \in 255 .. 256
  BY DEF LitBy
<1>3. m = [c \in Channel |-> Round((2 - 1) * a[c] + 1 * b[c], 2)]
  BY DEF Interpolate
<1> HIDE DEF m
<1>4. m["r"] = Round((2 - 1) * r + 1 * u, 2) /\ m["g"] = Round((2 - 1) * g + 1 * v, 2)
  BY <1>3, ChannelOf
<1> DEFINE x == m["r"]
           y == m["g"]
<1>5. r = v /\ g = u => x = y
  <2>1. ASSUME r = v, g = u PROVE (2 - 1) * r + 1 * u = (2 - 1) * g + 1 * v
    <3> HIDE DEF r, g, u, v
    <3> QED BY <2>1, <1>1
  <2> QED BY <2>1, <1>4
<1>6. x = Round(r + u, 2) /\ y = Round(g + v, 2) /\ r + u \in Nat /\ g + v \in Nat
  <2>1. (2 - 1) * r + 1 * u = r + u /\ (2 - 1) * g + 1 * v = g + v /\ r + u \in Nat /\ g + v \in Nat
    <3> HIDE DEF r, g, u, v
    <3> QED BY <1>1
  <2> QED BY <2>1, <1>4
<1>7. /\ x \in Nat /\ 4 * x <= 2 * (r + u) + 2 /\ 2 * (r + u) - 2 < 4 * x
      /\ y \in Nat /\ 4 * y <= 2 * (g + v) + 2 /\ 2 * (g + v) - 2 < 4 * y
  <2> HIDE DEF x, y, r, g, u, v
  <2> QED BY <1>6, RoundHalf
<1>8. x \in 0 .. 255 /\ y \in 0 .. 255 /\ x + y \in 255 .. 257
  <2> HIDE DEF x, y, r, g, u, v
  <2> QED BY <1>1, <1>2, <1>7
<1>9. m \in Colours
  BY <1>3, <1>8, ChannelOf DEF Colours
<1> QED BY <1>5, <1>8, <1>9 DEF m, LitBy

\* A mean of two colours, weighed by parts of d.
Weighed(a, b, w, d) == [c \in Channel |-> ((d - w) * a[c] + w * b[c]) \div d]

\* A mean adds up part by part, and the mean of a number with itself is the number.
LEMMA Bilinear ==
  ASSUME NEW d \in Nat, NEW w \in 0 .. d, NEW x \in Nat, NEW y \in Nat, NEW u \in Nat, NEW v \in Nat
  PROVE  /\ ((d - w) * x + w * y) + ((d - w) * u + w * v) = (d - w) * (x + u) + w * (y + v)
         /\ (d - w) * x + w * y \in Nat
         /\ x = y => (d - w) * x + w * y = d * x
<1>1. (d - w) * (x + u) = (d - w) * x + (d - w) * u /\ w * (y + v) = w * y + w * v
  BY Z3
<1>2. (d - w) * x \in Nat /\ w * y \in Nat /\ (d - w) * u \in Nat /\ w * v \in Nat
  BY Z3
<1>3. (d - w) * x + w * x = d * x
  BY Z3
<1> QED BY <1>1, <1>2, <1>3

\* A mean lies between the bounds of both numbers.
LEMMA BetweenBounds ==
  ASSUME NEW d \in Nat, NEW w \in 0 .. d, NEW x \in Nat, NEW y \in Nat, NEW lo \in Nat, NEW hi \in Nat,
         x \in lo .. hi, y \in lo .. hi
  PROVE  d * lo <= (d - w) * x + w * y /\ (d - w) * x + w * y <= d * hi
<1>1. (d - w) * lo <= (d - w) * x /\ w * lo <= w * y /\ (d - w) * x <= (d - w) * hi /\ w * y <= w * hi
  BY ProductBounds
<1>2. (d - w) * lo + w * lo = d * lo /\ (d - w) * hi + w * hi = d * hi
  BY Z3
<1>3. /\ (d - w) * lo \in Nat /\ (d - w) * x \in Nat /\ w * lo \in Nat /\ w * y \in Nat
      /\ (d - w) * hi \in Nat /\ w * hi \in Nat
  BY ProductBounds
<1> DEFINE A == (d - w) * lo
           B == (d - w) * x
           C == w * lo
           D == w * y
           E == (d - w) * hi
           F == w * hi
<1>4. A <= B /\ C <= D /\ B <= E /\ D <= F /\ A + C = d * lo /\ E + F = d * hi
  BY <1>1, <1>2
<1>5. A \in Nat /\ B \in Nat /\ C \in Nat /\ D \in Nat /\ E \in Nat /\ F \in Nat
  BY <1>3
<1> HIDE DEF A, B, C, D, E, F
<1>6. A + C <= B + D /\ B + D <= E + F
  BY <1>4, <1>5
<1> QED BY <1>4, <1>6 DEF B, D

\* A pixel between two colours is as bright as they are, and is the colour they both have.
LEMMA WeighedColour ==
  ASSUME NEW a \in Colours, NEW b \in Colours, LitBy(a) \in 255 .. 257, LitBy(b) \in 255 .. 257,
         NEW w \in 0 .. 97
  PROVE  LET m == Weighed(a, b, w, 97) IN
         /\ m \in Colours /\ LitBy(m) \in 254 .. 257
         /\ a = b => m = a
<1> DEFINE m == Weighed(a, b, w, 97)
           r == a["r"]
           g == a["g"]
           u == b["r"]
           v == b["g"]
           R == (97 - w) * r + w * u
           G == (97 - w) * g + w * v
           x == m["r"]
           y == m["g"]
<1>1. r \in 0 .. 255 /\ g \in 0 .. 255 /\ u \in 0 .. 255 /\ v \in 0 .. 255
  BY ChannelOf DEF Colours
<1>2. r + g \in 255 .. 257 /\ u + v \in 255 .. 257
  BY DEF LitBy
<1>3. m = [c \in Channel |-> ((97 - w) * a[c] + w * b[c]) \div 97]
  BY DEF Weighed
<1>4. x = R \div 97 /\ y = G \div 97
  BY <1>3, ChannelOf
<1>5. R \in Nat /\ G \in Nat /\ R + G = (97 - w) * (r + g) + w * (u + v)
  <2> HIDE DEF r, g, u, v
  <2> QED BY <1>1, Bilinear
<1>6. 97 * 0 <= R /\ R <= 97 * 255 /\ 97 * 0 <= G /\ G <= 97 * 255
  <2> HIDE DEF r, g, u, v
  <2> QED BY <1>1, BetweenBounds
<1>7. 97 * 255 <= R + G /\ R + G <= 97 * 257
  <2> HIDE DEF r, g, u, v
  <2>1. r + g \in Nat /\ u + v \in Nat
    BY <1>1
  <2>2. /\ 97 * 255 <= (97 - w) * (r + g) + w * (u + v)
        /\ (97 - w) * (r + g) + w * (u + v) <= 97 * 257
    BY <2>1, <1>2, BetweenBounds
  <2> HIDE DEF R, G
  <2> QED BY <2>2, <1>5
<1>8. x \in 0 .. 255 /\ y \in 0 .. 255 /\ x + y \in 254 .. 257
  <2> HIDE DEF x, y, R, G
  <2> QED BY <1>4, <1>5, <1>6, <1>7
<1>9. r = u /\ g = v => x = r /\ y = g
  <2>1. ASSUME r = u, g = v PROVE R = 97 * r /\ G = 97 * g
    <3> HIDE DEF r, g, u, v
    <3> QED BY <2>1, <1>1, Bilinear
  <2> HIDE DEF x, y, r, g, u, v, R, G
  <2>2. ASSUME r = u, g = v PROVE x = r /\ y = g
    <3>1. (97 * r) \div 97 = r /\ (97 * g) \div 97 = g
      BY <1>1
    <3> QED BY <3>1, <2>1, <2>2, <1>4
  <2> QED BY <2>2
<1> HIDE DEF m
<1>10. a = b => m = a
  <2>1. a = [c \in Channel |-> a[c]] /\ m = [c \in Channel |-> m[c]]
    BY <1>3 DEF Colours
  <2> QED BY <2>1, <1>9 DEF Channel
<1>11. m \in Colours
  <2>1. m["r"] \in 0 .. 255 /\ m["g"] \in 0 .. 255
    BY ONLY <1>8
  <2>2. \A c \in Channel : m[c] \in 0 .. 255
    BY ONLY <2>1, ChannelOf, Zenon
  <2> QED BY ONLY <1>3, <2>2 DEF Colours
<1> QED BY <1>8, <1>10, <1>11 DEF m, LitBy

\* What imposeWave() makes of a pixel far from the wave and near to it.
LEMMA Imposed ==
  ASSUME HalfWave = 900, NEW m \in Colours, LitBy(m) \in 254 .. 257, NEW d \in Nat
  PROVE  LET p == Impose(m, d) IN
         /\ p \in Colours
         /\ \A c \in Channel : (m[c] = 0 => p[c] = 0) /\ (m[c] = 255 => p[c] > 0)
         /\ m["r"] = m["g"] => p["r"] = p["g"]
         /\ d > 810 => LitBy(p) \in 24 .. 28
         /\ d <= 450 => LitBy(p) >= 126
<1> DEFINE p == Impose(m, d)
           r == m["r"]
           g == m["g"]
           u == p["r"]
           v == p["g"]
           Shows == /\ u \in 0 .. 255 /\ v \in 0 .. 255
                    /\ (r = 0 => u = 0) /\ (g = 0 => v = 0) /\ (r = 255 => u > 0) /\ (g = 255 => v > 0)
                    /\ r = g => u = v
                    /\ d > 810 => u + v \in 24 .. 28
                    /\ d <= 450 => u + v >= 126
<1>1. r \in 0 .. 255 /\ g \in 0 .. 255 /\ r + g \in 254 .. 257
  BY ChannelOf DEF Colours, LitBy
<1>2. ASSUME d > 810 PROVE p = [c \in Channel |-> p[c]] /\ Shows
  <2>1. p = [c \in Channel |-> Round(m[c] * 1, 10)]
    BY <1>2 DEF Impose, Dim
  <2>2. u = Round(r * 1, 10) /\ v = Round(g * 1, 10)
    BY <2>1, ChannelOf
  <2>3. p = [c \in Channel |-> p[c]]
    BY <2>1
  <2> HIDE DEF p, r, g, u, v
  <2>4. r * 1 = r /\ g * 1 = g /\ r \in Nat /\ g \in Nat
    BY <1>1
  <2>5. /\ u \in Nat /\ 20 * u <= 2 * r + 10 /\ 2 * r - 10 < 20 * u
        /\ v \in Nat /\ 20 * v <= 2 * g + 10 /\ 2 * g - 10 < 20 * v
    BY <2>2, <2>4, RoundTenth
  <2>6. r = g => u = v
    BY <2>2
  <2>7. u \in 0 .. 255 /\ v \in 0 .. 255 /\ u + v \in 24 .. 28
    BY <2>5, <1>1
  <2>8. (r = 0 => u = 0) /\ (g = 0 => v = 0) /\ (r = 255 => u > 0) /\ (g = 255 => v > 0)
    BY <2>5
  <2> QED BY <2>3, <2>6, <2>7, <2>8, <1>2
<1>3. ASSUME ~(d > 810) PROVE p = [c \in Channel |-> p[c]] /\ Shows
  <2> DEFINE n == 900 - d
             x == r * n
             y == g * n
  <2>1. n \in 90 .. 900 /\ (d <= 450 => n >= 450)
    BY <1>3
  <2>2. p = [c \in Channel |-> Round(m[c] * n, 900)]
    <3>1. ~(d > HalfWave \/ 10 * (HalfWave - d) < HalfWave)
      BY <1>3
    <3> QED BY <3>1 DEF Impose, Dim
  <2>3. u = Round(x, 900) /\ v = Round(y, 900)
    BY <2>2, ChannelOf
  <2>4. p = [c \in Channel |-> p[c]]
    BY <2>2
  <2> HIDE DEF p, r, g, u, v, n
  <2>5. /\ x \in Nat /\ y \in Nat /\ x <= 255 * 900 /\ y <= 255 * 900
        /\ x + y = (r + g) * n
        /\ (r = 0 => x = 0) /\ (g = 0 => y = 0) /\ (r = 255 => x = 255 * n) /\ (g = 255 => y = 255 * n)
    <3>1. r \in Nat /\ g \in Nat /\ n \in Nat /\ r <= 255 /\ g <= 255 /\ n <= 900
      BY <1>1, <2>1
    <3>2. x \in Nat /\ y \in Nat /\ x <= 255 * 900 /\ y <= 255 * 900
      BY <3>1, ProductBounds
    <3>3. x + y = (r + g) * n
      BY <3>1, Z3
    <3> QED BY <3>1, <3>2, <3>3
  <2>6. ASSUME d <= 450 PROVE x + y >= 114300
    <3>1. /\ 254 \in Nat /\ 450 \in Nat /\ r + g \in Nat /\ n \in Nat
          /\ 254 <= r + g /\ 450 <= n
      BY <2>6, <1>1, <2>1
    <3>2. 254 * 450 <= (r + g) * n
      BY <3>1, ProductBounds
    <3> HIDE DEF x, y
    <3> QED BY <3>2, <2>5
  <2> HIDE DEF x, y
  <2>7. /\ u \in Nat /\ 1800 * u <= 2 * x + 900 /\ 2 * x - 900 < 1800 * u
        /\ v \in Nat /\ 1800 * v <= 2 * y + 900 /\ 2 * y - 900 < 1800 * v
    BY <2>3, <2>5, RoundWave
  <2>8. r = g => u = v
    BY <2>3 DEF x, y
  <2>9. u \in 0 .. 255 /\ v \in 0 .. 255
    BY <2>7, <2>5
  <2>10. (r = 0 => u = 0) /\ (g = 0 => v = 0)
    BY <2>7, <2>5
  <2>11. (r = 255 => u > 0) /\ (g = 255 => v > 0)
    BY <2>7, <2>5, <2>1
  <2>12. d <= 450 => u + v >= 126
    BY <2>7, <2>5, <2>6
  <2> QED BY <1>3, <2>4, <2>8, <2>9, <2>10, <2>11, <2>12
<1> HIDE DEF p
<1>4. p = [c \in Channel |-> p[c]] /\ Shows
  BY <1>2, <1>3
<1>5. p \in Colours
  BY <1>4, ChannelOf DEF Colours
<1>6. \A c \in Channel : (m[c] = 0 => p[c] = 0) /\ (m[c] = 255 => p[c] > 0)
  BY <1>4 DEF Channel
<1> QED BY <1>4, <1>5, <1>6 DEF p, LitBy

(***************************************************************************)
(* The load effect: quarters, the ring of pixels, and the wave.            *)
(***************************************************************************)

\* The table of the quarters has four nodes for each, and they lie where the quarter does.
LEMMA QuarterNodes ==
  ASSUME NEW s \in 0 .. 3
  PROVE  LET S == Quarter[s + 1] IN
         /\ S \subseteq 0 .. 15 /\ \A n \in S : QuarterOf(n) = s
         /\ IsFiniteSet(S) /\ Cardinality(S) = 4
<1>1. CASE s = 0
  <2>1. Quarter[s + 1] = {8, 9, 12, 13}
    BY <1>1 DEF Quarter
  <2>2. IsFiniteSet({8, 9, 12, 13}) /\ Cardinality({8, 9, 12, 13}) = 4
    <3>1. PICK a, b, c, d : a = 8 /\ b = 9 /\ c = 12 /\ d = 13
      OBVIOUS
    <3>2. a # b /\ a # c /\ a # d /\ b # c /\ b # d /\ c # d
      BY <3>1
    <3>3. IsFiniteSet({a, b, c, d}) /\ Cardinality({a, b, c, d}) = 4
      BY ONLY <3>2, FourNumbers, Zenon
    <3> QED BY <3>1, <3>3
  <2>3. QuarterOf(8) = 0 /\ QuarterOf(9) = 0 /\ QuarterOf(12) = 0 /\ QuarterOf(13) = 0
    BY DEF QuarterOf
  <2>4. {8, 9, 12, 13} \subseteq 0 .. 15
    OBVIOUS
  <2> QED BY <2>1, <2>2, <2>3, <2>4, <1>1, Zenon
<1>2. CASE s = 1
  <2>1. Quarter[s + 1] = {10, 11, 14, 15}
    BY <1>2 DEF Quarter
  <2>2. IsFiniteSet({10, 11, 14, 15}) /\ Cardinality({10, 11, 14, 15}) = 4
    <3>1. PICK a, b, c, d : a = 10 /\ b = 11 /\ c = 14 /\ d = 15
      OBVIOUS
    <3>2. a # b /\ a # c /\ a # d /\ b # c /\ b # d /\ c # d
      BY <3>1
    <3>3. IsFiniteSet({a, b, c, d}) /\ Cardinality({a, b, c, d}) = 4
      BY ONLY <3>2, FourNumbers, Zenon
    <3> QED BY <3>1, <3>3
  <2>3. QuarterOf(10) = 1 /\ QuarterOf(11) = 1 /\ QuarterOf(14) = 1 /\ QuarterOf(15) = 1
    BY DEF QuarterOf
  <2>4. {10, 11, 14, 15} \subseteq 0 .. 15
    OBVIOUS
  <2> QED BY <2>1, <2>2, <2>3, <2>4, <1>2, Zenon
<1>3. CASE s = 2
  <2>1. Quarter[s + 1] = {2, 3, 6, 7}
    BY <1>3 DEF Quarter
  <2>2. IsFiniteSet({2, 3, 6, 7}) /\ Cardinality({2, 3, 6, 7}) = 4
    <3>1. PICK a, b, c, d : a = 2 /\ b = 3 /\ c = 6 /\ d = 7
      OBVIOUS
    <3>2. a # b /\ a # c /\ a # d /\ b # c /\ b # d /\ c # d
      BY <3>1
    <3>3. IsFiniteSet({a, b, c, d}) /\ Cardinality({a, b, c, d}) = 4
      BY ONLY <3>2, FourNumbers, Zenon
    <3> QED BY <3>1, <3>3
  <2>3. QuarterOf(2) = 2 /\ QuarterOf(3) = 2 /\ QuarterOf(6) = 2 /\ QuarterOf(7) = 2
    BY DEF QuarterOf
  <2>4. {2, 3, 6, 7} \subseteq 0 .. 15
    OBVIOUS
  <2> QED BY <2>1, <2>2, <2>3, <2>4, <1>3, Zenon
<1>4. CASE s = 3
  <2>1. Quarter[s + 1] = {0, 1, 4, 5}
    BY <1>4 DEF Quarter
  <2>2. IsFiniteSet({0, 1, 4, 5}) /\ Cardinality({0, 1, 4, 5}) = 4
    <3>1. PICK a, b, c, d : a = 0 /\ b = 1 /\ c = 4 /\ d = 5
      OBVIOUS
    <3>2. a # b /\ a # c /\ a # d /\ b # c /\ b # d /\ c # d
      BY <3>1
    <3>3. IsFiniteSet({a, b, c, d}) /\ Cardinality({a, b, c, d}) = 4
      BY ONLY <3>2, FourNumbers, Zenon
    <3> QED BY <3>1, <3>3
  <2>3. QuarterOf(0) = 3 /\ QuarterOf(1) = 3 /\ QuarterOf(4) = 3 /\ QuarterOf(5) = 3
    BY DEF QuarterOf
  <2>4. {0, 1, 4, 5} \subseteq 0 .. 15
    OBVIOUS
  <2> QED BY <2>1, <2>2, <2>3, <2>4, <1>4, Zenon
<1> QED BY <1>1, <1>2, <1>3, <1>4

\* What the nodes of a quarter have in common.
IdleIn(load, q) == \A n \in 0 .. 15 : QuarterOf(n) = q => load[n] = 0
BusyIn(load, q) == \A n \in 0 .. 15 : QuarterOf(n) = q => load[n] >= 100

\* The colour of a quarter: green if it is idle, red if it is busy.
ColourOf(load, s) == mapLoadToColor(calcAggregateLoad(load, s))

LEMMA QuarterColour ==
  ASSUME NEW load, \A n \in 0 .. 15 : load[n] \in Nat, NEW s \in 0 .. 3
  PROVE  LET m == ColourOf(load, s) IN
         /\ m \in Colours /\ LitBy(m) \in 255 .. 256
         /\ IdleIn(load, s) => m["r"] = 0 /\ m["g"] = 255
         /\ BusyIn(load, s) => m["r"] = 255 /\ m["g"] = 0
<1> DEFINE S   == Quarter[s + 1]
           sum == SumOf(load, S)
<1>1. /\ S \subseteq 0 .. 15 /\ \A n \in S : QuarterOf(n) = s
      /\ IsFiniteSet(S) /\ Cardinality(S) = 4
  BY QuarterNodes
<1>2. calcAggregateLoad(load, s) = sum \div 4
  BY DEF calcAggregateLoad, SumOf
<1> HIDE DEF S, sum
<1>3. /\ SumOf(load, S) \in Nat
      /\ (\A x \in S : load[x] = 0) => SumOf(load, S) = 0
      /\ \A k \in Nat : (\A x \in S : load[x] >= k) => SumOf(load, S) >= k * Cardinality(S)
  <2>1. \A x \in S : load[x] \in Nat
    BY <1>1
  <2> QED BY <1>1, <2>1, SumBounds
<1>4. sum \in Nat /\ (IdleIn(load, s) => sum = 0)
  BY <1>1, <1>3 DEF sum, IdleIn
<1>5. BusyIn(load, s) => sum >= 400
  <2>1. BusyIn(load, s) => \A x \in S : load[x] >= 100
    BY <1>1 DEF BusyIn
  <2>2. (\A x \in S : load[x] >= 100) => sum >= 100 * 4
    <3>1. 100 \in Nat
      OBVIOUS
    <3> QED BY <3>1, <1>1, <1>3 DEF sum
  <2> QED BY <2>1, <2>2
<1>6. /\ sum \div 4 \in Nat
      /\ IdleIn(load, s) => sum \div 4 = 0
      /\ BusyIn(load, s) => sum \div 4 >= 100
  BY <1>4, <1>5
<1> QED BY <1>2, <1>6, LoadColour DEF ColourOf

\* The loads of all nodes.
IsLoad(load) == \A n \in 0 .. 15 : load[n] \in Nat

\* The colour of a pixel of the ring: that of its quarter, or between two quarters.
LEMMA RingPixel ==
  ASSUME NEW load, IsLoad(load), NEW i \in 0 .. 35
  PROVE  LET m == LoadPixel(load, i)
             s == i \div 9
         IN  /\ s \in 0 .. 3 /\ i % 9 \in 0 .. 8
             /\ m \in Colours /\ LitBy(m) \in 255 .. 257
             /\ i % 9 \in 1 .. 7 => m = ColourOf(load, s)
             /\ i % 9 = 8 => m = Interpolate(ColourOf(load, s), ColourOf(load, (s + 1) % 4), 1, 2)
             /\ i % 9 = 0 => m = Interpolate(ColourOf(load, (s + 3) % 4), ColourOf(load, s), 1, 2)
<1> DEFINE m == LoadPixel(load, i)
           s == i \div 9
           k == i % 9
           up == (s + 1) % 4
           down == (s + 3) % 4
<1>1. /\ s \in 0 .. 3 /\ k \in 0 .. 8 /\ up \in 0 .. 3 /\ down \in 0 .. 3
      /\ (i * 4) \div 36 = s
      /\ (IF s = 0 THEN 4 - 1 ELSE s - 1) = down
  OBVIOUS
<1>2. NUM_SEGMENTS = 4 /\ NUM_SUBSEGMENTS = 9 /\ RESOLUTION = 36
  BY DEF NUM_SEGMENTS, NUM_SUBSEGMENTS, RESOLUTION
<1>3. m = CASE k = 0 -> Interpolate(ColourOf(load, IF s = 0 THEN 4 - 1 ELSE s - 1), ColourOf(load, s), 1, 2)
            [] k = 9 - 1 -> Interpolate(ColourOf(load, s), ColourOf(load, up), 1, 2)
            [] OTHER -> ColourOf(load, s)
  BY <1>1, <1>2 DEF LoadPixel, ColourOf
<1> HIDE DEF m, s, k, up, down
<1>4. /\ k = 0 => m = Interpolate(ColourOf(load, down), ColourOf(load, s), 1, 2)
      /\ k = 8 => m = Interpolate(ColourOf(load, s), ColourOf(load, up), 1, 2)
      /\ k \in 1 .. 7 => m = ColourOf(load, s)
  <2>1. 9 - 1 = 8
    OBVIOUS
  <2> QED BY <1>1, <1>3, <2>1
<1>5. /\ ColourOf(load, s) \in Colours /\ LitBy(ColourOf(load, s)) \in 255 .. 256
      /\ ColourOf(load, up) \in Colours /\ LitBy(ColourOf(load, up)) \in 255 .. 256
      /\ ColourOf(load, down) \in Colours /\ LitBy(ColourOf(load, down)) \in 255 .. 256
  BY <1>1, QuarterColour DEF IsLoad
<1>6. m \in Colours /\ LitBy(m) \in 255 .. 257
  <2>1. CASE k = 0
    BY <2>1, <1>4, <1>5, BorderColour
  <2>2. CASE k = 8
    BY <2>2, <1>4, <1>5, BorderColour
  <2>3. CASE k \in 1 .. 7
    BY <2>3, <1>4, <1>5
  <2> QED BY <1>1, <2>1, <2>2, <2>3
<1> QED BY <1>1, <1>4, <1>6 DEF m, s, k, up, down

\* In short, it is fully lit.
LEMMA RingPixelLit ==
  ASSUME NEW load, IsLoad(load), NEW i \in 0 .. 35
  PROVE  LoadPixel(load, i) \in Colours /\ LitBy(LoadPixel(load, i)) \in 255 .. 257
BY RingPixel

\* And so is the mean of two such colours.
LEMMA WeighedLit ==
  ASSUME NEW a \in Colours, NEW b \in Colours, LitBy(a) \in 255 .. 257, LitBy(b) \in 255 .. 257,
         NEW w \in 0 .. 97
  PROVE  Weighed(a, b, w, 97) \in Colours /\ LitBy(Weighed(a, b, w, 97)) \in 254 .. 257
BY WeighedColour

\* Where an LED lies between the pixels of the ring.
Before(i) == (35 * i) \div 97
Past(i)   == (35 * i) % 97
\* The pixels on both sides, with the offset of the buffer.
Left(i)   == (Before(i) + 4) % 36
Right(i)  == (Before(i) + 5) % 36

\* All of them are pixels of the ring.
LEMMA OnTheRing ==
  ASSUME NEW i \in 0 .. 97
  PROVE  /\ Before(i) \in 0 .. 35 /\ Past(i) \in 0 .. 96
         /\ Left(i) \in 0 .. 35 /\ Right(i) \in 0 .. 35
BY DEF Before, Past, Left, Right

\* The colour of an LED before the wave is imposed.
RingColour(load, i) ==
  IF Past(i) = 0 THEN LoadPixel(load, Left(i))
  ELSE Weighed(LoadPixel(load, Left(i)), LoadPixel(load, Right(i)), Past(i), 97)

\* interpolatePixels() leaves that colour, and it is as bright as the pixels are.
LEMMA RingColourIs ==
  ASSUME RealSize, sm_shiftOffset = 4, NEW load, IsLoad(load), NEW i \in 0 .. 97
  PROVE  /\ InterpolatedPixel([k \in 0 .. RESOLUTION - 1 |-> LoadPixel(load, k)], i) = RingColour(load, i)
         /\ RingColour(load, i) \in Colours /\ LitBy(RingColour(load, i)) \in 254 .. 257
<1> DEFINE buffer == [k \in 0 .. 35 |-> LoadPixel(load, k)]
<1>1. RESOLUTION = 36 /\ RESOLUTION - 1 = 35
  BY DEF NUM_SEGMENTS, NUM_SUBSEGMENTS, RESOLUTION
<1>2. /\ Before(i) \in 0 .. 35 /\ Past(i) \in 0 .. 96
      /\ Left(i) \in 0 .. 35 /\ Right(i) \in 0 .. 35
  BY OnTheRing
<1>3. LedCount - 1 = 97
  BY DEF RealSize
<1>4. Shifted(Before(i)) = Left(i) /\ Shifted(Before(i) + 1) = Right(i)
  <2>1. Before(i) + 1 + 4 = Before(i) + 5
    BY <1>2
  <2> QED BY <1>1, <2>1 DEF Shifted, Left, Right
<1>5. buffer[Left(i)] = LoadPixel(load, Left(i)) /\ buffer[Right(i)] = LoadPixel(load, Right(i))
  BY <1>2
<1>6. InterpolatedPixel(buffer, i) = RingColour(load, i)
  <2> HIDE DEF buffer
  <2>1. InterpolatedPixel(buffer, i) =
          IF Past(i) = 0 THEN buffer[Shifted(Before(i))]
          ELSE [c \in Channel |-> ((97 - Past(i)) * buffer[Shifted(Before(i))][c]
                                   + Past(i) * buffer[Shifted(Before(i) + 1)][c]) \div 97]
    BY <1>1, <1>3 DEF InterpolatedPixel, Before, Past
  <2> QED BY <2>1, <1>4, <1>5 DEF RingColour, Weighed
<1>7. RingColour(load, i) \in Colours /\ LitBy(RingColour(load, i)) \in 254 .. 257
  <2> DEFINE a == LoadPixel(load, Left(i))
             b == LoadPixel(load, Right(i))
  <2>1. a \in Colours /\ LitBy(a) \in 255 .. 257 /\ b \in Colours /\ LitBy(b) \in 255 .. 257
    BY <1>2, RingPixelLit
  <2> HIDE DEF a, b
  <2>2. Past(i) \in 0 .. 97
    BY <1>2
  <2>3. Weighed(a, b, Past(i), 97) \in Colours /\ LitBy(Weighed(a, b, Past(i), 97)) \in 254 .. 257
    BY ONLY <2>1, <2>2, WeighedLit
  <2>4. RingColour(load, i) = IF Past(i) = 0 THEN a ELSE Weighed(a, b, Past(i), 97)
    BY DEF RingColour, a, b
  <2>5. CASE Past(i) = 0
    BY <2>1, <2>4, <2>5
  <2>6. CASE Past(i) # 0
    BY <2>3, <2>4, <2>6
  <2> QED BY <2>5, <2>6
<1> QED BY <1>1, <1>6, <1>7

\* Both pixels inside a segment: the LED has the colour of its quarter.
LEMMA InsideColour ==
  ASSUME RealSize, NEW load, IsLoad(load), NEW i \in 0 .. 97,
         \A p \in LedPixels(i) : (p + 4) % 9 \in 1 .. 7
  PROVE  LET q == SegmentOf(CHOOSE p \in LedPixels(i) : TRUE) IN
         /\ q \in 0 .. 3
         /\ RingColour(load, i) = ColourOf(load, q)
<1> DEFINE b == Before(i)
           x == Left(i)
           y == Right(i)
           s == x \div 9
<1>1. /\ b \in 0 .. 35 /\ Past(i) \in 0 .. 96
      /\ x \in 0 .. 35 /\ y \in 0 .. 35
  BY OnTheRing
<1>2. LedPixels(i) = {b, IF Past(i) = 0 THEN b ELSE b + 1}
  <2>1. LedCount - 1 = 97
    BY DEF RealSize
  <2> QED BY <2>1 DEF LedPixels, Before, Past
<1>3. x = (b + 4) % 36 /\ y = (b + 5) % 36
  BY DEF Left, Right
<1> HIDE DEF b, x, y
<1>4. (b + 4) % 9 \in 1 .. 7 /\ (Past(i) # 0 => (b + 1 + 4) % 9 \in 1 .. 7)
  BY <1>2
<1>5. x % 9 \in 1 .. 7 /\ (Past(i) # 0 => y % 9 \in 1 .. 7 /\ y \div 9 = s)
  <2>1. b + 1 + 4 = b + 5
    BY <1>1
  <2> QED BY <1>1, <1>3, <1>4, <2>1
<1>6. \A p \in LedPixels(i) : SegmentOf(p) = s
  <2>1. SegmentOf(b) = s
    BY <1>3 DEF SegmentOf
  <2>2. ASSUME Past(i) # 0 PROVE SegmentOf(b + 1) = s
    <3>1. b + 1 + 4 = b + 5
      BY <1>1
    <3> QED BY <3>1, <1>3, <1>5, <2>2 DEF SegmentOf
  <2> QED BY <2>1, <2>2, <1>2
<1>7. (CHOOSE p \in LedPixels(i) : TRUE) \in LedPixels(i)
  BY <1>2
<1>8. s \in 0 .. 3
  BY <1>1
<1>9. RingColour(load, i) = ColourOf(load, s)
  <2>1. LoadPixel(load, x) = ColourOf(load, s)
    BY <1>1, <1>5, RingPixel
  <2>2. CASE Past(i) = 0
    BY <2>1, <2>2 DEF RingColour, x
  <2>3. CASE Past(i) # 0
    <3> DEFINE m == ColourOf(load, s)
    <3>1. LoadPixel(load, y) = m
      BY <1>1, <1>5, <2>3, RingPixel
    <3>2. m \in Colours /\ LitBy(m) \in 255 .. 257
      BY <1>8, QuarterColour DEF IsLoad
    <3> HIDE DEF m
    <3>3. Past(i) \in 0 .. 97
      BY <1>1
    <3>4. Weighed(m, m, Past(i), 97) = m
      BY <3>2, <3>3, WeighedColour
    <3>5. RingColour(load, i) = Weighed(m, m, Past(i), 97)
      BY <2>1, <2>3, <3>1 DEF RingColour, x, y, m
    <3> QED BY <3>4, <3>5 DEF m
  <2> QED BY <2>2, <2>3
<1> QED BY <1>6, <1>7, <1>8, <1>9

\* No quarter is idle and busy.
LEMMA NotBoth ==
  ASSUME NEW load, IsLoad(load), NEW s \in 0 .. 3, IdleIn(load, s), BusyIn(load, s)
  PROVE  FALSE
<1>1. PICK S : S \subseteq 0 .. 15 /\ (\A n \in S : QuarterOf(n) = s) /\ Cardinality(S) = 4
  BY QuarterNodes
<1>2. PICK n \in S : TRUE
  <2>1. Cardinality({}) # 4
    BY FS_EmptySet
  <2> QED BY <1>1, <2>1
<1> QED BY <1>1, <1>2 DEF IdleIn, BusyIn

\* Both pixels where two segments meet, one of an idle and one of a busy quarter: the LED
\* is a mix of red and green in equal parts.
LEMMA MixedColour ==
  ASSUME RealSize, NEW load, IsLoad(load), NEW i \in 0 .. 97,
         \A p \in LedPixels(i) : (p + 4) % 9 \in {0, 8},
         \E p \in LedPixels(i) : IdleIn(load, SegmentOf(p)),
         \E p \in LedPixels(i) : BusyIn(load, SegmentOf(p))
  PROVE  RingColour(load, i)["r"] = RingColour(load, i)["g"]
<1> DEFINE b == Before(i)
           x == Left(i)
           y == Right(i)
           s == x \div 9
           t == y \div 9
<1>1. /\ b \in 0 .. 35 /\ Past(i) \in 0 .. 96
      /\ x \in 0 .. 35 /\ y \in 0 .. 35
  BY OnTheRing
<1>2. LedPixels(i) = {b, IF Past(i) = 0 THEN b ELSE b + 1}
  <2>1. LedCount - 1 = 97
    BY DEF RealSize
  <2> QED BY <2>1 DEF LedPixels, Before, Past
<1>3. x = (b + 4) % 36 /\ y = (b + 5) % 36
  BY DEF Left, Right
<1> HIDE DEF b, x, y
<1>4. b + 1 + 4 = b + 5 /\ s \in 0 .. 3 /\ t \in 0 .. 3
  BY <1>1
<1>5. SegmentOf(b) = s /\ SegmentOf(b + 1) = t
  BY <1>3, <1>4 DEF SegmentOf
<1>6. Past(i) # 0
  <2> SUFFICES ASSUME Past(i) = 0 PROVE FALSE
    OBVIOUS
  <2>1. IdleIn(load, s) /\ BusyIn(load, s)
    BY <1>2, <1>5
  <2> QED BY <2>1, <1>4, NotBoth
<1>7. x % 9 = 8 /\ y % 9 = 0 /\ t = (s + 1) % 4 /\ s = (t + 3) % 4
  <2>1. (b + 4) % 9 \in {0, 8} /\ (b + 5) % 9 \in {0, 8}
    BY <1>2, <1>4, <1>6
  <2> QED BY <2>1, <1>1, <1>3
<1> DEFINE u == ColourOf(load, s)
           v == ColourOf(load, t)
           m == Interpolate(u, v, 1, 2)
<1>8. LoadPixel(load, x) = m /\ LoadPixel(load, y) = m
  <2>1. LoadPixel(load, x) = Interpolate(ColourOf(load, s), ColourOf(load, (s + 1) % 4), 1, 2)
    BY <1>1, <1>7, RingPixel
  <2>2. LoadPixel(load, y) = Interpolate(ColourOf(load, (t + 3) % 4), ColourOf(load, t), 1, 2)
    BY <1>1, <1>7, RingPixel
  <2> QED BY <2>1, <2>2, <1>7
<1>9. /\ u \in Colours /\ LitBy(u) \in 255 .. 256 /\ v \in Colours /\ LitBy(v) \in 255 .. 256
  BY <1>4, QuarterColour DEF IsLoad
<1>10. u["r"] = v["g"] /\ u["g"] = v["r"]
  <2>1. CASE IdleIn(load, s)
    <3>1. BusyIn(load, t)
      BY <2>1, <1>2, <1>4, <1>5, <1>6, NotBoth
    <3> QED BY <2>1, <3>1, <1>4, QuarterColour DEF IsLoad
  <2>2. CASE IdleIn(load, t)
    <3>1. BusyIn(load, s)
      BY <2>2, <1>2, <1>4, <1>5, <1>6, NotBoth
    <3> QED BY <2>2, <3>1, <1>4, QuarterColour DEF IsLoad
  <2> QED BY <2>1, <2>2, <1>2, <1>5, <1>6
<1> HIDE DEF u, v
<1>11. m \in Colours /\ LitBy(m) \in 255 .. 257 /\ m["r"] = m["g"]
  BY <1>9, <1>10, BorderColour
<1> HIDE DEF m
<1>12. RingColour(load, i) = Weighed(m, m, Past(i), 97)
  BY <1>6, <1>8 DEF RingColour, x, y
<1>13. Past(i) \in 0 .. 97
  BY <1>1
<1>14. Weighed(m, m, Past(i), 97) = m
  BY <1>11, <1>13, WeighedColour
<1> QED BY <1>11, <1>12, <1>14

\* Round the ring, in 1/200 LED.
Along(i, pos) == IF 200 * i < pos THEN pos - 200 * i ELSE 200 * i - pos
Around(i, pos) == IF Strip - Along(i, pos) < Along(i, pos) THEN Strip - Along(i, pos) ELSE Along(i, pos)

\* What imposeWave() takes for the distance is close enough to the distance on the ring.
LEMMA WaveDistance ==
  ASSUME RealSize, NEW i \in 0 .. 97, NEW pos \in 0 .. Strip
  PROVE  /\ WaveDist(i, pos) \in Nat
         /\ Around(i, pos) >= 900 => WaveDist(i, pos) > 810
         /\ 2 * Around(i, pos) <= 900 => WaveDist(i, pos) <= 450
<1>1. Strip = 19600 /\ HalfWave = 900
  BY DEF RealSize, Strip, HalfWave, WAVE_LENGTH
<1> DEFINE x == 200 * i
           d == IF x < pos THEN pos - x ELSE x - pos
           w == IF pos + 900 > 19600 THEN x - (pos - 19600)
                ELSE IF pos - 900 < 0 THEN pos + 19600 - x ELSE d
           e == IF w < d THEN w ELSE d
<1>2. x \in Nat /\ x <= 19400 /\ pos \in Nat /\ pos <= 19600
  BY <1>1
<1>3. WaveDist(i, pos) = e
  BY <1>1 DEF WaveDist
<1>4. Along(i, pos) = d
  BY DEF Along
<1> HIDE DEF x
<1>5. e \in Nat
  BY <1>2
<1>6. d >= 900 /\ 19600 - d >= 900 => e > 810
  BY <1>2
<1>7. d <= 450 \/ 19600 - d <= 450 => e <= 450
  BY <1>2
<1>8. d \in Nat
  BY <1>2
<1> HIDE DEF d, e
<1> QED BY <1>1, <1>3, <1>4, <1>5, <1>6, <1>7, <1>8 DEF Around

\* The strip that the load effect leaves.
LoadLit(load, pos) == \A i \in 0 .. 97 : strip[i] = Impose(RingColour(load, i), WaveDist(i, pos))

\* It is the frame of the model.
LEMMA LoadFrameIs ==
  ASSUME RealSize, sm_shiftOffset = 4, brightness = 0, NEW load, IsLoad(load), NEW pos \in 0 .. Strip,
         NEW i \in 0 .. 97
  PROVE  LoadFrame(load, pos)[i] = Impose(RingColour(load, i), WaveDist(i, pos))
<1> DEFINE buffer == [k \in 0 .. RESOLUTION - 1 |-> LoadPixel(load, k)]
           pixels == interpolatePixels(buffer)
           m      == RingColour(load, i)
<1>1. i \in Led
  BY DEF Led, RealSize
<1>2. InterpolatedPixel(buffer, i) = m /\ m \in Colours /\ LitBy(m) \in 254 .. 257
  BY ONLY RealSize, sm_shiftOffset = 4, IsLoad(load), i \in 0 .. 97, RingColourIs
<1>3. LoadFrame(load, pos) = imposeWave(pixels, pos)
  BY DEF LoadFrame
<1> HIDE DEF buffer, m
<1>4. pixels[i] = setPixelColor(InterpolatedPixel(buffer, i))
  BY <1>1 DEF interpolatePixels
<1>5. pixels[i] = m /\ getPixelColor(m) = m
  BY <1>2, <1>4, Unscaled
<1> HIDE DEF pixels
<1>6. imposeWave(pixels, pos)[i] = setPixelColor(Impose(m, WaveDist(i, pos)))
  BY <1>1, <1>5 DEF imposeWave
<1>7. Impose(m, WaveDist(i, pos)) \in Colours
  <2>1. HalfWave = 900
    BY DEF RealSize, HalfWave, WAVE_LENGTH
  <2>2. WaveDist(i, pos) \in Nat
    BY WaveDistance
  <2> QED BY <1>2, <2>1, <2>2, Imposed
<1>8. setPixelColor(Impose(m, WaveDist(i, pos))) = Impose(m, WaveDist(i, pos))
  BY <1>7, Unscaled
<1> QED BY <1>3, <1>6, <1>8 DEF m

\* Of a strip that the load effect leaves LoadShown and WaveShown are true.
LEMMA LoadLitShows ==
  ASSUME RealSize, IsLoad(rcvBuffer), wavePos \in 0 .. Strip, LoadLit(rcvBuffer, wavePos)
  PROVE  LoadShown /\ WaveShown
<1>1. HalfWave = 900 /\ Led = 0 .. 97
  BY DEF RealSize, HalfWave, WAVE_LENGTH, Led
<1>2. ASSUME NEW i \in 0 .. 97
      PROVE  /\ \A c \in Channel : /\ RingColour(rcvBuffer, i)[c] = 0 => strip[i][c] = 0
                                   /\ RingColour(rcvBuffer, i)[c] = 255 => strip[i][c] > 0
             /\ RingColour(rcvBuffer, i)["r"] = RingColour(rcvBuffer, i)["g"] => strip[i]["r"] = strip[i]["g"]
             /\ Around(i, wavePos) >= 900 => LitBy(strip[i]) \in 24 .. 28
             /\ 2 * Around(i, wavePos) <= 900 => LitBy(strip[i]) >= 126
  <2> DEFINE m == RingColour(rcvBuffer, i)
             d == WaveDist(i, wavePos)
  <2>1. m \in Colours /\ LitBy(m) \in 254 .. 257
    <3>1. CASE Past(i) = 0
      <4>1. m = LoadPixel(rcvBuffer, Left(i))
        BY <3>1 DEF RingColour
      <4>2. LoadPixel(rcvBuffer, Left(i)) \in Colours /\ LitBy(LoadPixel(rcvBuffer, Left(i))) \in 255 .. 257
        BY ONLY IsLoad(rcvBuffer), i \in 0 .. 97, OnTheRing, RingPixelLit
      <4> HIDE DEF m
      <4> QED BY ONLY <4>1, <4>2, SMT
    <3>2. CASE Past(i) # 0
      <4> DEFINE a == LoadPixel(rcvBuffer, Left(i))
                 b == LoadPixel(rcvBuffer, Right(i))
      <4>1. m = Weighed(a, b, Past(i), 97)
        BY <3>2 DEF RingColour
      <4>2. a \in Colours /\ LitBy(a) \in 255 .. 257 /\ b \in Colours /\ LitBy(b) \in 255 .. 257
        BY ONLY IsLoad(rcvBuffer), i \in 0 .. 97, OnTheRing, RingPixelLit
      <4>3. Past(i) \in 0 .. 97
        BY ONLY i \in 0 .. 97, OnTheRing
      <4> HIDE DEF a, b
      <4> QED BY <4>1, <4>2, <4>3, WeighedColour
    <3> QED BY <3>1, <3>2
  <2>2. /\ d \in Nat /\ (Around(i, wavePos) >= 900 => d > 810)
        /\ (2 * Around(i, wavePos) <= 900 => d <= 450)
    BY WaveDistance
  <2>3. strip[i] = Impose(m, d)
    BY DEF LoadLit
  <2> HIDE DEF m, d
  <2>4. /\ \A c \in Channel : (m[c] = 0 => strip[i][c] = 0) /\ (m[c] = 255 => strip[i][c] > 0)
        /\ m["r"] = m["g"] => strip[i]["r"] = strip[i]["g"]
        /\ d > 810 => LitBy(strip[i]) \in 24 .. 28
        /\ d <= 450 => LitBy(strip[i]) >= 126
    BY <1>1, <2>1, <2>2, <2>3, Imposed
  <2> QED BY <2>2, <2>4 DEF m
<1>3. WaveShown
  <2> SUFFICES ASSUME NEW i \in 0 .. 97
               PROVE  LET d == Along(i, wavePos)
                          r == IF Strip - d < d THEN Strip - d ELSE d
                      IN  /\ r >= 900 => Lit(i) \in 24 .. 28
                          /\ 2 * r <= 900 => Lit(i) >= 126
    BY <1>1 DEF WaveShown, Along
  <2>1. /\ Around(i, wavePos) >= 900 => Lit(i) \in 24 .. 28
        /\ 2 * Around(i, wavePos) <= 900 => Lit(i) >= 126
    BY ONLY <1>2, i \in 0 .. 97 DEF Lit, LitBy
  <2> QED BY ONLY <2>1 DEF Around
<1>4. LoadShown
  <2> DEFINE Idle(q) == \A n \in Nodes : QuarterOf(n) = q => rcvBuffer[n] = 0
             Busy(q) == \A n \in Nodes : QuarterOf(n) = q => rcvBuffer[n] >= 100
  <2>1. \A q : (Idle(q) <=> IdleIn(rcvBuffer, q)) /\ (Busy(q) <=> BusyIn(rcvBuffer, q))
    BY DEF RealSize, IdleIn, BusyIn
  <2> HIDE DEF Idle, Busy
  <2>2. ASSUME NEW i \in 0 .. 97
        PROVE  LET px == LedPixels(i)
                   inside == \A p \in px : (p + 4) % 9 \in 1 .. 7
                   q == SegmentOf(CHOOSE p \in px : TRUE)
                   border == \A p \in px : (p + 4) % 9 \in {0, 8}
                   qs == {SegmentOf(p) : p \in px}
               IN  /\ inside /\ Idle(q) => strip[i]["r"] = 0 /\ strip[i]["g"] > 0
                   /\ inside /\ Busy(q) => strip[i]["g"] = 0 /\ strip[i]["r"] > 0
                   /\ border /\ (\E a \in qs : Idle(a)) /\ (\E b \in qs : Busy(b)) =>
                        strip[i]["r"] = strip[i]["g"]
    <3> DEFINE m == RingColour(rcvBuffer, i)
               q == SegmentOf(CHOOSE p \in LedPixels(i) : TRUE)
    <3>1. ASSUME \A p \in LedPixels(i) : (p + 4) % 9 \in 1 .. 7
          PROVE  /\ Idle(q) => strip[i]["r"] = 0 /\ strip[i]["g"] > 0
                 /\ Busy(q) => strip[i]["g"] = 0 /\ strip[i]["r"] > 0
      <4>1. q \in 0 .. 3 /\ m = ColourOf(rcvBuffer, q)
        BY <3>1, InsideColour
      <4> HIDE DEF q
      <4>2. /\ IdleIn(rcvBuffer, q) => m["r"] = 0 /\ m["g"] = 255
            /\ BusyIn(rcvBuffer, q) => m["r"] = 255 /\ m["g"] = 0
        BY <4>1, QuarterColour DEF IsLoad
      <4>3. /\ m["r"] = 0 => strip[i]["r"] = 0
            /\ m["g"] = 0 => strip[i]["g"] = 0
            /\ m["r"] = 255 => strip[i]["r"] > 0
            /\ m["g"] = 255 => strip[i]["g"] > 0
        <5>1. \A c \in Channel : (m[c] = 0 => strip[i][c] = 0) /\ (m[c] = 255 => strip[i][c] > 0)
          BY <1>2
        <5> HIDE DEF m
        <5> QED BY ONLY <5>1, ChannelOf, Zenon
      <4> HIDE DEF m
      <4> QED BY ONLY <4>2, <4>3, <2>1
    <3>2. ASSUME \A p \in LedPixels(i) : (p + 4) % 9 \in {0, 8},
                 \E p \in LedPixels(i) : Idle(SegmentOf(p)),
                 \E p \in LedPixels(i) : Busy(SegmentOf(p))
          PROVE  strip[i]["r"] = strip[i]["g"]
      <4>1. /\ \E p \in LedPixels(i) : IdleIn(rcvBuffer, SegmentOf(p))
            /\ \E p \in LedPixels(i) : BusyIn(rcvBuffer, SegmentOf(p))
        BY <3>2, <2>1
      <4>2. m["r"] = m["g"]
        BY <3>2, <4>1, MixedColour
      <4> QED BY <4>2, <1>2
    <3> QED BY <3>1, <3>2
  <2> QED BY <1>1, <2>2 DEF LoadShown, Idle, Busy
<1> QED BY <1>3, <1>4

(***************************************************************************)
(* The boot effect.                                                        *)
(***************************************************************************)

\* The colour of a node that boots: dark only at the start, and green at the end.
LEMMA BootColourIs ==
  ASSUME RealSize, NEW k \in 0 .. 101
  PROVE  LET m == BootColour(k) IN
         /\ m \in Colours /\ LitBy(m) <= 256
         /\ k = 0 => m["r"] = 0 /\ m["g"] = 0
         /\ k # 0 => m["r"] >= 5 \/ m["g"] >= 5
         /\ k >= 100 => m["r"] = 0 /\ m["g"] = 255
<1> DEFINE m == BootColour(k)
           r == m["r"]
           g == m["g"]
<1>0. Half = 51
  BY DEF RealSize
<1>1. CASE k = 0
  <2>1. m = Black
    BY <1>1 DEF BootColour
  <2> QED BY <2>1, <1>1, PureColours DEF LitBy
<1>2. CASE k \in 1 .. 50
  <2> DEFINE p == 2 * k
  <2>1. p \in 2 .. 100 /\ ~(p > 100) /\ k # 0 /\ k < 51
    BY <1>2
  <2> HIDE DEF p
  <2>2. m = Interpolate(Black, Red, p, 100)
    BY <2>1, <1>0 DEF BootColour, p
  <2>3. m = [c \in Channel |-> Round((100 - p) * Black[c] + p * Red[c], 100)]
    BY <2>1, <2>2 DEF Interpolate
  <2> HIDE DEF m
  <2>4. r = Round((100 - p) * 0 + p * 255, 100) /\ g = Round((100 - p) * 0 + p * 0, 100)
    BY <2>3, PureColours, ChannelOf
  <2> HIDE DEF r, g
  <2>5. (100 - p) * 0 + p * 255 = 255 * p /\ (100 - p) * 0 + p * 0 = 0 /\ 255 * p \in Nat
    BY <2>1
  <2>6. /\ r \in Nat /\ 200 * r <= 2 * (255 * p) + 100 /\ 2 * (255 * p) - 100 < 200 * r
        /\ g \in Nat /\ 200 * g <= 2 * 0 + 100
    <3> DEFINE a == 255 * p
    <3>1. r = Round(a, 100) /\ g = Round(0, 100) /\ a \in Nat /\ 0 \in Nat
      BY <2>4, <2>5
    <3> HIDE DEF a
    <3>2. /\ r \in Nat /\ 200 * r <= 2 * a + 100 /\ 2 * a - 100 < 200 * r
          /\ g \in Nat /\ 200 * g <= 2 * 0 + 100
      BY <3>1, RoundPercent
    <3> QED BY <3>2 DEF a
  <2>7. r \in 5 .. 255 /\ g = 0
    BY <2>1, <2>6
  <2>8. m \in Colours
    <3>1. m = [c \in Channel |-> m[c]]
      BY <2>3
    <3>2. m["r"] \in 0 .. 255 /\ m["g"] \in 0 .. 255
      BY <2>7 DEF r, g
    <3> QED BY <3>1, <3>2, ChannelOf DEF Colours
  <2> QED BY <1>2, <2>7, <2>8 DEF m, r, g, LitBy
<1>3. CASE k \in 51 .. 101
  <2> DEFINE p == IF 2 * (k - 50) > 100 THEN 100 ELSE 2 * (k - 50)
  <2>1. p \in 2 .. 100 /\ k # 0 /\ ~(k < 51) /\ (k >= 100 => p = 100)
    BY <1>3
  <2>2. m = Interpolate(Red, Green, 2 * (k - 50), 100)
    BY <2>1, <1>0 DEF BootColour
  <2>3. m = [c \in Channel |-> Round((100 - p) * Red[c] + p * Green[c], 100)]
    BY <2>2 DEF Interpolate
  <2> HIDE DEF m, p
  <2>4. r = Round((100 - p) * 255 + p * 0, 100) /\ g = Round((100 - p) * 0 + p * 255, 100)
    BY <2>3, PureColours, ChannelOf
  <2> HIDE DEF r, g
  <2>5. /\ (100 - p) * 255 + p * 0 = 25500 - 255 * p /\ (100 - p) * 0 + p * 255 = 255 * p
        /\ 255 * p \in Nat /\ 25500 - 255 * p \in Nat
    BY <2>1
  <2>6. /\ r \in Nat /\ 200 * r <= 2 * (25500 - 255 * p) + 100 /\ 2 * (25500 - 255 * p) - 100 < 200 * r
        /\ g \in Nat /\ 200 * g <= 2 * (255 * p) + 100 /\ 2 * (255 * p) - 100 < 200 * g
    <3> DEFINE a == 25500 - 255 * p
               b == 255 * p
    <3>1. r = Round(a, 100) /\ g = Round(b, 100) /\ a \in Nat /\ b \in Nat
      BY <2>4, <2>5
    <3> HIDE DEF a, b
    <3>2. /\ r \in Nat /\ 200 * r <= 2 * a + 100 /\ 2 * a - 100 < 200 * r
          /\ g \in Nat /\ 200 * g <= 2 * b + 100 /\ 2 * b - 100 < 200 * g
      BY <3>1, RoundPercent
    <3> QED BY <3>2 DEF a, b
  <2>7. /\ r \in 0 .. 255 /\ g \in 5 .. 255 /\ r + g <= 256
        /\ p = 100 => r = 0 /\ g = 255
    BY <2>1, <2>6
  <2>8. m \in Colours
    <3>1. m = [c \in Channel |-> m[c]]
      BY <2>3
    <3>2. m["r"] \in 0 .. 255 /\ m["g"] \in 0 .. 255
      BY <2>7 DEF r, g
    <3> QED BY <3>1, <3>2, ChannelOf DEF Colours
  <2> QED BY <1>3, <2>1, <2>7, <2>8 DEF m, r, g, LitBy
<1> QED BY <1>1, <1>2, <1>3

\* What regulateBrightness() leaves of a colour.
LEMMA Fifth ==
  ASSUME NEW m \in Colours, LitBy(m) <= 256
  PROVE  LET p == Dim(m, 1, 5) IN
         /\ p \in Colours /\ LitBy(p) \in 0 .. 52
         /\ m["r"] = 0 /\ m["g"] = 0 => LitBy(p) = 0
         /\ m["r"] >= 5 \/ m["g"] >= 5 => LitBy(p) > 0
         /\ m["r"] = 0 /\ m["g"] = 255 => p = [Black EXCEPT !["g"] = 51]
<1> DEFINE p == Dim(m, 1, 5)
           r == m["r"]
           g == m["g"]
           u == p["r"]
           v == p["g"]
<1>1. r \in 0 .. 255 /\ g \in 0 .. 255 /\ r + g <= 256
  BY ChannelOf DEF Colours, LitBy
<1>2. p = [c \in Channel |-> Round(m[c] * 1, 5)]
  BY DEF Dim
<1> HIDE DEF p
<1>3. u = Round(r * 1, 5) /\ v = Round(g * 1, 5)
  BY <1>2, ChannelOf
<1> HIDE DEF r, g, u, v
<1>4. u = Round(r, 5) /\ v = Round(g, 5) /\ r \in Nat /\ g \in Nat
  <2>1. r * 1 = r /\ g * 1 = g
    BY <1>1
  <2> QED BY <2>1, <1>1, <1>3
<1>5. /\ u \in Nat /\ 10 * u <= 2 * r + 5 /\ 2 * r - 5 < 10 * u
      /\ v \in Nat /\ 10 * v <= 2 * g + 5 /\ 2 * g - 5 < 10 * v
  BY <1>4, RoundFifth
<1>6. /\ u \in 0 .. 255 /\ v \in 0 .. 255 /\ u + v \in 0 .. 52
      /\ r = 0 /\ g = 0 => u + v = 0
      /\ r >= 5 \/ g >= 5 => u + v > 0
  BY <1>1, <1>5
<1>7. r = 0 /\ g = 255 => u = 0 /\ v = 51
  BY <1>1, <1>5
<1>8. p \in Colours
  BY <1>2, <1>6, ChannelOf DEF Colours, u, v
<1>9. r = 0 /\ g = 255 => p = [Black EXCEPT !["g"] = 51]
  <2> SUFFICES ASSUME u = 0, v = 51 PROVE p = [Black EXCEPT !["g"] = 51]
    BY <1>7
  <2>1. p = [c \in Channel |-> p[c]]
    BY <1>2
  <2>2. Black = [c \in Channel |-> 0]
    BY DEF Black
  <2> QED BY <2>1, <2>2 DEF u, v, Channel
<1> QED BY <1>6, <1>8, <1>9 DEF p, r, g, u, v, LitBy

\* Every node has an LED.
LEMMA BootIndexIs ==
  ASSUME RealSize
  PROVE  /\ \A i \in 0 .. 97 : BootIndex(i) \in 0 .. 15
         /\ \A n \in 0 .. 15 : \E i \in 0 .. 97 : BootIndex(i) = n
<1>1. \A i : BootIndex(i) = (16 * i) \div 98
  BY DEF BootIndex, RealSize
<1>2. \A i \in 0 .. 97 : (16 * i) \div 98 \in 0 .. 15
  OBVIOUS
<1>3. ASSUME NEW n \in 0 .. 15 PROVE \E i \in 0 .. 97 : (16 * i) \div 98 = n
  <2> DEFINE i == (98 * n + 15) \div 16
  <2>1. i \in 0 .. 97 /\ (16 * i) \div 98 = n
    OBVIOUS
  <2> HIDE DEF i
  <2> QED BY <2>1
<1> QED BY <1>1, <1>2, <1>3

\* The strip that the boot effect leaves, of the booting status with which the turn set out.
BootLit(boot) == \A i \in 0 .. 97 : strip[i] = Dim(BootColour(boot[BootIndex(i)]), 1, 5)

\* It is the frame of the model.
LEMMA BootFrameIs ==
  ASSUME RealSize, brightness = 0, NEW boot \in [0 .. 15 -> 0 .. 101], NEW i \in 0 .. 97
  PROVE  BootFrame(boot)[i] = Dim(BootColour(boot[BootIndex(i)]), 1, 5)
<1> DEFINE m      == BootColour(boot[BootIndex(i)])
           pixels == mapBootBufferToPixels(boot)
<1>1. i \in Led
  BY DEF Led, RealSize
<1>2. m \in Colours /\ LitBy(m) <= 256
  <2>1. BootIndex(i) \in 0 .. 15
    BY BootIndexIs
  <2>2. boot[BootIndex(i)] \in 0 .. 101
    BY <2>1
  <2> QED BY <2>2, BootColourIs
<1>3. pixels[i] = setPixelColor(m)
  BY <1>1 DEF mapBootBufferToPixels
<1> HIDE DEF m, pixels
<1>4. pixels[i] = m /\ getPixelColor(m) = m
  BY <1>2, <1>3, Unscaled
<1>5. regulateBrightness(pixels)[i] = setPixelColor(Dim(m, 1, 5))
  BY <1>1, <1>4 DEF regulateBrightness
<1>6. Dim(m, 1, 5) \in Colours
  BY <1>2, Fifth
<1>7. setPixelColor(Dim(m, 1, 5)) = Dim(m, 1, 5)
  BY <1>6, Unscaled
<1> QED BY <1>5, <1>7 DEF BootFrame, pixels, m

\* The status from which the shown one comes has the same nodes in the dark as the report.
ShownBoot ==
  \E boot \in [0 .. 15 -> 0 .. 101] :
    /\ BootLit(boot)
    /\ bootStatus = updateBootEffect(boot)
    /\ \A n \in 0 .. 15 : rcvBuffer[n] = 0 <=> boot[n] = 0

\* Of such a strip BootShown is true.
LEMMA BootLitShows ==
  ASSUME RealSize, ShownBoot
  PROVE  BootShown
<1>1. Nodes = 0 .. 15 /\ Led = 0 .. 97 /\ Full = 101
  BY DEF RealSize, Led
<1>2. PICK boot \in [0 .. 15 -> 0 .. 101] :
        /\ BootLit(boot) /\ bootStatus = updateBootEffect(boot)
        /\ \A n \in 0 .. 15 : rcvBuffer[n] = 0 <=> boot[n] = 0
  BY DEF ShownBoot
<1>3. ASSUME NEW i \in 0 .. 97
      PROVE  LET n == BootIndex(i) IN
             /\ n \in 0 .. 15
             /\ Lit(i) > 0 <=> rcvBuffer[n] # 0
             /\ bootStatus[n] = 101 => strip[i] = [Black EXCEPT !["g"] = 51]
             /\ Lit(i) \in 0 .. 52
  <2> DEFINE n == BootIndex(i)
             k == boot[n]
             m == BootColour(k)
             p == Dim(m, 1, 5)
  <2>1. n \in 0 .. 15
    BY BootIndexIs
  <2> HIDE DEF n
  <2>2. k \in 0 .. 101 /\ strip[i] = p
    BY <2>1, <1>2 DEF BootLit, n
  <2>3. bootStatus[n] = IF k \in 1 .. 100 THEN k + 1 ELSE k
    <3>1. Full - 1 = 100
      BY <1>1
    <3>2. bootStatus = [j \in 0 .. 15 |-> IF boot[j] \in 1 .. 100 THEN boot[j] + 1 ELSE boot[j]]
      BY ONLY <1>1, <3>1, <1>2, Zenon DEF updateBootEffect
    <3> QED BY ONLY <2>1, <3>2
  <2>4. bootStatus[n] = 101 => k >= 100
    <3> HIDE DEF k
    <3> QED BY <2>2, <2>3
  <2>5. rcvBuffer[n] = 0 <=> k = 0
    BY <2>1, <1>2
  <2> HIDE DEF k
  <2>6. /\ m \in Colours /\ LitBy(m) <= 256
        /\ k = 0 => m["r"] = 0 /\ m["g"] = 0
        /\ k # 0 => m["r"] >= 5 \/ m["g"] >= 5
        /\ k >= 100 => m["r"] = 0 /\ m["g"] = 255
    BY <2>2, BootColourIs
  <2> HIDE DEF m
  <2>7. /\ p \in Colours /\ LitBy(p) \in 0 .. 52
        /\ m["r"] = 0 /\ m["g"] = 0 => LitBy(p) = 0
        /\ m["r"] >= 5 \/ m["g"] >= 5 => LitBy(p) > 0
        /\ m["r"] = 0 /\ m["g"] = 255 => p = [Black EXCEPT !["g"] = 51]
    BY <2>6, Fifth
  <2> HIDE DEF p
  <2>8. Lit(i) = LitBy(p)
    BY <2>2 DEF Lit, LitBy
  <2>9. k = 0 => LitBy(p) = 0
    BY <2>6, <2>7
  <2>10. k # 0 => LitBy(p) > 0
    BY <2>6, <2>7
  <2>11. Lit(i) > 0 <=> rcvBuffer[n] # 0
    BY <2>5, <2>8, <2>9, <2>10
  <2>12. bootStatus[n] = 101 => strip[i] = [Black EXCEPT !["g"] = 51]
    BY <2>2, <2>4, <2>6, <2>7
  <2> QED BY <2>1, <2>7, <2>8, <2>11, <2>12 DEF n
<1>4. \A n \in 0 .. 15 : \E i \in 0 .. 97 : BootIndex(i) = n
  BY BootIndexIs
<1> QED BY <1>1, <1>3, <1>4 DEF BootShown

(***************************************************************************)
(* The invariant of the strip.                                             *)
(***************************************************************************)

\* The invariant: the strip is what the effect of this turn makes of the messages, whatever
\* it was before, since the driver has been at full brightness since setup().
FrameInv ==
  /\ LedInv
  /\ ~ready => loopAt = "loop"
  /\ ready => brightness = 0 /\ sm_shiftOffset = 4
  /\ ready /\ loopAt = "pass" /\ modeState = BOOT => ShownBoot
  /\ ready /\ loopAt = "pass" /\ modeState = LOAD => LoadLit(rcvBuffer, wavePos)

\* Before setup() nothing is claimed.
LEMMA FrameInitKeeps == FrameInit => FrameInv
<1> SUFFICES ASSUME FrameInit PROVE FrameInv
  OBVIOUS
<1>1. LedInv
  BY LedInit DEF FrameInit
<1>2. ~ready /\ loopAt = "loop"
  BY DEF FrameInit, LoopInit
<1> QED BY <1>1, <1>2 DEF FrameInv

\* The loads in the buffer of loop().
LEMMA DataIsLoad ==
  ASSUME RealSize, NEW load \in Data \cup {[i \in Nodes |-> 0]}
  PROVE  IsLoad(load)
<1>1. Nodes = 0 .. 15
  BY DEF RealSize
<1>2. CASE load \in Data
  <2>1. load \in [0 .. 15 -> 0 .. 239]
    BY <1>1, <1>2, MessageAssumption
  <2> SUFFICES ASSUME NEW n \in 0 .. 15 PROVE load[n] \in Nat
    BY DEF IsLoad
  <2>3. load[n] \in 0 .. 239
    BY ONLY <2>1, n \in 0 .. 15, Zenon
  <2> QED BY ONLY <2>3, SMT
<1>3. CASE load = [i \in Nodes |-> 0]
  BY <1>1, <1>3 DEF IsLoad
<1> QED BY <1>2, <1>3

\* So loop() has loads of all nodes, a place for the wave and a booting status for every node.
LEMMA BufferIsLoad ==
  ASSUME RealSize, LoopTypeOK
  PROVE  IsLoad(rcvBuffer) /\ wavePos \in 0 .. Strip /\ bootStatus \in [0 .. 15 -> 0 .. 101]
<1>1. IsLoad(rcvBuffer)
  BY DataIsLoad DEF LoopTypeOK
<1> QED BY <1>1 DEF LoopTypeOK, RealSize

\* A turn in the booting mode.
LEMMA BootTurn ==
  ASSUME RealSize, FrameInv, NEW msg \in Message \cup {NoMessage}, LoopTurn(msg), modeState' = BOOT
  PROVE  ShownBoot'
<1> DEFINE boot == BootStart(msg)
<1>1. /\ ready /\ Loop(msg) /\ LedInv /\ brightness = 0
      /\ strip' = BootFrame(boot)
  <2>1. ready /\ Loop(msg) /\ LedInv /\ brightness = 0
    BY DEF FrameInv, LoopTurn
  <2>2. strip' = BootFrame(boot)
    BY DEF LoopTurn, BOOT, LOAD
  <2> QED BY <2>1, <2>2
<1>2. LoopTypeOK /\ BootMatchesReport
  BY <1>1 DEF LedInv
<1>3. Nodes = 0 .. 15 /\ Full = 101
  BY DEF RealSize
<1>4. /\ boot \in [0 .. 15 -> 0 .. 101]
      /\ bootStatus' = updateBootEffect(boot)
      /\ \A n \in 0 .. 15 : rcvBuffer'[n] = 0 <=> boot[n] = 0
  <2>1. CASE msg \in Message
    <3>1. msg # NoMessage /\ msg.data \in Data
      BY <2>1, MessageIsOne
    <3>2. /\ msg.mode = BOOT /\ rcvBuffer' = msg.data
          /\ bootStatus' = updateBootEffect(BootAfterMessage(bootStatus, msg.data))
      BY <1>1, <2>1, TurnWithMessage
    <3>3. boot = BootAfterMessage(bootStatus, msg.data)
      BY <3>1, <3>2, Zenon DEF BootStart
    <3>4. bootStatus \in [Nodes -> 0 .. Full]
      BY <1>2 DEF LoopTypeOK
    <3>5. /\ boot \in [Nodes -> 0 .. Full]
          /\ \A n \in Nodes : msg.data[n] = 0 <=> boot[n] = 0
      BY <3>1, <3>3, <3>4, BootAfterMessageType
    <3> HIDE DEF boot
    <3> QED BY <3>2, <3>3, <3>5, <1>3
  <2>2. CASE msg = NoMessage
    <3>1. boot = bootStatus
      BY <2>2 DEF BootStart
    <3>2. /\ modeState' = modeState /\ rcvBuffer' = rcvBuffer
          /\ bootStatus' = IF modeState = BOOT THEN updateBootEffect(bootStatus) ELSE bootStatus
      BY <1>1, <2>2, TurnWithout
    <3>3. modeState = BOOT
      BY <3>2
    <3>4. bootStatus \in [0 .. 15 -> 0 .. 101]
      BY <1>2, BufferIsLoad
    <3>5. \A n \in 0 .. 15 : rcvBuffer[n] = 0 <=> bootStatus[n] = 0
      BY <1>2, <1>3, <3>3 DEF BootMatchesReport
    <3> HIDE DEF boot
    <3> QED BY <3>1, <3>2, <3>3, <3>4, <3>5
  <2> QED BY <2>1, <2>2
<1> HIDE DEF boot
<1>5. \A i \in 0 .. 97 : strip'[i] = Dim(BootColour(boot[BootIndex(i)]), 1, 5)
  BY <1>1, <1>4, BootFrameIs
<1> QED BY <1>4, <1>5 DEF ShownBoot, BootLit

\* A turn in the load mode.
LEMMA LoadTurn ==
  ASSUME RealSize, FrameInv, NEW msg \in Message \cup {NoMessage}, LoopTurn(msg), modeState' = LOAD,
         LedInv'
  PROVE  LoadLit(rcvBuffer, wavePos)'
<1> DEFINE load == rcvBuffer'
           pos  == wavePos'
<1>1. /\ ready /\ brightness = 0 /\ sm_shiftOffset = 4
      /\ strip' = LoadFrame(load, pos)
  BY DEF FrameInv, LoopTurn, BOOT, LOAD
<1>2. IsLoad(load) /\ pos \in 0 .. Strip
  <2>1. load \in Data \cup {[i \in Nodes |-> 0]} /\ pos \in 0 .. Strip
    BY DEF LedInv, LoopTypeOK
  <2> QED BY <2>1, DataIsLoad
<1> HIDE DEF load, pos
<1>3. \A i \in 0 .. 97 : strip'[i] = Impose(RingColour(load, i), WaveDist(i, pos))
  BY <1>1, <1>2, LoadFrameIs
<1> QED BY <1>3 DEF LoadLit, load, pos

\* A turn in any mode.
LEMMA FrameTurnKeeps ==
  ASSUME RealSize, FrameInv, NEW msg \in Message \cup {NoMessage}, LoopTurn(msg)
  PROVE  FrameInv'
<1>1. /\ Loop(msg) /\ LedInv /\ ready /\ brightness = 0 /\ sm_shiftOffset = 4
      /\ ready' = ready /\ brightness' = brightness /\ sm_shiftOffset' = sm_shiftOffset
  BY DEF FrameInv, LoopTurn
<1>2. LedInv'
  BY <1>1, TurnKeeps
<1>3. ready' /\ brightness' = 0 /\ sm_shiftOffset' = 4
  BY <1>1
<1>4. modeState' = BOOT => ShownBoot'
  BY BootTurn
<1>5. modeState' = LOAD => LoadLit(rcvBuffer, wavePos)'
  BY <1>2, LoadTurn
<1> QED BY <1>2, <1>3, <1>4, <1>5 DEF FrameInv

\* Setup() comes before the first turn, and between two turns nothing is shown anew.
LEMMA FrameNextKeeps ==
  ASSUME RealSize, FrameInv, [FrameNext]_frameVars
  PROVE  FrameInv'
<1>1. CASE Setup
  <2>1. loopAt' = "loop" /\ ready' /\ brightness' = 0 /\ sm_shiftOffset' = 4 /\ UNCHANGED loopVars
    BY <1>1 DEF Setup, FrameInv, loopVars, Brightness
  <2>2. LedInv'
    BY <2>1, LedNext DEF FrameInv
  <2> QED BY <2>1, <2>2 DEF FrameInv
<1>2. ASSUME NEW msg \in Message \cup {NoMessage}, LoopTurn(msg) PROVE FrameInv'
  BY <1>2, FrameTurnKeeps
<1>3. ASSUME NEW t \in Turn, Wait(t) PROVE FrameInv'
  <2>1. /\ Pass(t) /\ loopAt' = "loop"
        /\ ready' = ready /\ brightness' = brightness /\ sm_shiftOffset' = sm_shiftOffset
    BY <1>3 DEF Wait, Pass
  <2>2. LedInv'
    BY <2>1, PassKeeps DEF FrameInv
  <2> QED BY <2>1, <2>2 DEF FrameInv
<1>4. CASE UNCHANGED frameVars
  <2>1. UNCHANGED loopVars
    BY <1>4 DEF frameVars
  <2>2. LedInv'
    BY <2>1, LedNext DEF FrameInv
  <2>3. /\ ready' = ready /\ brightness' = brightness /\ sm_shiftOffset' = sm_shiftOffset
        /\ strip' = strip /\ loopAt' = loopAt /\ modeState' = modeState /\ rcvBuffer' = rcvBuffer
        /\ wavePos' = wavePos /\ bootStatus' = bootStatus
    BY <1>4 DEF frameVars, loopVars
  <2>4. ShownBoot' <=> ShownBoot
    BY <2>3 DEF ShownBoot, BootLit
  <2>5. LoadLit(rcvBuffer, wavePos)' <=> LoadLit(rcvBuffer, wavePos)
    BY <2>3 DEF LoadLit
  <2> QED BY <2>2, <2>3, <2>4, <2>5 DEF FrameInv
<1> QED BY <1>1, <1>2, <1>3, <1>4 DEF FrameNext

\* The inductive invariant of the strip, for the cluster and the strip as they are.
THEOREM FrameInvariant ==
  ASSUME RealSize
  PROVE  FrameSpec => []FrameInv
<1>1. FrameInv /\ [FrameNext]_frameVars => FrameInv'
  BY FrameNextKeeps
<1> QED BY <1>1, FrameInitKeeps, PTL DEF FrameSpec

\* In the booting mode every node has an LED, an LED is lit exactly if its node is up, a
\* node that has booted is green, and none is brighter than a fifth.
THEOREM BootIsShown ==
  ASSUME RealSize
  PROVE  FrameSpec => []BootShown
<1>1. FrameInv => BootShown
  <2>1. ready /\ loopAt = "pass" /\ modeState = BOOT /\ FrameInv => BootShown
    BY BootLitShows DEF FrameInv
  <2>2. ~(ready /\ loopAt = "pass" /\ modeState = BOOT) => BootShown
    BY DEF BootShown
  <2> QED BY <2>1, <2>2
<1> QED BY <1>1, FrameInvariant, PTL

\* What is on the strip after a turn in the load mode.
LEMMA FrameInvShows ==
  ASSUME RealSize, FrameInv
  PROVE  LoadShown /\ WaveShown
<1>1. ASSUME ready, loopAt = "pass", modeState = LOAD PROVE LoadShown /\ WaveShown
  <2>1. IsLoad(rcvBuffer) /\ wavePos \in 0 .. Strip
    BY BufferIsLoad DEF FrameInv, LedInv
  <2>2. LoadLit(rcvBuffer, wavePos)
    BY <1>1 DEF FrameInv
  <2> QED BY <2>1, <2>2, LoadLitShows
<1>2. ~(ready /\ loopAt = "pass" /\ modeState = LOAD) => LoadShown /\ WaveShown
  BY DEF LoadShown, WaveShown
<1> QED BY <1>1, <1>2

\* In the load mode the segment of a quarter is green if the quarter is idle and red if it
\* is busy, whatever the loads of the other nodes are, and mixed where such segments meet.
THEOREM LoadIsShown ==
  ASSUME RealSize
  PROVE  FrameSpec => []LoadShown
<1>1. FrameInv => LoadShown
  BY FrameInvShows
<1> QED BY <1>1, FrameInvariant, PTL

\* In the load mode the LEDs near the wave are bright, round the end of the strip too, and
\* all others are at a tenth.
THEOREM WaveIsShown ==
  ASSUME RealSize
  PROVE  FrameSpec => []WaveShown
<1>1. FrameInv => WaveShown
  BY FrameInvShows
<1> QED BY <1>1, FrameInvariant, PTL
==============================================================================
