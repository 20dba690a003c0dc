--------------------------- MODULE ReceiveMsgProofs ---------------------------
(***************************************************************************)
(* receiveMsg() only ever hands whole messages to loop(), in order and     *)
(* none twice, and passes over none that came in as a whole: for every     *)
(* length of a message, whatever data bytes the line loses and however     *)
(* often the device restarts in the middle of one.  Two things are assumed:*)
(* the line loses no header (what happens then is the subject of a run),   *)
(* and Serial has room when a message begins (the subject of CofferLed).   *)
(***************************************************************************)
EXTENDS ReceiveMsg, SequenceTheorems, TLAPS

RoomForHeader == up /\ next = 0 /\ Len(sent) < MaxSent => Len(queue) < Capacity

(***************************************************************************)
(* The invariant.  A byte of a message comes after another one if its      *)
(* message was sent later, or its number in the same message is higher.    *)
(* Everything else follows from that order: as the numbers rise, MsgLen    *)
(* data bytes after a header can only be all of the message, each in its   *)
(* place.                                                                  *)
(***************************************************************************)

ComesBefore(m, k, n, l) == m < n \/ (m = n /\ k < l)

QueueSlot == 1 .. Len(queue)

\* A byte that waits in Serial is one of a message of the host.
BytesAreSent ==
  \A p \in QueueSlot :
    LET q == queue[p] IN
    /\ q.msg \in 1 .. Len(sent)
    /\ q.nr = 0 => q.val = MAGIC_NUMBER + sent[q.msg].mode
    /\ q.nr # 0 => q.val = sent[q.msg].data[q.nr]

\* The bytes wait in the order of sending, and those of a message behind one
\* another.
QueueInOrder ==
  /\ \A p, r \in QueueSlot :
       p < r => ComesBefore(queue[p].msg, queue[p].nr, queue[r].msg, queue[r].nr)
  /\ \A p \in QueueSlot :
       p + 1 \in QueueSlot /\ queue[p + 1].nr # 0 => queue[p].msg = queue[p + 1].msg

\* In the middle of a message the host goes on behind the last byte.
HostGoesOn ==
  next # 0 =>
    /\ sent # <<>>
    /\ \A p \in QueueSlot :
         ComesBefore(queue[p].msg, queue[p].nr, Len(sent), next)
    /\ queue # <<>> => queue[Len(queue)].msg = Len(sent)
    /\ up /\ rcvdMode # NONE => ComesBefore(rcvdMsg, rcvdNr, Len(sent), next)
    /\ up /\ rcvdMode # NONE /\ queue = <<>> => rcvdMsg = Len(sent)

\* What receiveMsg() has read since the header is the beginning of the message,
\* or some of its bytes, but then fewer than the number of the latest one.
ReadSoFar ==
  rcvdMode # NONE =>
    /\ rcvdMsg \in 1 .. Len(sent) /\ rcvdMode = sent[rcvdMsg].mode
    /\ rcvIdx <= rcvdNr
    /\ rcvIdx = rcvdNr => \A j \in 1 .. rcvIdx : rcvBuffer[j] = sent[rcvdMsg].data[j]

\* ... and the queue goes on where it has stopped.
QueueGoesOn ==
  /\ ~up => queue = <<>>
  /\ up /\ rcvdMode # NONE =>
       /\ \A p \in QueueSlot : ComesBefore(rcvdMsg, rcvdNr, queue[p].msg, queue[p].nr)
       /\ queue # <<>> /\ queue[1].nr # 0 => queue[1].msg = rcvdMsg

\* The latest message handed on is an earlier one than those still to come.
HandedInOrder ==
  /\ last <= Len(sent)
  /\ next # 0 => last < Len(sent)
  /\ \A p \in QueueSlot : queue[p].nr = 0 => last < queue[p].msg
  /\ rcvdMode # NONE => last <= rcvdMsg
  /\ rcvdMode # NONE /\ last = rcvdMsg => rcvIdx = 0 /\ rcvdNr = MsgLen

FrameInv ==
  /\ TypeOK /\ BytesAreSent /\ QueueInOrder /\ HostGoesOn /\ ReadSoFar
  /\ QueueGoesOn /\ HandedInOrder

\* The bytes 0 .. n of message i wait in Serial ...
Waits(i, n) ==
  \E p \in QueueSlot :
    /\ p + n <= Len(queue)
    /\ \A j \in 0 .. n : queue[p + j].msg = i /\ queue[p + j].nr = j

\* ... or receiveMsg() has begun to read them and the rest waits.
BeingRead(i, n) ==
  /\ rcvdMode # NONE /\ rcvdMsg = i /\ rcvIdx = rcvdNr
  /\ n - rcvIdx <= Len(queue)
  /\ \A j \in rcvIdx + 1 .. n : queue[j - rcvIdx].msg = i /\ queue[j - rcvIdx].nr = j

Kept(i, n) == Waits(i, n) \/ BeingRead(i, n)

WholeInv ==
  /\ ~up => owed = {} /\ ~whole
  /\ \A i \in owed : i \in 1 .. Len(sent) /\ Kept(i, MsgLen)
  /\ whole /\ next # 0 => Kept(Len(sent), next - 1)

-------------------------------------------------------------------------------
(* Facts about bytes and queues.                                               *)

Element == [val : Byte, msg : Nat, nr : 0 .. MsgLen]

\* Headers and data bytes differ in the high nibble.
LEMMA HeaderTest ==
  /\ \A m \in 1 .. 15 : IsHeader(MAGIC_NUMBER + m) /\ ModeOf(MAGIC_NUMBER + m) = m
  /\ \A b \in 0 .. MAGIC_NUMBER - 1 : ~IsHeader(b)
<1>1. ASSUME NEW m \in 1 .. 15
      PROVE  IsHeader(MAGIC_NUMBER + m) /\ ModeOf(MAGIC_NUMBER + m) = m
  <2>1. (240 + m) \div 16 = 15 /\ (240 + m) % 16 = m /\ 15 % 16 = 15
    BY Z3
  <2> QED
    BY <2>1 DEF IsHeader, ModeOf, MAGIC_NUMBER
<1>2. ASSUME NEW b \in 0 .. MAGIC_NUMBER - 1 PROVE ~IsHeader(b)
  <2>1. b \in 0 .. 239
    BY DEF MAGIC_NUMBER
  <2>2. b \div 16 \in 0 .. 14
    BY <2>1, Z3
  <2>3. \A d \in 0 .. 14 : d % 16 # 15
    BY Z3
  <2> QED
    BY <2>2, <2>3 DEF IsHeader
<1> QED
  BY <1>1, <1>2

\* The message a number stands for.
LEMMA MessageFacts ==
  ASSUME TypeOK, NEW i \in 1 .. Len(sent)
  PROVE  /\ sent[i] \in Message
         /\ sent[i].mode \in 1 .. 15
         /\ sent[i].data \in [1 .. MsgLen -> 0 .. MAGIC_NUMBER - 1]
<1>1. sent[i] \in Message
  BY DEF TypeOK
<1> QED
  BY <1>1, FrameAssumption DEF Message

\* The byte at the head of the queue, and what receiveMsg() takes it for.
LEMMA HeadFacts ==
  ASSUME FrameInv, queue # <<>>
  PROVE  /\ Head(queue) = queue[1] /\ queue[1] \in Element /\ 1 \in QueueSlot
         /\ queue[1].msg \in 1 .. Len(sent)
         /\ IsHeader(queue[1].val) <=> queue[1].nr = 0
         /\ queue[1].nr = 0 => ModeOf(queue[1].val) = sent[queue[1].msg].mode
         /\ queue[1].nr # 0 => queue[1].val = sent[queue[1].msg].data[queue[1].nr]
<1>1. TypeOK /\ queue \in Seq(Element)
  BY DEF FrameInv, TypeOK, Element
<1>2. 1 \in QueueSlot /\ Head(queue) = queue[1] /\ queue[1] \in Element
  BY <1>1 DEF QueueSlot
<1> DEFINE h == queue[1]
<1>3. /\ h.msg \in 1 .. Len(sent)
      /\ h.nr = 0 => h.val = MAGIC_NUMBER + sent[h.msg].mode
      /\ h.nr # 0 => h.val = sent[h.msg].data[h.nr]
  BY <1>2 DEF FrameInv, BytesAreSent
<1>4. h.nr \in 0 .. MsgLen
  BY <1>2 DEF Element
<1> HIDE DEF h
<1>5. /\ sent[h.msg].mode \in 1 .. 15
      /\ sent[h.msg].data \in [1 .. MsgLen -> 0 .. MAGIC_NUMBER - 1]
  BY <1>1, <1>3, MessageFacts
<1>6. h.nr = 0 => IsHeader(h.val) /\ ModeOf(h.val) = sent[h.msg].mode
  BY <1>3, <1>5, HeaderTest
<1>7. h.nr # 0 => ~IsHeader(h.val)
  <2>1. h.nr # 0 => h.nr \in 1 .. MsgLen
    BY <1>4, FrameAssumption
  <2>2. h.nr # 0 => h.val \in 0 .. MAGIC_NUMBER - 1
    BY <1>3, <1>5, <2>1
  <2> QED
    BY <2>2, HeaderTest
<1> QED
  BY <1>2, <1>3, <1>6, <1>7 DEF h

\* The queue without its head.
LEMMA TailFacts ==
  ASSUME TypeOK, queue # <<>>
  PROVE  /\ Tail(queue) \in Seq(Element)
         /\ Len(Tail(queue)) = Len(queue) - 1 /\ Len(queue) \in Nat \ {0}
         /\ \A p \in 1 .. Len(queue) - 1 : Tail(queue)[p] = queue[p + 1]
<1>1. queue \in Seq(Element)
  BY DEF TypeOK, Element
<1> QED
  BY <1>1, HeadTailProperties, EmptySeq

\* The queue with another byte.
LEMMA ArriveFacts ==
  ASSUME TypeOK, NEW e \in Element
  PROVE  /\ Append(queue, e) \in Seq(Element)
         /\ Len(Append(queue, e)) = Len(queue) + 1 /\ Len(queue) \in Nat
         /\ \A p \in 1 .. Len(queue) : Append(queue, e)[p] = queue[p]
         /\ Append(queue, e)[Len(queue) + 1] = e
<1>1. queue \in Seq(Element)
  BY DEF TypeOK, Element
<1> QED
  BY <1>1, AppendProperties

LEMMA SlotFacts ==
  ASSUME TypeOK
  PROVE  /\ Len(queue) \in Nat /\ Len(sent) \in Nat
         /\ \A p \in QueueSlot : queue[p] \in Element
         /\ \A p \in QueueSlot : queue[p].nr \in 0 .. MsgLen /\ queue[p].msg \in Nat
<1>1. queue \in Seq(Element) /\ sent \in Seq(Message)
  BY DEF TypeOK, Element
<1>2. \A p \in QueueSlot : queue[p] \in Element
  BY <1>1 DEF QueueSlot
<1>3. \A e \in Element : e.nr \in 0 .. MsgLen /\ e.msg \in Nat
  BY DEF Element
<1> QED
  BY <1>1, <1>2, <1>3

LEMMA SentGrows ==
  ASSUME TypeOK, NEW m \in Message, sent' = Append(sent, m)
  PROVE  /\ sent' \in Seq(Message)
         /\ Len(sent') = Len(sent) + 1 /\ Len(sent) \in Nat
         /\ \A i \in 1 .. Len(sent) : sent'[i] = sent[i]
         /\ sent'[Len(sent) + 1] = m
BY AppendProperties DEF TypeOK

-------------------------------------------------------------------------------
(* Every step keeps the order of the bytes.                                    *)

LEMMA InitEstablishesFrameInv == Init => FrameInv
<1> SUFFICES ASSUME Init PROVE FrameInv
  OBVIOUS
<1>1. TypeOK
  <2>1. Zero \in [1 .. MsgLen -> Byte] /\ 0 \in 0 .. MsgLen
    BY FrameAssumption DEF Zero, Byte
  <2>2. up \in BOOLEAN /\ opened \in BOOLEAN /\ whole \in BOOLEAN
    BY Zenon DEF Init
  <2> QED
    BY <2>1, <2>2 DEF Init, TypeOK, NONE
<1>2. QueueSlot = {} /\ Len(sent) = 0
  BY DEF Init, QueueSlot
<1> QED
  BY <1>1, <1>2
  DEF Init, FrameInv, BytesAreSent, QueueInOrder, HostGoesOn, ReadSoFar,
      QueueGoesOn, HandedInOrder

\* A new message comes after all others.
LEMMA SendHeaderKeepsFrameInv ==
  ASSUME "header" \notin Lossy, RoomForHeader, FrameInv,
         NEW m \in Message, SendHeader(m)
  PROVE  FrameInv'
<1>1. /\ next = 0 /\ Len(sent) < MaxSent /\ sent' = Append(sent, m) /\ next' = 1
      /\ UNCHANGED <<up, pc, statics, app, rcvdMsg, rcvdNr, opened, last, owed, resets>>
      /\ whole' \in BOOLEAN
  BY Zenon DEF SendHeader
<1>2. TypeOK /\ BytesAreSent /\ QueueInOrder /\ ReadSoFar /\ QueueGoesOn /\ HandedInOrder
  BY DEF FrameInv
<1> DEFINE b == [val |-> MAGIC_NUMBER + m.mode, msg |-> Len(sent) + 1, nr |-> 0]
<1>3. /\ sent' \in Seq(Message)
      /\ Len(sent') = Len(sent) + 1 /\ Len(sent) \in Nat
      /\ \A i \in 1 .. Len(sent) : sent'[i] = sent[i]
      /\ sent'[Len(sent) + 1] = m
  BY <1>1, <1>2, SentGrows
<1>4. m.mode \in 1 .. 15
  BY FrameAssumption DEF Message
<1>5. b \in Element
  <2>1. MAGIC_NUMBER + m.mode \in Byte
    BY <1>4 DEF Byte, MAGIC_NUMBER
  <2>2. Len(sent) + 1 \in Nat /\ 0 \in 0 .. MsgLen
    BY <1>3, FrameAssumption
  <2> QED
    BY <2>1, <2>2 DEF Element
<1>6. \/ up /\ queue' = Append(queue, b)
      \/ queue' = <<>> /\ queue = <<>> /\ ~up
  <2>1. CASE Arrive(MAGIC_NUMBER + m.mode, Len(sent) + 1, 0)
    BY <2>1, Zenon DEF Arrive
  <2>2. CASE Vanish("header")
    <3>1. up => Len(queue) < Capacity
      BY <1>1, Zenon DEF RoomForHeader
    <3>2. up => Len(queue) # Capacity
      BY <1>2, <3>1, SlotFacts, BoundAssumption
    <3>3. ~up /\ queue' = queue
      BY <2>2, <3>2, Zenon DEF Vanish
    <3> QED
      BY <1>2, <3>3, Zenon DEF QueueGoesOn
  <2> QED
    BY <2>1, <2>2, Zenon DEF SendHeader
<1>7. /\ Len(queue) \in Nat
      /\ \A p \in QueueSlot : queue[p].nr \in 0 .. MsgLen /\ queue[p].msg \in Nat
  BY <1>2, SlotFacts
<1>8. /\ queue' \in Seq(Element)
      /\ \A p \in QueueSlot' :
           \/ p \in QueueSlot /\ queue'[p] = queue[p]
           \/ p = Len(queue) + 1 /\ p = Len(queue') /\ queue'[p] = b
      /\ queue' # <<>> => up /\ Len(queue') = Len(queue) + 1 /\ queue'[Len(queue')] = b
  <2>1. CASE up /\ queue' = Append(queue, b)
    <3>1. /\ Append(queue, b) \in Seq(Element)
          /\ Len(Append(queue, b)) = Len(queue) + 1
          /\ \A p \in 1 .. Len(queue) : Append(queue, b)[p] = queue[p]
          /\ Append(queue, b)[Len(queue) + 1] = b
      BY <1>2, <1>5, ArriveFacts
    <3> HIDE DEF b
    <3> QED
      BY <1>7, <2>1, <3>1 DEF QueueSlot
  <2>2. CASE queue' = <<>>
    BY <2>2 DEF QueueSlot
  <2> QED
    BY <1>6, <2>1, <2>2
<1>9. b.msg = Len(sent) + 1 /\ b.nr = 0 /\ b.val = MAGIC_NUMBER + m.mode
  OBVIOUS
<1> HIDE DEF b
<1>10. TypeOK'
  BY <1>1, <1>2, <1>3, <1>8, FrameAssumption DEF TypeOK, statics, app, Element
<1>11. BytesAreSent'
  <2> SUFFICES ASSUME NEW p \in QueueSlot'
               PROVE  /\ queue'[p].msg \in 1 .. Len(sent')
                      /\ queue'[p].nr = 0 =>
                           queue'[p].val = MAGIC_NUMBER + sent'[queue'[p].msg].mode
                      /\ queue'[p].nr # 0 =>
                           queue'[p].val = sent'[queue'[p].msg].data[queue'[p].nr]
    BY DEF BytesAreSent
  <2>1. CASE p \in QueueSlot /\ queue'[p] = queue[p]
    BY <1>2, <1>3, <2>1 DEF BytesAreSent
  <2>2. CASE queue'[p] = b
    BY <1>3, <1>9, <2>2
  <2> QED
    BY <1>8, <2>1, <2>2
<1>12. QueueInOrder'
  <2>1. ASSUME NEW p \in QueueSlot', NEW r \in QueueSlot', p < r
        PROVE  ComesBefore(queue'[p].msg, queue'[p].nr, queue'[r].msg, queue'[r].nr)
    <3>1. p \in QueueSlot /\ queue'[p] = queue[p]
      BY <1>7, <1>8, <2>1 DEF QueueSlot
    <3>2. CASE r \in QueueSlot /\ queue'[r] = queue[r]
      BY <1>2, <2>1, <3>1, <3>2 DEF QueueInOrder
    <3>3. CASE queue'[r] = b
      <4>1. queue[p].msg \in 1 .. Len(sent)
        BY <1>2, <3>1 DEF BytesAreSent
      <4> QED
        BY <1>3, <1>9, <3>1, <3>3, <4>1 DEF ComesBefore
    <3> QED
      BY <1>8, <3>2, <3>3
  <2>2. ASSUME NEW p \in QueueSlot', p + 1 \in QueueSlot', queue'[p + 1].nr # 0
        PROVE  queue'[p].msg = queue'[p + 1].msg
    <3>1. p + 1 \in QueueSlot /\ queue'[p + 1] = queue[p + 1]
      BY <1>8, <1>9, <2>2
    <3>2. p \in QueueSlot /\ queue'[p] = queue[p]
      BY <1>7, <1>8, <3>1 DEF QueueSlot
    <3> QED
      BY <1>2, <2>2, <3>1, <3>2 DEF QueueInOrder
  <2> QED
    BY <2>1, <2>2 DEF QueueInOrder
<1>13. HostGoesOn'
  <2>1. sent' # <<>>
    BY <1>3
  <2>2. \A p \in QueueSlot' :
          ComesBefore(queue'[p].msg, queue'[p].nr, Len(sent'), next')
    <3> SUFFICES ASSUME NEW p \in QueueSlot'
                 PROVE  ComesBefore(queue'[p].msg, queue'[p].nr, Len(sent'), next')
      OBVIOUS
    <3>1. CASE p \in QueueSlot /\ queue'[p] = queue[p]
      <4>1. queue[p].msg \in 1 .. Len(sent)
        BY <1>2, <3>1 DEF BytesAreSent
      <4> QED
        BY <1>3, <3>1, <4>1 DEF ComesBefore
    <3>2. CASE queue'[p] = b
      BY <1>1, <1>3, <1>9, <3>2 DEF ComesBefore
    <3> QED
      BY <1>8, <3>1, <3>2
  <2>3. queue' # <<>> => queue'[Len(queue')].msg = Len(sent')
    BY <1>3, <1>8, <1>9
  <2>4. rcvdMode' # NONE => ComesBefore(rcvdMsg', rcvdNr', Len(sent'), next')
    BY <1>1, <1>2, <1>3 DEF ReadSoFar, ComesBefore, statics
  <2>5. up' => queue' # <<>>
    BY <1>1, <1>6, <1>3, <1>8, ArriveFacts, <1>5, <1>2
  <2> QED
    BY <2>1, <2>2, <2>3, <2>4, <2>5 DEF HostGoesOn
<1>14. ReadSoFar'
  BY <1>1, <1>2, <1>3 DEF ReadSoFar, statics
<1>15. QueueGoesOn'
  <2>1. ~up' => queue' = <<>>
    BY <1>1, <1>6
  <2>2. ASSUME up', rcvdMode' # NONE, NEW p \in QueueSlot'
        PROVE  ComesBefore(rcvdMsg', rcvdNr', queue'[p].msg, queue'[p].nr)
    <3>1. up /\ rcvdMode # NONE /\ rcvdMsg' = rcvdMsg /\ rcvdNr' = rcvdNr
      BY <1>1, <2>2 DEF statics
    <3>2. CASE p \in QueueSlot /\ queue'[p] = queue[p]
      BY <1>2, <3>1, <3>2 DEF QueueGoesOn
    <3>3. CASE queue'[p] = b
      BY <1>2, <1>3, <1>9, <3>1, <3>3 DEF ReadSoFar, ComesBefore
    <3> QED
      BY <1>8, <3>2, <3>3
  <2>3. ASSUME up', rcvdMode' # NONE, queue' # <<>>, queue'[1].nr # 0
        PROVE  queue'[1].msg = rcvdMsg'
    <3>1. up /\ rcvdMode # NONE /\ rcvdMsg' = rcvdMsg
      BY <1>1, <2>3 DEF statics
    <3>2. 1 \in QueueSlot'
      BY <1>7, <1>8, <2>3 DEF QueueSlot
    <3>3. 1 \in QueueSlot /\ queue'[1] = queue[1]
      BY <1>8, <1>9, <2>3, <3>2
    <3>4. queue # <<>>
      BY <3>3 DEF QueueSlot
    <3> QED
      BY <1>2, <2>3, <3>1, <3>3, <3>4 DEF QueueGoesOn
  <2> QED
    BY <2>1, <2>2, <2>3 DEF QueueGoesOn
<1>16. HandedInOrder'
  <2>1. last' = last /\ last \in Nat /\ last <= Len(sent)
    BY <1>1, <1>2 DEF HandedInOrder, TypeOK
  <2>2. ASSUME NEW p \in QueueSlot', queue'[p].nr = 0
        PROVE  last < queue'[p].msg
    BY <1>2, <1>3, <1>8, <1>9, <2>1, <2>2 DEF HandedInOrder
  <2>3. rcvdMode' # NONE => last' <= rcvdMsg'
    BY <1>1, <1>2 DEF HandedInOrder, statics
  <2>4. rcvdMode' # NONE /\ last' = rcvdMsg' => rcvIdx' = 0 /\ rcvdNr' = MsgLen
    BY <1>1, <1>2 DEF HandedInOrder, statics
  <2>5. last' <= Len(sent') /\ last' < Len(sent')
    BY <1>3, <2>1
  <2> QED
    BY <2>1, <2>2, <2>3, <2>4, <2>5 DEF HandedInOrder
<1> QED
  BY <1>10, <1>11, <1>12, <1>13, <1>14, <1>15, <1>16 DEF FrameInv

\* Behind the last data byte the host is between two messages.
LEMMA NextData ==
  ASSUME NEW k \in 1 .. MsgLen
  PROVE  /\ (k + 1) % (MsgLen + 1) \in 0 .. MsgLen
         /\ (k + 1) % (MsgLen + 1) # 0 => (k + 1) % (MsgLen + 1) = k + 1 /\ k < MsgLen
         /\ (k + 1) % (MsgLen + 1) = 0 => k = MsgLen
<1>1. CASE k = MsgLen
  <2>1. (k + 1) % (MsgLen + 1) = 0
    BY <1>1, FrameAssumption, Z3
  <2> QED
    BY <1>1, <2>1, FrameAssumption
<1>2. CASE k < MsgLen
  <2>1. (k + 1) % (MsgLen + 1) = k + 1
    BY <1>2, FrameAssumption, Z3
  <2> QED
    BY <1>2, <2>1, FrameAssumption
<1> QED
  BY <1>1, <1>2, FrameAssumption

\* A data byte comes right behind the last byte of its message that arrived.
LEMMA SendDataKeepsFrameInv ==
  ASSUME FrameInv, SendData
  PROVE  FrameInv'
<1>1. /\ next # 0 /\ next' = (next + 1) % (MsgLen + 1)
      /\ UNCHANGED <<sent, up, pc, statics, app, rcvdMsg, rcvdNr, opened, last, resets>>
  BY Zenon DEF SendData
<1>2. TypeOK /\ BytesAreSent /\ QueueInOrder /\ HostGoesOn /\ ReadSoFar /\ QueueGoesOn
      /\ HandedInOrder
  BY DEF FrameInv
<1> DEFINE b == [val |-> sent[Len(sent)].data[next], msg |-> Len(sent), nr |-> next]
<1>3. Len(sent) \in 1 .. Len(sent) /\ Len(sent) \in Nat /\ next \in 1 .. MsgLen
  BY <1>1, <1>2, EmptySeq, FrameAssumption DEF TypeOK, HostGoesOn
<1>4. b \in Element
  <2>1. sent[Len(sent)].data[next] \in 0 .. MAGIC_NUMBER - 1
    BY <1>2, <1>3, MessageFacts
  <2>2. sent[Len(sent)].data[next] \in Byte
    BY <2>1 DEF Byte, MAGIC_NUMBER
  <2> QED
    BY <1>3, <2>2, FrameAssumption DEF Element
<1>5. /\ next' \in 0 .. MsgLen
      /\ next' # 0 => next' = next + 1
  BY <1>1, <1>3, NextData
<1>6. \/ up /\ queue' = Append(queue, b)
      \/ queue' = queue
  BY Zenon DEF SendData, Arrive, Vanish
<1>7. /\ Len(queue) \in Nat
      /\ \A p \in QueueSlot : queue[p].nr \in 0 .. MsgLen /\ queue[p].msg \in Nat
  BY <1>2, SlotFacts
<1>8. /\ queue' \in Seq(Element)
      /\ \A p \in QueueSlot' :
           \/ p \in QueueSlot /\ queue'[p] = queue[p]
           \/ p = Len(queue) + 1 /\ p = Len(queue') /\ queue'[p] = b
      /\ queue' # queue => up /\ Len(queue') = Len(queue) + 1 /\ queue'[Len(queue')] = b
      /\ queue' = <<>> => queue = <<>>
  <2>1. CASE up /\ queue' = Append(queue, b)
    <3>1. /\ Append(queue, b) \in Seq(Element)
          /\ Len(Append(queue, b)) = Len(queue) + 1
          /\ \A p \in 1 .. Len(queue) : Append(queue, b)[p] = queue[p]
          /\ Append(queue, b)[Len(queue) + 1] = b
      BY <1>2, <1>4, ArriveFacts
    <3> HIDE DEF b
    <3> QED
      BY <1>7, <2>1, <3>1 DEF QueueSlot
  <2>2. CASE queue' = queue
    BY <1>2, <2>2 DEF QueueSlot, TypeOK, Element
  <2> QED
    BY <1>6, <2>1, <2>2
<1>9. /\ b.msg = Len(sent) /\ b.nr = next /\ b.val = sent[Len(sent)].data[next]
      /\ b.nr # 0
  BY <1>1
<1> HIDE DEF b
<1>10. TypeOK'
  <2>1. whole' \in BOOLEAN
    BY <1>2, Zenon DEF SendData, TypeOK
  <2>2. owed' \subseteq Nat
    <3>1. owed' = owed \/ owed' = owed \cup {Len(sent)}
      BY Zenon DEF SendData
    <3> QED
      BY <1>2, <1>3, <3>1 DEF TypeOK
  <2> QED
    BY <1>1, <1>2, <1>5, <1>8, <2>1, <2>2 DEF TypeOK, statics, app, Element
<1>11. BytesAreSent'
  <2> SUFFICES ASSUME NEW p \in QueueSlot'
               PROVE  /\ queue'[p].msg \in 1 .. Len(sent)
                      /\ queue'[p].nr = 0 =>
                           queue'[p].val = MAGIC_NUMBER + sent[queue'[p].msg].mode
                      /\ queue'[p].nr # 0 =>
                           queue'[p].val = sent[queue'[p].msg].data[queue'[p].nr]
    BY <1>1 DEF BytesAreSent
  <2>1. CASE p \in QueueSlot /\ queue'[p] = queue[p]
    BY <1>2, <2>1 DEF BytesAreSent
  <2>2. CASE queue'[p] = b
    BY <1>3, <1>9, <2>2
  <2> QED
    BY <1>8, <2>1, <2>2
<1>12. QueueInOrder'
  <2>1. ASSUME NEW p \in QueueSlot', NEW r \in QueueSlot', p < r
        PROVE  ComesBefore(queue'[p].msg, queue'[p].nr, queue'[r].msg, queue'[r].nr)
    <3>1. p \in QueueSlot /\ queue'[p] = queue[p]
      BY <1>7, <1>8, <2>1 DEF QueueSlot
    <3>2. CASE r \in QueueSlot /\ queue'[r] = queue[r]
      BY <1>2, <2>1, <3>1, <3>2 DEF QueueInOrder
    <3>3. CASE queue'[r] = b
      BY <1>1, <1>2, <1>9, <3>1, <3>3 DEF HostGoesOn
    <3> QED
      BY <1>8, <3>2, <3>3
  <2>2. ASSUME NEW p \in QueueSlot', p + 1 \in QueueSlot', queue'[p + 1].nr # 0
        PROVE  queue'[p].msg = queue'[p + 1].msg
    <3>1. p \in QueueSlot /\ queue'[p] = queue[p]
      BY <1>7, <1>8, <2>2 DEF QueueSlot
    <3>2. CASE p + 1 \in QueueSlot /\ queue'[p + 1] = queue[p + 1]
      BY <1>2, <2>2, <3>1, <3>2 DEF QueueInOrder
    <3>3. CASE p + 1 = Len(queue) + 1 /\ queue'[p + 1] = b
      <4>1. p = Len(queue) /\ queue # <<>>
        BY <1>7, <3>1, <3>3 DEF QueueSlot
      <4> QED
        BY <1>1, <1>2, <1>9, <3>1, <3>3, <4>1 DEF HostGoesOn
    <3> QED
      BY <1>8, <2>2, <3>2, <3>3
  <2> QED
    BY <2>1, <2>2 DEF QueueInOrder
<1>13. HostGoesOn'
  <2> SUFFICES ASSUME next' # 0
               PROVE  /\ sent' # <<>>
                      /\ \A p \in QueueSlot' :
                           ComesBefore(queue'[p].msg, queue'[p].nr, Len(sent'), next')
                      /\ queue' # <<>> => queue'[Len(queue')].msg = Len(sent')
                      /\ up' /\ rcvdMode' # NONE =>
                           ComesBefore(rcvdMsg', rcvdNr', Len(sent'), next')
                      /\ up' /\ rcvdMode' # NONE /\ queue' = <<>> =>
                           rcvdMsg' = Len(sent')
    BY DEF HostGoesOn
  <2>1. next' = next + 1 /\ sent' = sent /\ sent # <<>>
    BY <1>1, <1>2, <1>5 DEF HostGoesOn
  <2>2. ASSUME NEW p \in QueueSlot'
        PROVE  ComesBefore(queue'[p].msg, queue'[p].nr, Len(sent'), next')
    <3>1. CASE p \in QueueSlot /\ queue'[p] = queue[p]
      <4>1. ComesBefore(queue[p].msg, queue[p].nr, Len(sent), next)
        BY <1>1, <1>2, <3>1 DEF HostGoesOn
      <4>2. queue[p].nr \in 0 .. MsgLen
        BY <1>7, <3>1
      <4> QED
        BY <1>3, <2>1, <3>1, <4>1, <4>2 DEF ComesBefore
    <3>2. CASE queue'[p] = b
      BY <1>3, <1>9, <2>1, <3>2 DEF ComesBefore
    <3> QED
      BY <1>8, <3>1, <3>2
  <2>3. queue' # <<>> => queue'[Len(queue')].msg = Len(sent')
    <3>1. CASE queue' = queue
      BY <1>1, <1>2, <2>1, <3>1 DEF HostGoesOn
    <3>2. CASE queue' # queue
      BY <1>8, <1>9, <2>1, <3>2
    <3> QED
      BY <3>1, <3>2
  <2>4. up' /\ rcvdMode' # NONE => ComesBefore(rcvdMsg', rcvdNr', Len(sent'), next')
    <3>1. up /\ rcvdMode # NONE => ComesBefore(rcvdMsg, rcvdNr, Len(sent), next)
      BY <1>1, <1>2 DEF HostGoesOn
    <3>2. rcvdNr \in 0 .. MsgLen
      BY <1>2 DEF TypeOK
    <3> QED
      BY <1>1, <1>3, <2>1, <3>1, <3>2 DEF ComesBefore, statics
  <2>5. up' /\ rcvdMode' # NONE /\ queue' = <<>> => rcvdMsg' = Len(sent')
    BY <1>1, <1>2, <1>8 DEF HostGoesOn, statics
  <2> QED
    BY <2>1, <2>2, <2>3, <2>4, <2>5
<1>14. ReadSoFar'
  BY <1>1, <1>2 DEF ReadSoFar, statics
<1>15. QueueGoesOn'
  <2>1. ~up' => queue' = <<>>
    BY <1>1, <1>2, <1>8 DEF QueueGoesOn
  <2>2. ASSUME up', rcvdMode' # NONE, NEW p \in QueueSlot'
        PROVE  ComesBefore(rcvdMsg', rcvdNr', queue'[p].msg, queue'[p].nr)
    <3>1. up /\ rcvdMode # NONE /\ rcvdMsg' = rcvdMsg /\ rcvdNr' = rcvdNr
      BY <1>1, <2>2 DEF statics
    <3>2. CASE p \in QueueSlot /\ queue'[p] = queue[p]
      BY <1>2, <3>1, <3>2 DEF QueueGoesOn
    <3>3. CASE queue'[p] = b
      BY <1>1, <1>2, <1>9, <3>1, <3>3 DEF HostGoesOn
    <3> QED
      BY <1>8, <3>2, <3>3
  <2>3. ASSUME up', rcvdMode' # NONE, queue' # <<>>, queue'[1].nr # 0
        PROVE  queue'[1].msg = rcvdMsg'
    <3>1. up /\ rcvdMode # NONE /\ rcvdMsg' = rcvdMsg
      BY <1>1, <2>3 DEF statics
    <3>2. 1 \in QueueSlot'
      BY <1>8, <2>3, EmptySeq DEF QueueSlot
    <3>3. CASE 1 \in QueueSlot /\ queue'[1] = queue[1]
      <4>1. queue # <<>>
        BY <3>3 DEF QueueSlot
      <4> QED
        BY <1>2, <2>3, <3>1, <3>3, <4>1 DEF QueueGoesOn
    <3>4. CASE 1 = Len(queue) + 1 /\ queue'[1] = b
      <4>1. queue = <<>>
        BY <1>2, <1>7, <3>4, EmptySeq DEF TypeOK
      <4> QED
        BY <1>1, <1>2, <1>9, <3>1, <3>4, <4>1 DEF HostGoesOn
    <3> QED
      BY <1>8, <3>2, <3>3, <3>4
  <2> QED
    BY <2>1, <2>2, <2>3 DEF QueueGoesOn
<1>16. HandedInOrder'
  <2>1. \A p \in QueueSlot' : queue'[p].nr = 0 => last < queue'[p].msg
    BY <1>2, <1>8, <1>9 DEF HandedInOrder
  <2> QED
    BY <1>1, <1>2, <2>1 DEF HandedInOrder, statics
<1> QED
  BY <1>10, <1>11, <1>12, <1>13, <1>14, <1>15, <1>16 DEF FrameInv

\* Taking the first byte leaves the order of the others.
LEMMA TailKeepsOrder ==
  ASSUME FrameInv, queue # <<>>, queue' = Tail(queue), UNCHANGED host
  PROVE  /\ queue' \in Seq(Element)
         /\ \A p \in QueueSlot' : p + 1 \in QueueSlot /\ queue'[p] = queue[p + 1]
                                  /\ p \in QueueSlot /\ 1 < p + 1
         /\ BytesAreSent' /\ QueueInOrder'
         /\ queue' # <<>> => queue'[Len(queue')] = queue[Len(queue)] /\ 1 \in QueueSlot'
         /\ queue' = <<>> => Len(queue) = 1
<1>1. TypeOK /\ BytesAreSent /\ QueueInOrder
  BY DEF FrameInv
<1>2. /\ queue' \in Seq(Element)
      /\ Len(queue') = Len(queue) - 1 /\ Len(queue) \in Nat \ {0}
      /\ \A p \in 1 .. Len(queue) - 1 : queue'[p] = queue[p + 1]
  BY <1>1, TailFacts
<1>3. ASSUME NEW p \in QueueSlot'
      PROVE  p + 1 \in QueueSlot /\ queue'[p] = queue[p + 1] /\ p \in QueueSlot /\ 1 < p + 1
  BY <1>2 DEF QueueSlot
<1>4. BytesAreSent'
  BY <1>1, <1>3 DEF BytesAreSent, host
<1>5. QueueInOrder'
  <2>1. ASSUME NEW p \in QueueSlot', NEW r \in QueueSlot', p < r
        PROVE  ComesBefore(queue'[p].msg, queue'[p].nr, queue'[r].msg, queue'[r].nr)
    <3>1. p + 1 \in QueueSlot /\ r + 1 \in QueueSlot /\ p + 1 < r + 1
      BY <1>2, <1>3, <2>1 DEF QueueSlot
    <3> QED
      BY <1>1, <1>3, <3>1 DEF QueueInOrder
  <2>2. ASSUME NEW p \in QueueSlot', p + 1 \in QueueSlot', queue'[p + 1].nr # 0
        PROVE  queue'[p].msg = queue'[p + 1].msg
    <3>1. p + 1 \in QueueSlot /\ (p + 1) + 1 \in QueueSlot
      BY <1>3, <2>2
    <3>2. queue'[p] = queue[p + 1] /\ queue'[p + 1] = queue[(p + 1) + 1]
      BY <1>3, <2>2
    <3> QED
      BY <1>1, <2>2, <3>1, <3>2 DEF QueueInOrder
  <2> QED
    BY <2>1, <2>2 DEF QueueInOrder
<1>6. queue' # <<>> => queue'[Len(queue')] = queue[Len(queue)] /\ 1 \in QueueSlot'
  <2> SUFFICES ASSUME queue' # <<>>
               PROVE  queue'[Len(queue')] = queue[Len(queue)] /\ 1 \in QueueSlot'
    OBVIOUS
  <2>1. Len(queue') \in Nat \ {0}
    BY <1>2, EmptySeq
  <2>2. Len(queue) - 1 \in 1 .. Len(queue) - 1 /\ (Len(queue) - 1) + 1 = Len(queue)
    BY <1>2, <2>1
  <2> QED
    BY <1>2, <2>1, <2>2 DEF QueueSlot
<1>7. queue' = <<>> => Len(queue) = 1
  <2>1. queue' = <<>> => Len(queue') = 0
    OBVIOUS
  <2> QED
    BY <1>2, <2>1
<1> QED
  BY <1>2, <1>3, <1>4, <1>5, <1>6, <1>7

\* What HostGoesOn says of the queue stays true without its first byte.
LEMMA TailKeepsEnd ==
  ASSUME FrameInv, queue # <<>>, queue' = Tail(queue), UNCHANGED host, next # 0
  PROVE  /\ sent' # <<>>
         /\ \A p \in QueueSlot' :
              ComesBefore(queue'[p].msg, queue'[p].nr, Len(sent'), next')
         /\ queue' # <<>> => queue'[Len(queue')].msg = Len(sent')
         /\ ComesBefore(queue[1].msg, queue[1].nr, Len(sent'), next')
         /\ queue' = <<>> => queue[1].msg = Len(sent')
<1>1. HostGoesOn /\ sent' = sent /\ next' = next
  BY DEF FrameInv, host
<1>2. 1 \in QueueSlot
  BY HeadFacts
<1> QED
  BY <1>1, <1>2, TailKeepsOrder DEF HostGoesOn

\* A header starts a later message than any before.
LEMMA ReadHeaderKeepsFrameInv ==
  ASSUME FrameInv, ReadHeader
  PROVE  FrameInv'
<1> DEFINE h == queue[1]
<1>1. /\ up /\ queue # <<>> /\ IsHeader(Head(queue).val)
      /\ rcvdMode' = ModeOf(Head(queue).val) /\ rcvIdx' = 0 /\ queue' = Tail(queue)
      /\ rcvdMsg' = Head(queue).msg /\ rcvdNr' = 0 /\ opened' = TRUE
      /\ UNCHANGED <<host, up, pc, rcvBuffer, app, last, whole, owed, resets>>
  BY Zenon DEF ReadHeader
<1>2. TypeOK /\ QueueInOrder /\ HandedInOrder
  BY DEF FrameInv
<1>3. /\ Head(queue) = h /\ h \in Element /\ 1 \in QueueSlot /\ h.msg \in 1 .. Len(sent)
      /\ h.nr = 0 /\ rcvdMode' = sent[h.msg].mode /\ rcvdMsg' = h.msg
  BY <1>1, HeadFacts
<1>4. rcvdMode' \in 1 .. 15
  BY <1>2, <1>3, MessageFacts
<1>5. /\ queue' \in Seq(Element)
      /\ \A p \in QueueSlot' : p + 1 \in QueueSlot /\ queue'[p] = queue[p + 1]
                               /\ p \in QueueSlot /\ 1 < p + 1
      /\ BytesAreSent' /\ QueueInOrder'
      /\ queue' # <<>> => 1 \in QueueSlot'
  BY <1>1, TailKeepsOrder
<1> HIDE DEF h
<1>6. TypeOK'
  <2>1. opened' \in BOOLEAN
    BY <1>1, Zenon
  <2>2. rcvdMode' \in 0 .. 15 /\ rcvdMsg' \in Nat /\ rcvdNr' \in 0 .. MsgLen /\ rcvIdx' \in 0 .. MsgLen
    BY <1>1, <1>2, <1>3, <1>4, FrameAssumption DEF TypeOK
  <2>3. /\ UNCHANGED <<sent, next, up, pc, rcvBuffer, buffer, modeStatus, last, whole,
                       owed, resets>>
    BY <1>1 DEF host, app
  <2> QED
    BY <1>2, <1>5, <2>1, <2>2, <2>3 DEF TypeOK, Element
<1>7. HostGoesOn'
  <2> SUFFICES ASSUME next # 0
               PROVE  /\ sent' # <<>>
                      /\ \A p \in QueueSlot' :
                           ComesBefore(queue'[p].msg, queue'[p].nr, Len(sent'), next')
                      /\ queue' # <<>> => queue'[Len(queue')].msg = Len(sent')
                      /\ ComesBefore(rcvdMsg', rcvdNr', Len(sent'), next')
                      /\ queue' = <<>> => rcvdMsg' = Len(sent')
    BY <1>1 DEF HostGoesOn, host
  <2> QED
    BY <1>1, <1>3, TailKeepsEnd DEF h
<1>8. ReadSoFar'
  BY <1>1, <1>3 DEF ReadSoFar, host
<1>9. QueueGoesOn'
  <2>1. ASSUME NEW p \in QueueSlot'
        PROVE  ComesBefore(rcvdMsg', rcvdNr', queue'[p].msg, queue'[p].nr)
    BY <1>1, <1>2, <1>3, <1>5 DEF QueueInOrder, h
  <2>2. queue' # <<>> /\ queue'[1].nr # 0 => queue'[1].msg = rcvdMsg'
    <3> SUFFICES ASSUME queue' # <<>>, queue'[1].nr # 0 PROVE queue'[1].msg = rcvdMsg'
      OBVIOUS
    <3>1. 1 + 1 \in QueueSlot /\ queue'[1] = queue[1 + 1]
      BY <1>5
    <3> QED
      BY <1>2, <1>3, <3>1 DEF QueueInOrder, h
  <2> QED
    BY <1>1, <2>1, <2>2 DEF QueueGoesOn
<1>10. HandedInOrder'
  <2>1. last < rcvdMsg'
    BY <1>2, <1>3 DEF HandedInOrder, h
  <2>2. last \in Nat /\ rcvdMsg' \in Nat
    BY <1>2, <1>6 DEF TypeOK
  <2>3. \A p \in QueueSlot' : queue'[p].nr = 0 => last < queue'[p].msg
    BY <1>2, <1>5 DEF HandedInOrder
  <2>4. sent' = sent /\ next' = next /\ last' = last
    BY <1>1 DEF host
  <2>5. last <= rcvdMsg' /\ last # rcvdMsg'
    BY <2>1, <2>2
  <2> QED
    BY <1>2, <2>3, <2>4, <2>5 DEF HandedInOrder
<1> QED
  BY <1>5, <1>6, <1>7, <1>8, <1>9, <1>10 DEF FrameInv

\* A data byte has a higher number than the one before it, or none was lost.
LEMMA ReadDataKeepsFrameInv ==
  ASSUME FrameInv, ReadData
  PROVE  FrameInv'
<1> DEFINE h == queue[1]
<1>1. /\ up /\ queue # <<>> /\ ~IsHeader(Head(queue).val) /\ rcvIdx < MsgLen
      /\ rcvBuffer' = [rcvBuffer EXCEPT ![rcvIdx + 1] = Head(queue).val]
      /\ rcvIdx' = rcvIdx + 1 /\ queue' = Tail(queue) /\ rcvdNr' = Head(queue).nr
      /\ UNCHANGED <<host, up, pc, rcvdMode, app, rcvdMsg, opened, last, whole, owed, resets>>
  BY Zenon DEF ReadData
<1>2. TypeOK /\ QueueInOrder /\ HandedInOrder /\ ReadSoFar /\ QueueGoesOn
  BY DEF FrameInv
<1>3. /\ Head(queue) = h /\ h \in Element /\ 1 \in QueueSlot /\ h.msg \in 1 .. Len(sent)
      /\ h.nr # 0 /\ h.val = sent[h.msg].data[h.nr]
  BY <1>1, HeadFacts
<1>4. h.nr \in 1 .. MsgLen /\ h.val \in Byte
  <2>1. \A e \in Element : e.nr \in 0 .. MsgLen /\ e.val \in Byte
    BY DEF Element
  <2> QED
    BY <1>3, <2>1, FrameAssumption
<1>5. /\ queue' \in Seq(Element)
      /\ \A p \in QueueSlot' : p + 1 \in QueueSlot /\ queue'[p] = queue[p + 1]
                               /\ p \in QueueSlot /\ 1 < p + 1
      /\ BytesAreSent' /\ QueueInOrder'
      /\ queue' # <<>> => 1 \in QueueSlot'
  BY <1>1, TailKeepsOrder
<1> HIDE DEF h
<1>6. rcvdMode # NONE => h.msg = rcvdMsg /\ rcvdNr < h.nr
  BY <1>1, <1>2, <1>3 DEF QueueGoesOn, ComesBefore, h
<1>7. rcvIdx \in 0 .. MsgLen - 1 /\ rcvIdx + 1 \in 1 .. MsgLen
  BY <1>1, <1>2, FrameAssumption DEF TypeOK
<1>8. TypeOK'
  <2>1. rcvBuffer' \in [1 .. MsgLen -> Byte] /\ rcvIdx' \in 0 .. MsgLen /\ rcvdNr' \in 0 .. MsgLen
    BY <1>1, <1>2, <1>3, <1>4, <1>7, FrameAssumption DEF TypeOK
  <2>2. UNCHANGED <<sent, next, up, pc, rcvdMode, buffer, modeStatus, rcvdMsg, opened, last,
                    whole, owed, resets>>
    BY <1>1 DEF host, app
  <2> QED
    BY <1>2, <1>5, <2>1, <2>2 DEF TypeOK, Element
<1>9. HostGoesOn'
  <2> SUFFICES ASSUME next # 0
               PROVE  /\ sent' # <<>>
                      /\ \A p \in QueueSlot' :
                           ComesBefore(queue'[p].msg, queue'[p].nr, Len(sent'), next')
                      /\ queue' # <<>> => queue'[Len(queue')].msg = Len(sent')
                      /\ rcvdMode # NONE => ComesBefore(rcvdMsg', rcvdNr', Len(sent'), next')
                      /\ rcvdMode # NONE /\ queue' = <<>> => rcvdMsg' = Len(sent')
    BY <1>1 DEF HostGoesOn, host
  <2> QED
    BY <1>1, <1>3, <1>6, TailKeepsEnd DEF h
<1>10. ReadSoFar'
  <2> SUFFICES ASSUME rcvdMode # NONE
               PROVE  /\ rcvdMsg \in 1 .. Len(sent) /\ rcvdMode = sent[rcvdMsg].mode
                      /\ rcvIdx' <= rcvdNr'
                      /\ rcvIdx' = rcvdNr' =>
                           \A j \in 1 .. rcvIdx' : rcvBuffer'[j] = sent[rcvdMsg].data[j]
    BY <1>1 DEF ReadSoFar, host
  <2>1. rcvIdx <= rcvdNr /\ rcvdNr < h.nr /\ rcvdNr \in 0 .. MsgLen /\ h.msg = rcvdMsg
    BY <1>2, <1>6 DEF ReadSoFar, TypeOK
  <2>2. rcvIdx' <= rcvdNr'
    BY <1>1, <1>3, <1>4, <1>7, <2>1
  <2>3. ASSUME rcvIdx' = rcvdNr', NEW j \in 1 .. rcvIdx'
        PROVE  rcvBuffer'[j] = sent[rcvdMsg].data[j]
    <3>1. rcvIdx = rcvdNr /\ h.nr = rcvIdx + 1
      BY <1>1, <1>3, <1>4, <1>7, <2>1, <2>3
    <3>2. CASE j = rcvIdx + 1
      <4>1. rcvBuffer'[j] = h.val
        BY <1>1, <1>2, <1>3, <1>7, <3>2 DEF TypeOK
      <4> QED
        BY <1>3, <2>1, <3>1, <3>2, <4>1
    <3>3. CASE j \in 1 .. rcvIdx
      <4>1. rcvBuffer'[j] = rcvBuffer[j]
        BY <1>1, <1>2, <1>7, <3>3 DEF TypeOK
      <4> QED
        BY <1>2, <3>1, <3>3, <4>1 DEF ReadSoFar
    <3>4. j = rcvIdx + 1 \/ j \in 1 .. rcvIdx
      BY <1>1, <1>7
    <3> QED
      BY <3>2, <3>3, <3>4
  <2> QED
    BY <1>2, <2>2, <2>3 DEF ReadSoFar
<1>11. QueueGoesOn'
  <2>1. ASSUME rcvdMode # NONE, NEW p \in QueueSlot'
        PROVE  ComesBefore(rcvdMsg', rcvdNr', queue'[p].msg, queue'[p].nr)
    BY <1>1, <1>2, <1>3, <1>5, <1>6, <2>1 DEF QueueInOrder, h
  <2>2. rcvdMode # NONE /\ queue' # <<>> /\ queue'[1].nr # 0 => queue'[1].msg = rcvdMsg'
    <3> SUFFICES ASSUME rcvdMode # NONE, queue' # <<>>, queue'[1].nr # 0
                 PROVE  queue'[1].msg = rcvdMsg'
      OBVIOUS
    <3>1. 1 + 1 \in QueueSlot /\ queue'[1] = queue[1 + 1]
      BY <1>5
    <3> QED
      BY <1>1, <1>2, <1>3, <1>6, <3>1 DEF QueueInOrder, h
  <2> QED
    BY <1>1, <2>1, <2>2 DEF QueueGoesOn
<1>12. HandedInOrder'
  <2>1. rcvdMode # NONE => last # rcvdMsg
    BY <1>2, <1>4, <1>6 DEF HandedInOrder, TypeOK
  <2>2. \A p \in QueueSlot' : queue'[p].nr = 0 => last < queue'[p].msg
    BY <1>2, <1>5 DEF HandedInOrder
  <2> QED
    BY <1>1, <1>2, <2>1, <2>2 DEF HandedInOrder, host
<1> QED
  BY <1>5, <1>8, <1>9, <1>10, <1>11, <1>12 DEF FrameInv

\* MsgLen bytes have been read, and the byte read last has a number of at most
\* MsgLen: it was the last of its message.
LEMMA ReturnTrueFacts ==
  ASSUME FrameInv, ReturnTrue, rcvdMode # NONE
  PROVE  /\ rcvIdx = MsgLen /\ rcvdNr = MsgLen /\ rcvdMsg \in 1 .. Len(sent)
         /\ rcvdMode = sent[rcvdMsg].mode /\ rcvBuffer = sent[rcvdMsg].data
         /\ last < rcvdMsg
         /\ next # 0 => rcvdMsg < Len(sent)
<1>1. TypeOK /\ ReadSoFar /\ HandedInOrder /\ HostGoesOn /\ QueueGoesOn
  BY DEF FrameInv
<1>2. up /\ rcvIdx >= MsgLen
  BY Zenon DEF ReturnTrue
<1>3. rcvIdx = MsgLen /\ rcvdNr = MsgLen
  BY <1>1, <1>2, FrameAssumption DEF TypeOK, ReadSoFar
<1>4. rcvdMsg \in 1 .. Len(sent) /\ rcvdMode = sent[rcvdMsg].mode
  BY <1>1 DEF ReadSoFar
<1>5. rcvBuffer = sent[rcvdMsg].data
  <2>1. sent[rcvdMsg].data \in [1 .. MsgLen -> 0 .. MAGIC_NUMBER - 1]
    BY <1>1, <1>4, MessageFacts
  <2>2. rcvBuffer \in [1 .. MsgLen -> Byte]
    BY <1>1 DEF TypeOK
  <2>3. \A j \in 1 .. MsgLen : rcvBuffer[j] = sent[rcvdMsg].data[j]
    BY <1>1, <1>3 DEF ReadSoFar
  <2>4. /\ rcvBuffer = [j \in 1 .. MsgLen |-> rcvBuffer[j]]
        /\ sent[rcvdMsg].data = [j \in 1 .. MsgLen |-> sent[rcvdMsg].data[j]]
    BY <2>1, <2>2
  <2> QED
    BY <2>3, <2>4, Zenon
<1>6. last < rcvdMsg
  BY <1>1, <1>3, FrameAssumption DEF HandedInOrder, TypeOK
<1>7. ASSUME next # 0 PROVE rcvdMsg < Len(sent)
  <2>1. ComesBefore(rcvdMsg, rcvdNr, Len(sent), next)
    BY <1>1, <1>2, <1>7 DEF HostGoesOn
  <2>2. next \in 0 .. MsgLen
    BY <1>1 DEF TypeOK
  <2> QED
    BY <1>3, <2>1, <2>2, FrameAssumption DEF ComesBefore
<1> QED
  BY <1>3, <1>4, <1>5, <1>6, <1>7

LEMMA ReturnTrueKeepsFrameInv ==
  ASSUME FrameInv, ReturnTrue
  PROVE  FrameInv'
<1>1. /\ up /\ pc' = "show" /\ rcvIdx' = 0 /\ modeStatus' = rcvdMode /\ buffer' = rcvBuffer
      /\ last' = (IF rcvdMode = NONE THEN last ELSE rcvdMsg)
      /\ owed' = owed \ {rcvdMsg} /\ opened' = FALSE
      /\ UNCHANGED <<host, up, queue, rcvBuffer, rcvdMode, rcvdMsg, rcvdNr, whole, resets>>
  BY Zenon DEF ReturnTrue
<1>2. FrameInv /\ TypeOK
  BY DEF FrameInv
<1>3. TypeOK'
  <2>1. opened' \in BOOLEAN
    BY <1>1, Zenon
  <2>2. owed' \subseteq Nat /\ last' \in Nat /\ rcvIdx' \in 0 .. MsgLen
    BY <1>1, <1>2, FrameAssumption DEF TypeOK
  <2> QED
    BY <1>1, <1>2, <2>1, <2>2 DEF TypeOK, host
<1>4. BytesAreSent' /\ QueueInOrder' /\ HostGoesOn' /\ QueueGoesOn'
  BY <1>1, <1>2 DEF FrameInv, BytesAreSent, QueueInOrder, HostGoesOn, QueueGoesOn, QueueSlot, host
<1>5. ReadSoFar'
  <2>1. rcvdNr \in Nat
    BY <1>2 DEF TypeOK
  <2> QED
    BY <1>1, <1>2, <2>1 DEF FrameInv, ReadSoFar, host
<1>6. HandedInOrder'
  <2>1. CASE rcvdMode = NONE
    BY <1>1, <1>2, <2>1 DEF FrameInv, HandedInOrder, QueueSlot, host
  <2>2. CASE rcvdMode # NONE
    <3>1. /\ rcvdNr = MsgLen /\ rcvdMsg \in 1 .. Len(sent) /\ last' = rcvdMsg
          /\ next # 0 => rcvdMsg < Len(sent)
      BY <1>1, <2>2, ReturnTrueFacts
    <3>2. ASSUME NEW p \in QueueSlot, queue[p].nr = 0 PROVE rcvdMsg < queue[p].msg
      <4>1. ComesBefore(rcvdMsg, rcvdNr, queue[p].msg, queue[p].nr)
        BY <1>1, <1>2, <2>2 DEF FrameInv, QueueGoesOn
      <4> QED
        BY <3>1, <3>2, <4>1, FrameAssumption DEF ComesBefore
    <3>3. rcvdMsg <= Len(sent)
      BY <3>1
    <3> QED
      BY <1>1, <3>1, <3>2, <3>3 DEF HandedInOrder, QueueSlot, host
  <2> QED
    BY <2>1, <2>2
<1> QED
  BY <1>3, <1>4, <1>5, <1>6 DEF FrameInv

LEMMA RestKeepsFrameInv ==
  ASSUME FrameInv, ReturnFalse \/ Render \/ UNCHANGED vars
  PROVE  FrameInv'
<1>1. UNCHANGED <<host, up, queue, statics, app, ghosts, resets>> /\ pc' \in {pc, "show", "receive"}
  BY DEF ReturnFalse, Render, vars
<1>2. UNCHANGED <<sent, next, up, queue, rcvBuffer, rcvIdx, rcvdMode, buffer, modeStatus,
                  rcvdMsg, rcvdNr, opened, last, whole, owed, resets>>
  BY <1>1 DEF host, statics, app, ghosts
<1> QED
  BY <1>1, <1>2
  DEF FrameInv, TypeOK, BytesAreSent, QueueInOrder, HostGoesOn, ReadSoFar, QueueGoesOn,
      HandedInOrder, QueueSlot

\* A restart empties Serial, and what was read of a message is forgotten.
LEMMA ResetKeepsFrameInv ==
  ASSUME FrameInv, Reset \/ Setup
  PROVE  FrameInv'
<1>1. TypeOK
  BY DEF FrameInv
<1>2. UNCHANGED <<sent, next, last>> /\ queue' = <<>> /\ QueueSlot' = {}
  BY DEF Reset, Setup, FrameInv, QueueGoesOn, host, QueueSlot
<1>3. CASE Reset
  <2>1. /\ resets' = resets + 1 /\ owed' = {} /\ up' \in BOOLEAN /\ whole' \in BOOLEAN /\ ~up'
        /\ UNCHANGED <<pc, rcvBuffer, rcvIdx, rcvdMode, buffer, modeStatus, rcvdMsg, rcvdNr,
                       opened>>
    BY <1>3, Zenon DEF Reset, statics, app
  <2>2. TypeOK'
    BY <1>1, <1>2, <2>1 DEF TypeOK
  <2> QED
    BY <1>2, <2>1, <2>2
    DEF FrameInv, BytesAreSent, QueueInOrder, HostGoesOn, ReadSoFar, QueueGoesOn, HandedInOrder
<1>4. CASE Setup
  <2>1. /\ pc' = "receive" /\ rcvBuffer' = Zero /\ rcvIdx' = 0 /\ rcvdMode' = NONE
        /\ buffer' = Zero /\ modeStatus' = NONE /\ rcvdMsg' = 0 /\ rcvdNr' = 0
        /\ opened' \in BOOLEAN /\ up' \in BOOLEAN /\ UNCHANGED <<whole, owed, resets>>
    BY <1>4, Zenon DEF Setup
  <2>2. Zero \in [1 .. MsgLen -> Byte] /\ 0 \in 0 .. MsgLen /\ NONE \in 0 .. 15
    BY FrameAssumption DEF Zero, Byte, NONE
  <2>3. TypeOK'
    BY <1>1, <1>2, <2>1, <2>2 DEF TypeOK
  <2> QED
    BY <1>2, <2>1, <2>3
    DEF FrameInv, BytesAreSent, QueueInOrder, HostGoesOn, ReadSoFar, QueueGoesOn, HandedInOrder
<1> QED
  BY <1>3, <1>4

LEMMA NextKeepsFrameInv ==
  ASSUME "header" \notin Lossy, RoomForHeader, FrameInv, [Next]_vars
  PROVE  FrameInv'
<1>1. CASE \E m \in Message : SendHeader(m)
  BY <1>1, SendHeaderKeepsFrameInv
<1>2. CASE SendData
  BY <1>2, SendDataKeepsFrameInv
<1>3. CASE Device
  BY <1>3, ReadHeaderKeepsFrameInv, ReadDataKeepsFrameInv, ReturnTrueKeepsFrameInv,
     RestKeepsFrameInv, ResetKeepsFrameInv DEF Device
<1>4. CASE Reset \/ UNCHANGED vars
  BY <1>4, ResetKeepsFrameInv, RestKeepsFrameInv
<1> QED
  BY <1>1, <1>2, <1>3, <1>4 DEF Next

\* The order of the bytes holds in every reachable state.
THEOREM FramingInvariant ==
  ASSUME "header" \notin Lossy
  PROVE  Spec /\ []RoomForHeader => []FrameInv
<1>1. RoomForHeader /\ FrameInv /\ [Next]_vars => FrameInv'
  BY NextKeepsFrameInv
<1> QED
  BY <1>1, InitEstablishesFrameInv, PTL DEF Spec

-------------------------------------------------------------------------------
(* receiveMsg() implements the channel of messages.                            *)

LEMMA InitIsChannelInit == Init => Channel!Init
BY DEF Init, Channel!Init, Channel!Nothing, Shown, NONE

\* A complete message is the one the host sent under its number.
LEMMA ReturnTrueDelivers ==
  ASSUME FrameInv, ReturnTrue
  PROVE  Channel!Next
<1>1. /\ modeStatus' = rcvdMode /\ buffer' = rcvBuffer /\ sent' = sent
      /\ last' = (IF rcvdMode = NONE THEN last ELSE rcvdMsg)
  BY DEF ReturnTrue, host
<1>2. CASE rcvdMode = NONE
  BY <1>1, <1>2 DEF Channel!Next, Channel!Restart, Channel!Nothing, Shown, NONE
<1>3. CASE rcvdMode # NONE
  <2>1. /\ rcvdMsg \in 1 .. Len(sent) /\ last < rcvdMsg
        /\ rcvdMode = sent[rcvdMsg].mode /\ rcvBuffer = sent[rcvdMsg].data
    BY <1>3, ReturnTrueFacts
  <2>2. rcvdMsg \in last + 1 .. Len(sent)
    BY <2>1 DEF FrameInv, TypeOK
  <2>3. Shown' = [mode |-> rcvdMode, data |-> rcvBuffer]
    BY <1>1, <1>3 DEF Shown
  <2>4. sent[rcvdMsg] \in Message
    BY <2>1, MessageFacts DEF FrameInv
  <2>5. sent[rcvdMsg] = [mode |-> sent[rcvdMsg].mode, data |-> sent[rcvdMsg].data]
    BY <2>4 DEF Message
  <2>6. Shown' = sent[rcvdMsg]
    BY <2>1, <2>3, <2>5
  <2> QED
    BY <1>1, <1>3, <2>2, <2>6 DEF Channel!Next, Channel!Deliver
<1> QED
  BY <1>2, <1>3

LEMMA NextIsChannelNext ==
  ASSUME FrameInv, [Next]_vars
  PROVE  [Channel!Next]_(Channel!vars)
<1>1. ASSUME NEW m \in Message, SendHeader(m)
      PROVE  Channel!Next
  BY <1>1 DEF SendHeader, Channel!Next, Channel!Send, Shown, app
<1>2. CASE ReturnTrue
  BY <1>2, ReturnTrueDelivers
<1>3. CASE Setup
  BY <1>3 DEF Setup, Channel!Next, Channel!Restart, Channel!Nothing, Shown, NONE, host
<1>4. CASE SendData \/ ReadHeader \/ ReadData \/ ReturnFalse \/ Render \/ Reset \/ UNCHANGED vars
  <2>1. UNCHANGED <<sent, last, buffer, modeStatus>>
    BY <1>4, Zenon DEF SendData, ReadHeader, ReadData, ReturnFalse, Render, Reset, vars, host, app, ghosts
  <2> QED
    BY <2>1 DEF Channel!vars, Shown
<1> QED
  BY <1>1, <1>2, <1>3, <1>4 DEF Next, Device

\* What loop() acts on are messages of the host, each exactly as sent, in order
\* and none twice, whatever data bytes are lost and whenever the device restarts.
THEOREM ImplementsChannel ==
  ASSUME "header" \notin Lossy
  PROVE  Spec /\ []RoomForHeader => ChannelSpec
<1>1. FrameInv /\ [Next]_vars => [Channel!Next]_(Channel!vars)
  BY NextIsChannelNext
<1> QED
  BY <1>1, InitIsChannelInit, FramingInvariant, PTL DEF Spec, ChannelSpec, Channel!Spec

-------------------------------------------------------------------------------
(* No message that came in as a whole is passed over.                          *)

\* The messages WholeInv speaks of: a whole one, or what has come of the latest.
Due(i, n) ==
  \/ i \in 1 .. Len(sent) /\ n = MsgLen
  \/ i = Len(sent) /\ next # 0 /\ n = next - 1

\* A message of which the host still sends is not yet read to its end.
LEMMA ReadingGoesOn ==
  ASSUME FrameInv, up, queue # <<>>, rcvIdx < MsgLen,
         NEW i \in Nat, NEW n \in Nat, Due(i, n), BeingRead(i, n)
  PROVE  rcvIdx < n /\ queue[1].msg = i /\ queue[1].nr = rcvIdx + 1
<1>1. /\ rcvdMode # NONE /\ rcvdMsg = i /\ rcvIdx = rcvdNr
      /\ \A j \in rcvIdx + 1 .. n : queue[j - rcvIdx].msg = i /\ queue[j - rcvIdx].nr = j
  BY DEF BeingRead
<1>2. TypeOK /\ QueueGoesOn /\ HostGoesOn
  BY DEF FrameInv
<1>3. 1 \in QueueSlot /\ queue[1].nr \in 0 .. MsgLen
  BY <1>2, HeadFacts, SlotFacts
<1>4. rcvIdx \in Nat /\ next \in Nat
  BY <1>2, FrameAssumption DEF TypeOK
<1>5. rcvIdx < n
  <2>1. CASE n = MsgLen
    BY <2>1
  <2>2. CASE i = Len(sent) /\ next # 0 /\ n = next - 1
    <3>1. ComesBefore(rcvdMsg, rcvdNr, queue[1].msg, queue[1].nr)
      BY <1>1, <1>2, <1>3 DEF QueueGoesOn
    <3>2. ComesBefore(queue[1].msg, queue[1].nr, Len(sent), next)
      BY <1>2, <1>3, <2>2 DEF HostGoesOn
    <3>3. queue[1].msg \in Nat
      BY <1>2, <1>3, SlotFacts
    <3>4. rcvdNr < queue[1].nr /\ queue[1].nr < next
      BY <1>1, <2>2, <3>1, <3>2, <3>3 DEF ComesBefore
    <3> QED
      BY <1>1, <1>3, <1>4, <2>2, <3>4
  <2> QED
    BY <2>1, <2>2 DEF Due
<1>6. rcvIdx + 1 \in rcvIdx + 1 .. n /\ (rcvIdx + 1) - rcvIdx = 1
  BY <1>4, <1>5
<1>7. queue[(rcvIdx + 1) - rcvIdx].msg = i /\ queue[(rcvIdx + 1) - rcvIdx].nr = rcvIdx + 1
  BY <1>1, <1>6
<1> QED
  BY <1>5, <1>6, <1>7

\* Without its first byte, the queue still holds what waits in it, unless the
\* message is the first one there.
LEMMA WaitsOn ==
  ASSUME FrameInv, queue # <<>>, queue' = Tail(queue),
         NEW i \in Nat, NEW n \in Nat, Waits(i, n)
  PROVE  \/ Waits(i, n)'
         \/ /\ 1 + n <= Len(queue)
            /\ \A j \in 0 .. n : queue[1 + j].msg = i /\ queue[1 + j].nr = j
<1>1. PICK p \in QueueSlot :
        /\ p + n <= Len(queue)
        /\ \A j \in 0 .. n : queue[p + j].msg = i /\ queue[p + j].nr = j
  BY DEF Waits
<1>2. /\ Len(queue') = Len(queue) - 1 /\ Len(queue) \in Nat
      /\ \A r \in 1 .. Len(queue) - 1 : queue'[r] = queue[r + 1]
  BY TailFacts DEF FrameInv
<1>3. CASE p = 1
  BY <1>1, <1>3
<1>4. CASE p # 1
  <2>1. p - 1 \in QueueSlot' /\ (p - 1) + n <= Len(queue')
    BY <1>1, <1>2, <1>4 DEF QueueSlot
  <2>2. ASSUME NEW j \in 0 .. n
        PROVE  queue'[(p - 1) + j].msg = i /\ queue'[(p - 1) + j].nr = j
    <3>1. (p - 1) + j \in 1 .. Len(queue) - 1 /\ ((p - 1) + j) + 1 = p + j
      BY <1>1, <1>2, <1>4 DEF QueueSlot
    <3>2. queue'[(p - 1) + j] = queue[p + j]
      BY <1>2, <3>1
    <3> QED
      BY <1>1, <3>2
  <2>3. Waits(i, n)'
    BY <2>1, <2>2 DEF Waits
  <2> QED
    BY <2>3
<1> QED
  BY <1>3, <1>4

\* Reading a byte keeps a message that waits or is being read.
LEMMA ReadHeaderKeeps ==
  ASSUME FrameInv, ReadHeader, NEW i \in Nat, NEW n \in Nat, Due(i, n), Kept(i, n)
  PROVE  Kept(i, n)'
<1>1. /\ up /\ queue # <<>> /\ rcvIdx < MsgLen /\ IsHeader(Head(queue).val)
      /\ rcvdMode' = ModeOf(Head(queue).val) /\ rcvIdx' = 0 /\ queue' = Tail(queue)
      /\ rcvdMsg' = Head(queue).msg /\ rcvdNr' = 0
  BY Zenon DEF ReadHeader
<1>2. /\ Head(queue) = queue[1] /\ queue[1].nr = 0 /\ queue[1].msg \in 1 .. Len(sent)
      /\ rcvdMode' = sent[queue[1].msg].mode
  BY <1>1, HeadFacts
<1>3. rcvdMode' # NONE
  <2>1. rcvdMode' \in 1 .. 15
    BY <1>2, MessageFacts DEF FrameInv
  <2> QED
    BY <2>1 DEF NONE
<1>4. ~BeingRead(i, n)
  BY <1>1, <1>2, ReadingGoesOn DEF FrameInv, TypeOK
<1>5. CASE /\ 1 + n <= Len(queue)
           /\ \A j \in 0 .. n : queue[1 + j].msg = i /\ queue[1 + j].nr = j
  <2>1. /\ Len(queue') = Len(queue) - 1 /\ Len(queue) \in Nat
        /\ \A r \in 1 .. Len(queue) - 1 : queue'[r] = queue[r + 1]
    BY <1>1, TailFacts DEF FrameInv
  <2>2. 0 \in 0 .. n /\ 1 + 0 = 1
    OBVIOUS
  <2>3. queue[1 + 0].msg = i
    BY <1>5, <2>2
  <2>4. rcvdMsg' = i
    BY <1>1, <1>2, <2>2, <2>3
  <2>5. n - rcvIdx' <= Len(queue')
    BY <1>1, <1>5, <2>1
  <2>6. ASSUME NEW j \in rcvIdx' + 1 .. n
        PROVE  queue'[j - rcvIdx'].msg = i /\ queue'[j - rcvIdx'].nr = j
    <3>1. j - rcvIdx' = j /\ j \in 1 .. Len(queue) - 1 /\ j \in 0 .. n /\ j + 1 = 1 + j
      BY <1>1, <1>5, <2>1
    <3>2. queue'[j] = queue[1 + j]
      BY <2>1, <3>1
    <3> QED
      BY <1>5, <3>1, <3>2
  <2>7. BeingRead(i, n)'
    BY <1>1, <1>3, <2>4, <2>5, <2>6 DEF BeingRead
  <2> QED
    BY <2>7 DEF Kept
<1>6. Waits(i, n)
  BY <1>4 DEF Kept
<1> QED
  BY <1>1, <1>5, <1>6, WaitsOn DEF Kept

LEMMA ReadDataKeeps ==
  ASSUME FrameInv, ReadData, NEW i \in Nat, NEW n \in Nat, Due(i, n), Kept(i, n)
  PROVE  Kept(i, n)'
<1>1. /\ up /\ queue # <<>> /\ rcvIdx < MsgLen /\ ~IsHeader(Head(queue).val)
      /\ rcvIdx' = rcvIdx + 1 /\ queue' = Tail(queue) /\ rcvdNr' = Head(queue).nr
      /\ UNCHANGED <<rcvdMode, rcvdMsg>>
  BY Zenon DEF ReadData
<1>2. Head(queue) = queue[1] /\ queue[1].nr # 0
  BY <1>1, HeadFacts
<1>3. CASE Waits(i, n)
  <2>1. ASSUME \A j \in 0 .. n : queue[1 + j].msg = i /\ queue[1 + j].nr = j
        PROVE  FALSE
    <3>1. 0 \in 0 .. n /\ 1 + 0 = 1
      OBVIOUS
    <3>2. queue[1 + 0].nr = 0
      BY <2>1, <3>1
    <3> QED
      BY <1>2, <3>1, <3>2
  <2>2. Waits(i, n)'
    BY <1>1, <1>3, <2>1, WaitsOn
  <2> QED
    BY <2>2 DEF Kept
<1>4. CASE BeingRead(i, n)
  <2>1. rcvIdx < n /\ queue[1].nr = rcvIdx + 1
    BY <1>1, <1>4, ReadingGoesOn
  <2>2. /\ Len(queue') = Len(queue) - 1 /\ Len(queue) \in Nat
        /\ \A r \in 1 .. Len(queue) - 1 : queue'[r] = queue[r + 1]
    BY <1>1, TailFacts DEF FrameInv
  <2>3. rcvIdx \in Nat
    BY DEF FrameInv, TypeOK
  <2>4. /\ rcvdMode # NONE /\ rcvdMsg = i /\ n - rcvIdx <= Len(queue)
        /\ \A j \in rcvIdx + 1 .. n : queue[j - rcvIdx].msg = i /\ queue[j - rcvIdx].nr = j
    BY <1>4 DEF BeingRead
  <2>5. rcvIdx' = rcvdNr' /\ rcvdMode' # NONE /\ rcvdMsg' = i
    BY <1>1, <1>2, <2>1, <2>4
  <2>6. n - rcvIdx' <= Len(queue')
    BY <1>1, <2>2, <2>3, <2>4
  <2>7. ASSUME NEW j \in rcvIdx' + 1 .. n
        PROVE  queue'[j - rcvIdx'].msg = i /\ queue'[j - rcvIdx'].nr = j
    <3>1. /\ j - rcvIdx' \in 1 .. Len(queue) - 1 /\ (j - rcvIdx') + 1 = j - rcvIdx
          /\ j \in rcvIdx + 1 .. n
      BY <1>1, <2>2, <2>3, <2>4
    <3>2. queue'[j - rcvIdx'] = queue[j - rcvIdx]
      BY <2>2, <3>1
    <3> QED
      BY <2>4, <3>1, <3>2
  <2>8. BeingRead(i, n)'
    BY <2>5, <2>6, <2>7 DEF BeingRead
  <2> QED
    BY <2>8 DEF Kept
<1> QED
  BY <1>3, <1>4 DEF Kept

\* Another byte at the end of the queue disturbs none that waits.
LEMMA ArriveKeeps ==
  ASSUME TypeOK, NEW e \in Element, queue' = Append(queue, e),
         UNCHANGED <<rcvdMode, rcvdMsg, rcvIdx, rcvdNr>>,
         NEW i \in Nat, NEW n \in Nat, Kept(i, n)
  PROVE  Kept(i, n)'
<1>1. /\ Len(queue') = Len(queue) + 1 /\ Len(queue) \in Nat
      /\ \A p \in 1 .. Len(queue) : queue'[p] = queue[p]
  BY ArriveFacts
<1>2. CASE Waits(i, n)
  <2>1. PICK p \in QueueSlot :
          /\ p + n <= Len(queue)
          /\ \A j \in 0 .. n : queue[p + j].msg = i /\ queue[p + j].nr = j
    BY <1>2 DEF Waits
  <2>2. p \in QueueSlot' /\ p + n <= Len(queue')
    BY <1>1, <2>1 DEF QueueSlot
  <2>3. ASSUME NEW j \in 0 .. n
        PROVE  queue'[p + j].msg = i /\ queue'[p + j].nr = j
    <3>1. p + j \in 1 .. Len(queue)
      BY <1>1, <2>1 DEF QueueSlot
    <3> QED
      BY <1>1, <2>1, <3>1
  <2> QED
    BY <2>2, <2>3 DEF Waits, Kept
<1>3. CASE BeingRead(i, n)
  <2>1. /\ rcvdMode # NONE /\ rcvdMsg = i /\ rcvIdx = rcvdNr /\ n - rcvIdx <= Len(queue)
        /\ \A j \in rcvIdx + 1 .. n : queue[j - rcvIdx].msg = i /\ queue[j - rcvIdx].nr = j
    BY <1>3 DEF BeingRead
  <2>2. rcvIdx \in Nat
    BY DEF TypeOK
  <2>3. n - rcvIdx <= Len(queue')
    BY <1>1, <2>1, <2>2
  <2>4. ASSUME NEW j \in rcvIdx + 1 .. n
        PROVE  queue'[j - rcvIdx].msg = i /\ queue'[j - rcvIdx].nr = j
    <3>1. j - rcvIdx \in 1 .. Len(queue)
      BY <1>1, <2>1, <2>2
    <3> QED
      BY <1>1, <2>1, <3>1
  <2> QED
    BY <2>1, <2>3, <2>4 DEF BeingRead, Kept
<1> QED
  BY <1>2, <1>3 DEF Kept

\* The next byte of a message finds the one before at the end of the queue, or
\* read last with nothing behind it: there is no room between the two for
\* another byte.
LEMMA DataContinues ==
  ASSUME FrameInv, up, next # 0, Kept(Len(sent), next - 1), NEW e \in Element,
         e.msg = Len(sent), e.nr = next, queue' = Append(queue, e),
         UNCHANGED <<rcvdMode, rcvdMsg, rcvIdx, rcvdNr>>, NEW i, i = Len(sent),
         NEW k, k = next
  PROVE  Kept(i, k)'
<1>1. TypeOK /\ QueueInOrder /\ HostGoesOn /\ QueueGoesOn
  BY DEF FrameInv
<1>2. /\ Len(queue') = Len(queue) + 1 /\ Len(queue) \in Nat
      /\ \A p \in 1 .. Len(queue) : queue'[p] = queue[p]
      /\ queue'[Len(queue) + 1] = e
  BY <1>1, ArriveFacts
<1>3. i \in Nat /\ k \in 1 .. MsgLen /\ rcvIdx \in Nat
  BY <1>1, FrameAssumption, SlotFacts DEF TypeOK
<1>4. \A p \in QueueSlot : queue[p].nr \in Nat /\ queue[p].msg \in Nat
                           /\ ComesBefore(queue[p].msg, queue[p].nr, i, k)
  BY <1>1, SlotFacts DEF HostGoesOn
<1>5. CASE Waits(i, k - 1)
  <2>1. PICK p \in QueueSlot :
          /\ p + (k - 1) <= Len(queue)
          /\ \A j \in 0 .. k - 1 : queue[p + j].msg = i /\ queue[p + j].nr = j
    BY <1>5 DEF Waits
  <2>2. p \in 1 .. Len(queue)
    BY <2>1 DEF QueueSlot
  <2>3. p + (k - 1) = Len(queue)
    <3>0. p + (k - 1) <= Len(queue) /\ p + (k - 1) \in Nat
      BY <1>3, <2>1, <2>2
    <3> SUFFICES ASSUME p + (k - 1) < Len(queue) PROVE FALSE
      BY <1>2, <3>0
    <3>1. p + (k - 1) \in QueueSlot /\ p + k \in QueueSlot /\ p + (k - 1) < p + k
          /\ k - 1 \in 0 .. k - 1
      BY <1>2, <1>3, <2>1, <2>2 DEF QueueSlot
    <3>2. queue[p + (k - 1)].msg = i /\ queue[p + (k - 1)].nr = k - 1
      BY <2>1, <3>1
    <3>3. ComesBefore(i, k - 1, queue[p + k].msg, queue[p + k].nr)
      BY <1>1, <3>1, <3>2 DEF QueueInOrder
    <3>4. ComesBefore(queue[p + k].msg, queue[p + k].nr, i, k)
          /\ queue[p + k].nr \in Nat /\ queue[p + k].msg \in Nat
      BY <1>4, <3>1
    <3> QED
      BY <1>3, <3>3, <3>4 DEF ComesBefore
  <2>4. p \in QueueSlot' /\ p + k <= Len(queue')
    BY <1>2, <1>3, <2>2, <2>3 DEF QueueSlot
  <2>5. ASSUME NEW j \in 0 .. k
        PROVE  queue'[p + j].msg = i /\ queue'[p + j].nr = j
    <3>1. CASE j = k
      <4>1. p + j = Len(queue) + 1
        BY <1>2, <1>3, <2>2, <2>3, <3>1
      <4> QED
        BY <1>2, <3>1, <4>1
    <3>2. CASE j # k
      <4>1. j \in 0 .. k - 1 /\ p + j \in 1 .. Len(queue)
        BY <1>2, <1>3, <2>2, <2>3, <3>2
      <4> QED
        BY <1>2, <2>1, <4>1
    <3> QED
      BY <3>1, <3>2
  <2> QED
    BY <2>4, <2>5 DEF Waits, Kept
<1>6. CASE BeingRead(i, k - 1)
  <2>1. /\ rcvdMode # NONE /\ rcvdMsg = i /\ rcvIdx = rcvdNr
        /\ (k - 1) - rcvIdx <= Len(queue)
        /\ \A j \in rcvIdx + 1 .. k - 1 :
             queue[j - rcvIdx].msg = i /\ queue[j - rcvIdx].nr = j
    BY <1>6 DEF BeingRead
  <2>2. rcvIdx < k
    <3>1. ComesBefore(rcvdMsg, rcvdNr, Len(sent), next)
      BY <1>1, <2>1 DEF HostGoesOn
    <3> QED
      BY <1>3, <2>1, <3>1 DEF ComesBefore
  <2>3. (k - 1) - rcvIdx = Len(queue)
    <3> SUFFICES ASSUME (k - 1) - rcvIdx < Len(queue) PROVE FALSE
      BY <1>2, <1>3, <2>1, <2>2
    <3> DEFINE r == k - rcvIdx
    <3>1. r \in QueueSlot
      BY <1>2, <1>3, <2>2 DEF QueueSlot
    <3>2. ComesBefore(i, k - 1, queue[r].msg, queue[r].nr)
      <4>1. CASE rcvIdx = k - 1
        <5>1. ComesBefore(rcvdMsg, rcvdNr, queue[r].msg, queue[r].nr)
          BY <1>1, <2>1, <3>1 DEF QueueGoesOn
        <5> QED
          BY <2>1, <4>1, <5>1
      <4>2. CASE rcvIdx # k - 1
        <5>1. /\ k - 1 \in rcvIdx + 1 .. k - 1 /\ (k - 1) - rcvIdx \in QueueSlot
              /\ (k - 1) - rcvIdx < r
          BY <1>2, <1>3, <2>2, <3>1, <4>2 DEF QueueSlot
        <5>2. queue[(k - 1) - rcvIdx].msg = i /\ queue[(k - 1) - rcvIdx].nr = k - 1
          BY <2>1, <5>1
        <5>3. ComesBefore(queue[(k - 1) - rcvIdx].msg, queue[(k - 1) - rcvIdx].nr,
                          queue[r].msg, queue[r].nr)
          BY <1>1, <3>1, <5>1 DEF QueueInOrder
        <5> QED
          BY <5>2, <5>3
      <4> QED
        BY <4>1, <4>2
    <3>3. ComesBefore(queue[r].msg, queue[r].nr, i, k)
          /\ queue[r].nr \in Nat /\ queue[r].msg \in Nat
      BY <1>4, <3>1
    <3> HIDE DEF r
    <3> QED
      BY <1>3, <3>2, <3>3 DEF ComesBefore
  <2>4. k - rcvIdx <= Len(queue')
    BY <1>2, <1>3, <2>3
  <2>5. ASSUME NEW j \in rcvIdx + 1 .. k
        PROVE  queue'[j - rcvIdx].msg = i /\ queue'[j - rcvIdx].nr = j
    <3>1. CASE j = k
      <4>1. j - rcvIdx = Len(queue) + 1
        BY <1>2, <1>3, <2>3, <3>1
      <4> QED
        BY <1>2, <3>1, <4>1
    <3>2. CASE j # k
      <4>1. j \in rcvIdx + 1 .. k - 1 /\ j - rcvIdx \in 1 .. Len(queue)
        BY <1>2, <1>3, <2>3, <3>2
      <4> QED
        BY <1>2, <2>1, <4>1
    <3> QED
      BY <3>1, <3>2
  <2> QED
    BY <2>1, <2>4, <2>5 DEF BeingRead, Kept
<1> QED
  BY <1>5, <1>6 DEF Kept

LEMMA SendHeaderKeepsWholeInv ==
  ASSUME FrameInv, WholeInv, NEW m \in Message, SendHeader(m)
  PROVE  WholeInv'
<1>1. /\ next' = 1 /\ sent' = Append(sent, m)
      /\ UNCHANGED <<up, rcvIdx, rcvdMode, rcvdMsg, rcvdNr, owed>>
  BY DEF SendHeader, statics
<1>2. TypeOK
  BY DEF FrameInv
<1>3. Len(sent') = Len(sent) + 1 /\ Len(sent) \in Nat
  BY <1>1, <1>2, SentGrows
<1>4. \A i \in owed : i \in 1 .. Len(sent') /\ i \in Nat
  BY <1>3 DEF WholeInv
<1>5. MsgLen \in Nat
  BY FrameAssumption
<1>6. CASE Arrive(MAGIC_NUMBER + m.mode, Len(sent) + 1, 0)
  <2> DEFINE b == [val |-> MAGIC_NUMBER + m.mode, msg |-> Len(sent) + 1, nr |-> 0]
  <2>1. up /\ queue' = Append(queue, b)
    BY <1>6, Zenon DEF Arrive
  <2>2. b \in Element
    <3>1. MAGIC_NUMBER + m.mode \in Byte
      <4>1. m.mode \in 1 .. 15
        BY FrameAssumption DEF Message
      <4> QED
        BY <4>1 DEF Byte, MAGIC_NUMBER
    <3>2. Len(sent) + 1 \in Nat /\ 0 \in 0 .. MsgLen
      BY <1>3, <1>5
    <3> QED
      BY <3>1, <3>2 DEF Element
  <2>3. b.msg = Len(sent) + 1 /\ b.nr = 0
    OBVIOUS
  <2> HIDE DEF b
  <2>4. \A i \in owed : Kept(i, MsgLen)'
    BY <1>1, <1>2, <1>4, <1>5, <2>1, <2>2, ArriveKeeps DEF WholeInv
  <2>5. /\ Len(queue') = Len(queue) + 1 /\ Len(queue) \in Nat
        /\ queue'[Len(queue) + 1] = b
    BY <1>2, <2>1, <2>2, ArriveFacts
  <2>6. Kept(Len(sent), next - 1)'
    <3>1. Len(queue) + 1 \in QueueSlot' /\ (Len(queue) + 1) + (next' - 1) <= Len(queue')
      BY <1>1, <2>5 DEF QueueSlot
    <3>2. ASSUME NEW j \in 0 .. next' - 1
          PROVE  /\ queue'[(Len(queue) + 1) + j].msg = Len(sent')
                 /\ queue'[(Len(queue) + 1) + j].nr = j
      <4>1. j = 0 /\ (Len(queue) + 1) + j = Len(queue) + 1
        BY <1>1, <2>5
      <4> QED
        BY <1>3, <2>3, <2>5, <4>1
    <3> QED
      BY <3>1, <3>2 DEF Kept, Waits
  <2>7. up'
    BY <1>1, <2>1
  <2> QED
    BY <1>1, <1>4, <2>4, <2>6, <2>7 DEF WholeInv
<1>7. CASE Vanish("header") /\ whole' = FALSE
  <2>1. queue' = queue /\ ~whole'
    BY <1>7, Zenon DEF Vanish
  <2>2. \A i \in owed : Kept(i, MsgLen)'
    BY <1>1, <2>1 DEF WholeInv, Kept, Waits, BeingRead, QueueSlot
  <2> QED
    BY <1>1, <1>4, <2>1, <2>2 DEF WholeInv
<1> QED
  BY <1>6, <1>7, Zenon DEF SendHeader

LEMMA SendDataKeepsWholeInv ==
  ASSUME FrameInv, WholeInv, SendData
  PROVE  WholeInv'
<1>1. /\ next # 0 /\ next' = (next + 1) % (MsgLen + 1)
      /\ UNCHANGED <<sent, up, rcvIdx, rcvdMode, rcvdMsg, rcvdNr>>
  BY DEF SendData, statics
<1>2. TypeOK /\ HostGoesOn
  BY DEF FrameInv
<1>3. Len(sent) \in 1 .. Len(sent) /\ Len(sent) \in Nat /\ next \in 1 .. MsgLen
  BY <1>1, <1>2, EmptySeq, FrameAssumption DEF TypeOK, HostGoesOn
<1>4. /\ next' # 0 => next' = next + 1 /\ next < MsgLen
      /\ next' = 0 => next = MsgLen
  BY <1>1, <1>3, NextData
<1>5. \A i \in owed : i \in 1 .. Len(sent) /\ i \in Nat
  BY <1>3 DEF WholeInv
<1>6. MsgLen \in Nat
  BY FrameAssumption
<1>7. CASE /\ Arrive(sent[Len(sent)].data[next], Len(sent), next)
           /\ owed' = (IF whole /\ next = MsgLen THEN owed \cup {Len(sent)} ELSE owed)
           /\ UNCHANGED whole
  <2> DEFINE b == [val |-> sent[Len(sent)].data[next], msg |-> Len(sent), nr |-> next]
  <2>1. up /\ queue' = Append(queue, b)
    BY <1>7, Zenon DEF Arrive
  <2>2. b \in Element
    <3>1. sent[Len(sent)].data[next] \in 0 .. MAGIC_NUMBER - 1
      BY <1>2, <1>3, MessageFacts
    <3>2. sent[Len(sent)].data[next] \in Byte
      BY <3>1 DEF Byte, MAGIC_NUMBER
    <3> QED
      BY <1>3, <1>6, <3>2 DEF Element
  <2>3. b.msg = Len(sent) /\ b.nr = next
    OBVIOUS
  <2> HIDE DEF b
  <2>4. \A i \in owed : Kept(i, MsgLen)'
    BY <1>1, <1>2, <1>5, <1>6, <2>1, <2>2, ArriveKeeps DEF WholeInv
  <2>5. whole => \A i, k : i = Len(sent) /\ k = next => Kept(i, k)'
    <3> SUFFICES ASSUME whole, NEW i, NEW k, i = Len(sent), k = next PROVE Kept(i, k)'
      OBVIOUS
    <3>1. Kept(Len(sent), next - 1)
      BY <1>1, Zenon DEF WholeInv
    <3> QED
      BY <1>1, <2>1, <2>2, <2>3, <3>1, DataContinues
  <2>6. up' /\ whole' = whole
    BY <1>1, <1>7, <2>1, Zenon
  <2>7. ASSUME NEW i \in owed'
        PROVE  i \in 1 .. Len(sent') /\ Kept(i, MsgLen)'
    <3>1. CASE i \in owed
      BY <1>1, <1>5, <2>4, <3>1
    <3>2. CASE whole /\ next = MsgLen /\ i = Len(sent)
      BY <1>1, <1>3, <2>5, <3>2
    <3>3. i \in owed \/ (whole /\ next = MsgLen /\ i = Len(sent))
      BY <1>7, <2>7, Zenon
    <3> QED
      BY <3>1, <3>2, <3>3
  <2>8. ASSUME whole', next' # 0
        PROVE  Kept(Len(sent), next - 1)'
    <3>1. Len(sent') = Len(sent) /\ next' - 1 = next
      BY <1>1, <1>3, <1>4, <2>8
    <3>2. PICK i, k : i = Len(sent') /\ k = next' - 1
      OBVIOUS
    <3>3. Kept(i, k)'
      BY <2>5, <2>6, <2>8, <3>1, <3>2
    <3> QED
      BY <3>2, <3>3, Zenon DEF Kept, Waits, BeingRead
  <2> QED
    BY <2>6, <2>7, <2>8 DEF WholeInv
<1>8. CASE Vanish("data") /\ whole' = FALSE /\ UNCHANGED owed
  <2>1. queue' = queue /\ ~whole' /\ owed' = owed
    BY <1>8, Zenon DEF Vanish
  <2>2. \A i \in owed : Kept(i, MsgLen)'
    BY <1>1, <2>1 DEF WholeInv, Kept, Waits, BeingRead, QueueSlot
  <2> QED
    BY <1>1, <1>5, <2>1, <2>2 DEF WholeInv
<1> QED
  BY <1>7, <1>8, Zenon DEF SendData

LEMMA ReadKeepsWholeInv ==
  ASSUME FrameInv, WholeInv, ReadHeader \/ ReadData
  PROVE  WholeInv'
<1>1. UNCHANGED <<sent, next, up, whole, owed>> /\ up
  BY Zenon DEF ReadHeader, ReadData, host
<1>2. Len(sent) \in Nat /\ next \in Nat /\ MsgLen \in Nat
  BY FrameAssumption, SlotFacts DEF FrameInv, TypeOK
<1>3. ASSUME NEW i \in Nat, NEW n \in Nat, Due(i, n), Kept(i, n)
      PROVE  Kept(i, n)'
  BY <1>3, ReadHeaderKeeps, ReadDataKeeps
<1>4. ASSUME NEW i \in owed'
      PROVE  i \in 1 .. Len(sent') /\ Kept(i, MsgLen)'
  <2>1. i \in 1 .. Len(sent) /\ i \in Nat /\ Kept(i, MsgLen)
    BY <1>1 DEF WholeInv
  <2> QED
    BY <1>1, <1>2, <1>3, <2>1 DEF Due
<1>5. ASSUME whole, next # 0
      PROVE  Kept(Len(sent), next - 1)'
  <2>1. Kept(Len(sent), next - 1)
    BY <1>5, Zenon DEF WholeInv
  <2>2. PICK i, n : i = Len(sent) /\ n = next - 1
    OBVIOUS
  <2>3. Kept(i, n)'
    BY <1>2, <1>3, <1>5, <2>1, <2>2 DEF Due
  <2>4. i = Len(sent') /\ n = next' - 1
    BY <1>1, <2>2
  <2> QED
    BY <2>3, <2>4, Zenon DEF Kept, Waits, BeingRead
<1> QED
  BY <1>1, <1>4, <1>5 DEF WholeInv

LEMMA ReturnTrueKeepsWholeInv ==
  ASSUME FrameInv, WholeInv, ReturnTrue
  PROVE  WholeInv'
<1>1. /\ up /\ owed' = owed \ {rcvdMsg}
      /\ UNCHANGED <<sent, next, up, queue, rcvdMode, rcvdMsg, rcvdNr, whole>>
  BY Zenon DEF ReturnTrue, host
<1>2. \A i, n : Waits(i, n) => Waits(i, n)'
  BY <1>1 DEF Waits, QueueSlot
<1>3. \A i \in owed' : i \in 1 .. Len(sent') /\ Kept(i, MsgLen)'
  BY <1>1, <1>2 DEF WholeInv, Kept, BeingRead
<1>4. ASSUME whole, next # 0
      PROVE  Waits(Len(sent), next - 1)
  <2>1. Kept(Len(sent), next - 1)
    BY <1>4, Zenon DEF WholeInv
  <2>2. rcvdMode # NONE => rcvdMsg < Len(sent)
    BY <1>4, ReturnTrueFacts
  <2>3. Len(sent) \in Nat
    BY SlotFacts DEF FrameInv
  <2> QED
    BY <2>1, <2>2, <2>3 DEF Kept, BeingRead
<1>5. whole' /\ next' # 0 => Kept(Len(sent), next - 1)'
  BY <1>1, <1>4 DEF Kept, Waits, QueueSlot
<1> QED
  BY <1>1, <1>3, <1>5 DEF WholeInv

LEMMA RestKeepsWholeInv ==
  ASSUME FrameInv, WholeInv, ReturnFalse \/ Render \/ UNCHANGED vars \/ Reset \/ Setup
  PROVE  WholeInv'
<1>1. CASE ReturnFalse \/ Render \/ UNCHANGED vars
  <2>1. UNCHANGED <<sent, next, up, queue, rcvIdx, rcvdMode, rcvdMsg, rcvdNr, whole, owed>>
    BY <1>1, Zenon DEF ReturnFalse, Render, vars, host, statics, ghosts
  <2> QED
    BY <2>1 DEF WholeInv, Kept, Waits, BeingRead, QueueSlot
<1>2. CASE Reset \/ Setup
  <2>1. owed' = {}
    BY <1>2, Zenon DEF Reset, Setup, WholeInv
  <2>2. ~whole'
    <3>1. Reset => ~whole'
      BY Zenon DEF Reset
    <3>2. Setup => ~whole'
      BY Zenon DEF Setup, WholeInv
    <3> QED
      BY <1>2, <3>1, <3>2
  <2> QED
    BY <2>1, <2>2 DEF WholeInv
<1> QED
  BY <1>1, <1>2

LEMMA NextKeepsWholeInv ==
  ASSUME FrameInv, WholeInv, [Next]_vars
  PROVE  WholeInv'
BY SendHeaderKeepsWholeInv, SendDataKeepsWholeInv, ReadKeepsWholeInv,
   ReturnTrueKeepsWholeInv, RestKeepsWholeInv DEF Next, Device

\* Until it is handed on, a message that came in as a whole is a later one than
\* the latest handed on.
LEMMA WholeIsNotPassedOver ==
  ASSUME FrameInv, WholeInv
  PROVE  NotPassedOver
<1> SUFFICES ASSUME NEW i \in owed PROVE last < i
  BY DEF NotPassedOver
<1>1. i \in 1 .. Len(sent) /\ Kept(i, MsgLen)
  BY DEF WholeInv
<1>2. HandedInOrder /\ TypeOK
  BY DEF FrameInv
<1>3. CASE Waits(i, MsgLen)
  <2>1. PICK p \in QueueSlot :
          \A j \in 0 .. MsgLen : queue[p + j].msg = i /\ queue[p + j].nr = j
    BY <1>3 DEF Waits
  <2>2. 0 \in 0 .. MsgLen /\ p + 0 = p
    BY FrameAssumption DEF QueueSlot
  <2>3. queue[p].msg = i /\ queue[p].nr = 0
    BY <2>1, <2>2
  <2> QED
    BY <1>2, <2>3 DEF HandedInOrder
<1>4. CASE BeingRead(i, MsgLen)
  <2>1. rcvdMode # NONE /\ rcvdMsg = i /\ rcvIdx = rcvdNr
    BY <1>4 DEF BeingRead
  <2>2. last <= i /\ last # i
    BY <1>2, <2>1, FrameAssumption DEF HandedInOrder
  <2>3. last \in Nat
    BY <1>2 DEF TypeOK
  <2> QED
    BY <1>1, <2>2, <2>3
<1> QED
  BY <1>1, <1>3, <1>4 DEF Kept

\* A message whose bytes all reached Serial is handed on before any later one,
\* whatever was lost before it.
THEOREM NothingPassedOver ==
  ASSUME "header" \notin Lossy
  PROVE  Spec /\ []RoomForHeader => []NotPassedOver
<1>1. Init => WholeInv
  BY Zenon DEF Init, WholeInv
<1>2. FrameInv /\ WholeInv /\ [Next]_vars => WholeInv'
  BY NextKeepsWholeInv
<1>3. FrameInv /\ WholeInv => NotPassedOver
  BY WholeIsNotPassedOver
<1> QED
  BY <1>1, <1>2, <1>3, FramingInvariant, PTL DEF Spec

===============================================================================
