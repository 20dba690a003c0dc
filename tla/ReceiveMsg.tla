----------------------------- MODULE ReceiveMsg -----------------------------
(***************************************************************************)
(* The framing of the serial protocol: a host sends messages of one header *)
(* byte and MsgLen data bytes, and receiveMsg() of the sketch puts them    *)
(* together again from the bytes that wait in Serial.  The header is the   *)
(* only thing that keeps the two in step: bytes may be lost on the line,   *)
(* and the device may be restarted in the middle of a message.             *)
(*                                                                         *)
(* Serial is the queue that SerialRx implements.  The bytes in it carry,   *)
(* for the properties and the proofs only, the number of the message they  *)
(* belong to and their own number in it: 0 for the header.                 *)
(***************************************************************************)
EXTENDS Integers, Sequences

CONSTANTS
  MsgLen,      \* data bytes of a message
  HostMode,    \* the modes the host sends
  Data,        \* the data bytes the host sends
  Capacity,    \* how many bytes Serial holds
  Lossy,       \* which bytes the line may lose: a subset of {"header", "data"}
  MaxSent,     \* bound on the messages sent
  MaxResets    \* bound on the restarts of the device

\* ModeBits
NONE == 0
MAGIC_NUMBER == 15 * 16

ASSUME FrameAssumption ==
  /\ MsgLen \in Nat \ {0}
  /\ HostMode \subseteq 1 .. 15
  /\ Data \subseteq 0 .. MAGIC_NUMBER - 1
ASSUME BoundAssumption ==
  /\ Capacity \in Nat
  /\ Lossy \subseteq {"header", "data"}
  /\ MaxSent \in Nat
  /\ MaxResets \in Nat

VARIABLES
  sent,        \* the messages the host has begun to send
  next,        \* the data byte the host sends next; 0: it is between messages
  up,          \* is the device running?
  queue,       \* the bytes that wait in Serial
  pc,          \* where loop() is: in receiveMsg() or in the rest of it
  rcvBuffer,   \* s_rcvBuffer of receiveMsg()
  rcvIdx,      \* s_rcvIdx
  rcvdMode,    \* s_rcvdMode
  buffer,      \* s_rcvBuffer of loop(): the data of the latest message
  modeStatus,  \* s_modeState of loop(): its mode
  rcvdMsg,     \* number of the message whose header was read last
  rcvdNr,      \* number, in its message, of the byte read last
  opened,      \* has a header been read since the last message or restart?
  last,        \* number of the latest message handed to loop(), 0 if none
  whole,       \* has every byte of the message being sent reached Serial?
  owed,        \* messages that reached Serial as a whole and are not handed on
  resets       \* restarts so far

host    == <<sent, next>>
statics == <<rcvBuffer, rcvIdx, rcvdMode>>
app     == <<buffer, modeStatus>>
ghosts  == <<rcvdMsg, rcvdNr, opened, last, whole, owed>>
vars    == <<host, up, queue, pc, statics, app, ghosts, resets>>

Message == [mode : HostMode, data : [1 .. MsgLen -> Data]]
Byte    == 0 .. 255
Zero    == [k \in 1 .. MsgLen |-> 0]

\* The test on the high nibble, and the low nibble.
IsHeader(b) == (b \div 16) % 16 = 15
ModeOf(b)   == b % 16

Init ==
  /\ sent = <<>> /\ next = 0
  /\ up = TRUE
  /\ queue = <<>>
  /\ pc = "receive"
  /\ rcvBuffer = Zero /\ rcvIdx = 0 /\ rcvdMode = NONE
  /\ buffer = Zero /\ modeStatus = NONE
  /\ rcvdMsg = 0 /\ rcvdNr = 0 /\ opened = FALSE /\ last = 0 /\ whole = FALSE /\ owed = {}
  /\ resets = 0

-----------------------------------------------------------------------------
(* The host and the line.                                                   *)

\* Byte k of message n reaches Serial ...
Arrive(b, n, k) ==
  /\ up
  /\ Len(queue) < Capacity
  /\ queue' = Append(queue, [val |-> b, msg |-> n, nr |-> k])

\* ... or not: the line loses it, Serial is full or the device is restarting.
Vanish(kind) ==
  /\ kind \in Lossy \/ ~up \/ Len(queue) = Capacity
  /\ UNCHANGED queue

SendHeader(m) ==
  /\ next = 0
  /\ Len(sent) < MaxSent
  /\ sent' = Append(sent, m)
  /\ next' = 1
  /\ \/ Arrive(MAGIC_NUMBER + m.mode, Len(sent) + 1, 0) /\ whole' = TRUE
     \/ Vanish("header") /\ whole' = FALSE
  /\ UNCHANGED <<up, pc, statics, app, rcvdMsg, rcvdNr, opened, last, owed, resets>>

SendData ==
  /\ next # 0
  /\ next' = (next + 1) % (MsgLen + 1)
  /\ \/ /\ Arrive(sent[Len(sent)].data[next], Len(sent), next)
        /\ owed' = IF whole /\ next = MsgLen THEN owed \cup {Len(sent)} ELSE owed
        /\ UNCHANGED whole
     \/ /\ Vanish("data")
        /\ whole' = FALSE
        /\ UNCHANGED owed
  /\ UNCHANGED <<sent, up, pc, statics, app, rcvdMsg, rcvdNr, opened, last, resets>>

-----------------------------------------------------------------------------
(* The device.                                                              *)

\* A version that forgets to start over.
ReadHeaderNoReset ==
  /\ up /\ pc = "receive"
  /\ queue # <<>> /\ rcvIdx < MsgLen
  /\ IsHeader(Head(queue).val)
  /\ rcvdMode' = ModeOf(Head(queue).val)
  /\ queue' = Tail(queue)
  /\ rcvdMsg' = Head(queue).msg /\ rcvdNr' = 0
  /\ opened' = TRUE
  /\ UNCHANGED <<host, up, pc, rcvBuffer, rcvIdx, app, last, whole, owed, resets>>

\* One turn of the while loop of receiveMsg(): a header starts over ...
ReadHeader ==
  /\ up /\ pc = "receive"
  /\ queue # <<>> /\ rcvIdx < MsgLen
  /\ IsHeader(Head(queue).val)
  /\ rcvdMode' = ModeOf(Head(queue).val)
  /\ rcvIdx' = 0
  /\ queue' = Tail(queue)
  /\ rcvdMsg' = Head(queue).msg /\ rcvdNr' = 0
  /\ opened' = TRUE
  /\ UNCHANGED <<host, up, pc, rcvBuffer, app, last, whole, owed, resets>>

\* ... and any other byte is the next data byte.
ReadData ==
  /\ up /\ pc = "receive"
  /\ queue # <<>> /\ rcvIdx < MsgLen
  /\ ~IsHeader(Head(queue).val)
  /\ rcvBuffer' = [rcvBuffer EXCEPT ![rcvIdx + 1] = Head(queue).val]
  /\ rcvIdx' = rcvIdx + 1
  /\ queue' = Tail(queue)
  /\ rcvdNr' = Head(queue).nr
  /\ UNCHANGED <<host, up, pc, rcvdMode, app, rcvdMsg, opened, last, whole, owed, resets>>

\* receiveMsg() returns false: nothing waits and the message is not complete.
ReturnFalse ==
  /\ up /\ pc = "receive"
  /\ queue = <<>> /\ rcvIdx < MsgLen
  /\ pc' = "show"
  /\ UNCHANGED <<host, up, queue, statics, app, ghosts, resets>>

\* A version off by one: it waits for one byte more than a message has.
ReturnTrueLate ==
  /\ up /\ pc = "receive"
  /\ rcvIdx > MsgLen
  /\ pc' = "show"
  /\ rcvIdx' = 0
  /\ modeStatus' = rcvdMode
  /\ buffer' = rcvBuffer
  /\ UNCHANGED <<host, up, queue, rcvBuffer, rcvdMode, ghosts, resets>>

\* receiveMsg() returns true and the message is copied out.
ReturnTrue ==
  /\ up /\ pc = "receive"
  /\ rcvIdx >= MsgLen
  /\ pc' = "show"
  /\ rcvIdx' = 0
  /\ modeStatus' = rcvdMode
  /\ buffer' = rcvBuffer
  /\ last' = IF rcvdMode = NONE THEN last ELSE rcvdMsg
  /\ owed' = owed \ {rcvdMsg}
  /\ opened' = FALSE
  /\ UNCHANGED <<host, up, queue, rcvBuffer, rcvdMode, rcvdMsg, rcvdNr, whole, resets>>

\* The rest of loop(): the effects and show(), and loop() is called again.
Render ==
  /\ up /\ pc = "show"
  /\ pc' = "receive"
  /\ UNCHANGED <<host, up, queue, statics, app, ghosts, resets>>

\* The device loses power or is reset ...
Reset ==
  /\ up /\ resets < MaxResets
  /\ resets' = resets + 1
  /\ up' = FALSE
  /\ queue' = <<>>
  /\ whole' = FALSE
  /\ owed' = {}
  /\ UNCHANGED <<host, pc, statics, app, rcvdMsg, rcvdNr, opened, last>>

\* ... and comes back with its static variables at their initial values.
Setup ==
  /\ ~up
  /\ up' = TRUE
  /\ pc' = "receive"
  /\ rcvBuffer' = Zero /\ rcvIdx' = 0 /\ rcvdMode' = NONE
  /\ buffer' = Zero /\ modeStatus' = NONE
  /\ rcvdMsg' = 0 /\ rcvdNr' = 0 /\ opened' = FALSE
  /\ UNCHANGED <<host, queue, last, whole, owed, resets>>

Device == ReadHeader \/ ReadData \/ ReturnFalse \/ ReturnTrue \/ Render \/ Setup

Next ==
  \/ \E m \in Message : SendHeader(m)
  \/ SendData
  \/ Device
  \/ Reset

\* The device never stops of itself; the host may stop at any time.
Spec == Init /\ [][Next]_vars /\ WF_vars(Device)

-----------------------------------------------------------------------------
(* Properties.                                                              *)

TypeOK ==
  /\ sent \in Seq(Message) /\ next \in 0 .. MsgLen
  /\ up \in BOOLEAN
  /\ queue \in Seq([val : Byte, msg : Nat, nr : 0 .. MsgLen])
  /\ pc \in {"receive", "show"}
  /\ rcvBuffer \in [1 .. MsgLen -> Byte]
  /\ rcvIdx \in 0 .. MsgLen
  /\ rcvdMode \in 0 .. 15
  /\ buffer \in [1 .. MsgLen -> Byte]
  /\ modeStatus \in 0 .. 15
  /\ rcvdMsg \in Nat /\ rcvdNr \in 0 .. MsgLen /\ opened \in BOOLEAN /\ last \in Nat /\ whole \in BOOLEAN
  /\ owed \subseteq Nat
  /\ resets \in Nat

\* Whatever data bytes the line loses and whenever the device restarts, loop()
\* only sees messages of the host, exactly as sent, in order and none twice:
\* the pieces of two messages are never put together.
Shown ==
  IF modeStatus = NONE THEN [mode |-> NONE, data |-> <<>>]
                       ELSE [mode |-> modeStatus, data |-> buffer]
Channel == INSTANCE MessageChannel WITH shown <- Shown
ChannelSpec == Channel!Spec

\* A message that reached Serial as a whole is not passed over, whatever
\* garbage came before it: the next message handed on is an earlier one or it.
NotPassedOver == \A i \in owed : last < i

\* ... and it is handed on in the end, unless the device restarts.
HandedOn == \A i \in 1 .. MaxSent : i \in owed ~> i \notin owed

\* The Readme of the LED controller says that the device "keeps track of the
\* header to know where a message starts": a message it acts on was opened by
\* a header of its own.
OpenedByHeader == [][ReturnTrue => opened]_vars
=============================================================================
