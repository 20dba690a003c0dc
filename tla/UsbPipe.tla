-------------------------------- MODULE UsbPipe -------------------------------
(***************************************************************************)
(* The data endpoints of the USB serial port: Serial_::write(), flush(),   *)
(* peek() and read() over USB_Send(), USB_Flush() and USB_Recv(), each     *)
(* endpoint with two banks, and USB_GEN_vect, which every millisecond      *)
(* releases what waits in a bank.  What runs under a LockEP is one step;   *)
(* between two of them any interrupt may come.  One write() is in progress *)
(* at a time.  The LEDs and the counters of their pulses are left out.     *)
(***************************************************************************)
EXTENDS Naturals, Sequences, SequencesExt

CONSTANTS
  EpByte,      \* the bytes
  EpSize,      \* USB_EP_SIZE
  MaxWrite,    \* bound: bytes of one write()
  Tries,       \* the 250 of USB_Send()
  HostZlp      \* does the host send packets without a byte?

ASSUME PipeAssumption ==
  /\ EpSize \in Nat \ {0} /\ Tries \in 1 .. 255 /\ MaxWrite \in Nat
  /\ HostZlp \in BOOLEAN

VARIABLES
  configured,  \* _usbConfiguration
  bank,        \* the bank of CDC_TX that is being filled
  sent,        \* the banks the host has not read yet
  pipeAt,      \* where the program is in write() or flush()
  rest,        \* USB_Send(): the data that is left,
  room,        \*   the space it has seen,
  timeout, sendZlp,
  uenum,       \* UENUM, the endpoint the registers are for
  due,         \* the bytes the calls have promised to the host
  last, cut    \* the size of the last packet the host has read; has a call given up since the reset?

txVars == <<configured, bank, sent, pipeAt, rest, room, timeout, sendZlp, uenum, due, last, cut>>
Send == <<rest, room, timeout, sendZlp>>

VARIABLES
  peek_buffer, \* the byte peek() has taken, or none
  got,         \* the banks of CDC_RX
  unread       \* the bytes the host has sent and the program has not got

rxVars == <<peek_buffer, got, unread>>

TxInit ==
  /\ configured = TRUE /\ bank = <<>> /\ sent = <<>>
  /\ pipeAt = "out" /\ rest = <<>> /\ room = 0 /\ timeout = Tries /\ sendZlp = FALSE
  /\ uenum = "0" /\ due = <<>> /\ last = "short" /\ cut = FALSE

RxInit == peek_buffer = <<>> /\ got = <<>> /\ unread = <<>>

-------------------------------------------------------------------------------
ReadWriteAllowed == configured /\ Len(sent) < 2 /\ Len(bank) < EpSize
Goto(from, to) == pipeAt = from /\ pipeAt' = to
HostRest == UNCHANGED <<configured, last>>

\* ReleaseTX() for a bank with these bytes
Release(b) == sent' = Append(sent, b) /\ bank' = <<>>

-------------------------------------------------------------------------------
(* Serial_::write() and USB_Send(): an error leaves the data out.          *)

WriteCall(data) ==
  /\ Goto("out", "space") /\ configured
  /\ rest' = data /\ timeout' = Tries /\ sendZlp' = FALSE /\ due' = due \o data
  /\ UNCHANGED <<bank, sent, room, uenum, cut>> /\ HostRest

\* USB_SendSpace(): without space the call waits a millisecond, or gives up.
SendSpace ==
  /\ pipeAt = "space" /\ (rest # <<>> \/ sendZlp)
  /\ uenum' = "tx"
  /\ LET space == IF ReadWriteAllowed THEN EpSize - Len(bank) ELSE 0 IN
     \/ /\ space > 0
        /\ room' = IF space > Len(rest) THEN Len(rest) ELSE space
        /\ pipeAt' = "fill" /\ UNCHANGED <<rest, timeout, due, cut>>
     \/ /\ space = 0 /\ timeout > 1
        /\ timeout' = timeout - 1 /\ UNCHANGED <<pipeAt, rest, room, due, cut>>
     \/ /\ space = 0 /\ timeout = 1
        /\ pipeAt' = "out" /\ timeout' = 0 /\ rest' = <<>> /\ cut' = TRUE
        /\ due' = SubSeq(due, 1, Len(due) - Len(rest)) /\ UNCHANGED room
  /\ UNCHANGED <<bank, sent, sendZlp>> /\ HostRest

\* A version that does not look again whether there is space: what the bank does not
\* take is lost.
SendFillUnchecked ==
  /\ pipeAt = "fill" /\ uenum' = "tx" /\ pipeAt' = "space"
  /\ LET filled == IF ReadWriteAllowed THEN bank \o SubSeq(rest, 1, room) ELSE bank
         full == Len(filled) >= EpSize
     IN
     /\ rest' = SubSeq(rest, room + 1, Len(rest))
     /\ IF (sendZlp \/ full) /\ Len(sent) < 2 THEN Release(filled) ELSE bank' = filled /\ UNCHANGED sent
     /\ sendZlp' = (~sendZlp /\ full /\ rest' = <<>>)
  /\ UNCHANGED <<room, timeout, due, cut>> /\ HostRest

\* A version without the empty packet.
SendFillNoZlp ==
  /\ pipeAt = "fill" /\ uenum' = "tx" /\ pipeAt' = "space"
  /\ IF ReadWriteAllowed
     THEN LET filled == bank \o SubSeq(rest, 1, room) IN
          /\ rest' = SubSeq(rest, room + 1, Len(rest))
          /\ IF Len(filled) >= EpSize THEN Release(filled) ELSE bank' = filled /\ UNCHANGED sent
     ELSE UNCHANGED <<rest, bank, sent>>
  /\ UNCHANGED <<room, timeout, sendZlp, due, cut>> /\ HostRest

\* Under the second lock: the frame may have been released in between.
SendFill ==
  /\ pipeAt = "fill" /\ uenum' = "tx" /\ pipeAt' = "space"
  /\ IF ReadWriteAllowed
     THEN LET filled == bank \o SubSeq(rest, 1, room)
              full == Len(filled) >= EpSize
          IN
          /\ rest' = SubSeq(rest, room + 1, Len(rest))
          /\ IF sendZlp \/ full THEN Release(filled) ELSE bank' = filled /\ UNCHANGED sent
          /\ sendZlp' = (~sendZlp /\ full /\ rest' = <<>>)
     ELSE UNCHANGED <<rest, bank, sent, sendZlp>>
  /\ UNCHANGED <<room, timeout, due, cut>> /\ HostRest

SendReturn ==
  /\ Goto("space", "out") /\ rest = <<>> /\ ~sendZlp
  /\ UNCHANGED <<bank, sent, Send, uenum, due, cut>> /\ HostRest

\* Serial_::flush(): USB_Flush() takes no lock.
FlushCall ==
  /\ Goto("out", "count") /\ uenum' = "tx"
  /\ UNCHANGED <<bank, sent, Send, due, cut>> /\ HostRest

\* FifoByteCount(), of the control endpoint if a request came in between
FlushCount ==
  /\ pipeAt = "count"
  /\ pipeAt' = IF uenum = "tx" /\ bank # <<>> THEN "flush" ELSE "out"
  /\ UNCHANGED <<bank, sent, Send, uenum, due, cut>> /\ HostRest

\* The bank may have been released since: then the next one is, without a byte.
FlushRelease ==
  /\ Goto("flush", "out")
  /\ IF uenum = "tx" /\ Len(sent) < 2 THEN Release(bank) ELSE UNCHANGED <<bank, sent>>
  /\ UNCHANGED <<Send, uenum, due, cut>> /\ HostRest

-------------------------------------------------------------------------------
(* The interrupts and the host.                                            *)

\* USB_GEN_vect, start of frame
StartOfFrame ==
  /\ uenum' = "tx"
  /\ IF bank # <<>> THEN Release(bank) ELSE UNCHANGED <<bank, sent>>
  /\ UNCHANGED <<pipeAt, Send, due, cut>> /\ HostRest

\* USB_GEN_vect, end of reset: the banks are empty, what was in them is lost.
Reset ==
  /\ configured /\ configured' = FALSE /\ uenum' = "0"
  /\ bank' = <<>> /\ sent' = <<>> /\ due' = rest /\ last' = "short" /\ cut' = FALSE
  /\ UNCHANGED <<pipeAt, Send>>

\* USB_COM_vect: SET_CONFIGURATION resets the endpoints, other requests leave them alone.
ControlRequest ==
  /\ uenum' = "0" /\ configured' = TRUE
  /\ \/ UNCHANGED <<bank, sent, due, last>> /\ configured
     \/ bank' = <<>> /\ sent' = <<>> /\ due' = rest /\ last' = "short"
  /\ UNCHANGED <<pipeAt, Send, cut>>

HostReads ==
  /\ sent # <<>> /\ sent' = Tail(sent)
  /\ due' = SubSeq(due, Len(sent[1]) + 1, Len(due))
  /\ last' = CASE Len(sent[1]) < EpSize -> "short"
               [] last = "full" -> "full again"
               [] OTHER -> "full"
  /\ UNCHANGED <<configured, bank, pipeAt, Send, uenum, cut>>

TxStep == SendSpace \/ SendFill \/ SendReturn \/ FlushCount \/ FlushRelease
TxNext ==
  \/ \E data \in BoundedSeq(EpByte, MaxWrite) : WriteCall(data)
  \/ TxStep \/ FlushCall
  \/ StartOfFrame \/ Reset \/ ControlRequest \/ HostReads

-------------------------------------------------------------------------------
(* Serial_::peek(), read() and begin() over USB_Recv().       *)

\* A version that does not release the bank it has emptied.
RecvKeepsBank == got' = [got EXCEPT ![1] = Tail(@)]

\* USB_Recv() of one byte: a bank it has emptied is released.
Recv == got' = IF Len(got[1]) = 1 THEN Tail(got) ELSE [got EXCEPT ![1] = Tail(@)]
CanRecv == got # <<>> /\ got[1] # <<>>

Peek ==
  /\ peek_buffer = <<>> /\ CanRecv
  /\ peek_buffer' = <<got[1][1]>> /\ Recv /\ UNCHANGED unread

Read ==
  /\ \/ peek_buffer # <<>> /\ peek_buffer' = <<>> /\ UNCHANGED got
     \/ peek_buffer = <<>> /\ CanRecv /\ Recv /\ UNCHANGED peek_buffer
  /\ unread' = Tail(unread)

\* begin() forgets the byte peek() has taken.
UsbBegin ==
  /\ peek_buffer' = <<>> /\ unread' = SubSeq(unread, Len(peek_buffer) + 1, Len(unread))
  /\ UNCHANGED got

HostSends(packet) ==
  /\ Len(got) < 2
  /\ got' = Append(got, packet) /\ unread' = unread \o packet
  /\ UNCHANGED peek_buffer

RxNext ==
  \/ Peek \/ Read \/ UsbBegin
  \/ \E packet \in BoundedSeq(EpByte, EpSize) :
       HostSends(packet) /\ (HostZlp \/ packet # <<>>)

\* The two directions share nothing.
PipeNext ==
  \/ TxNext /\ UNCHANGED rxVars
  \/ RxNext /\ UNCHANGED txVars

PipeSpec == TxInit /\ RxInit /\ [][PipeNext]_<<txVars, rxVars>>

-------------------------------------------------------------------------------
\* What is in the banks and what USB_Send() has left are the promised bytes, each once
\* and in order, whatever the start of a frame released between the two locks; and peek()
\* takes a byte out of its bank that read() still returns, before all others.
PipeKeepsBytes ==
  /\ FlattenSeq(sent) \o bank \o rest = due
  /\ peek_buffer \o FlattenSeq(got) = unread

\* A packet that fills its bank does not end a transfer: the host gets another one, with
\* no byte if need be, unless a call gave up (USBCore.cpp:314-316).
FullIsFollowed ==
  \A size \in {"full", "full again"} : (last = size) ~> (last # size \/ cut)

\* Both banks are never full for ever: one the program has read is free for a packet.
RxMovesOn == (Len(got) = 2) ~> (Len(got) < 2)
===============================================================================
