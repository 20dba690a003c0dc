------------------------------- MODULE MCLibrary ------------------------------
(***************************************************************************)
(* The parts of the Arduino core beside the serial port and the clock.     *)
(* They share no variable, so that a behaviour exercises one of them and   *)
(* leaves the others as they are: what holds in each of them holds in all. *)
(***************************************************************************)
EXTENDS WString, TextStream, TextPrint, ToneTimer, ExtInterrupt, UsbPipe, UsbControl
CONSTANT Part     \* the parts that are run
VARIABLE part

MCLiteral == {<<>>, <<"a">>, <<"b", "a">>}
MCPair == {<<<<"a">>, <<"b", "b">>>>, <<<<"b", "a">>, <<"a">>>>, <<<<"b", "a">>, <<"b", "b", "b">>>>}
MCClash == {<<<<"b", "a">>, <<"a", "b", "b">>>>}
\* The replacements of the one run are as StringHoldsText asks, those of the other are not.
ASSUME ReplacementsAssumption ==
  /\ \A q \in MCPair : LongerApart(q)
  /\ \E q \in MCClash : ~LongerApart(q)
MCRank == [c \in {"a", "b"} |-> IF c = "a" THEN 97 ELSE 98]
MCTargets == {<<<<"a", "b", "a", "a">>>>, <<<<"a", "a", "b">>, <<"b", "a", "b">>>>, <<<<"a">>, <<>>>>}
MCDigit == [c \in {"0", "7"} |-> IF c = "0" THEN 0 ELSE 7]
MCModule ==
  {[name |-> "keyboard", endpoints |-> 1, interfaces |-> 1, size |-> 3],
   [name |-> "midi", endpoints |-> 2, interfaces |-> 2, size |-> 4],
   [name |-> "mouse", endpoints |-> 1, interfaces |-> 1, size |-> 2]}

libraryVars == <<strVars, streamVars, printVars, toneVars, extVars, txVars, rxVars, controlVars, part>>

\* Only the line state of the USB port depends on the boot loader.
MCInit ==
  /\ part \in Part
  /\ StrInit /\ StreamInit /\ PrintInit /\ ToneInit /\ ExtInit /\ TxInit /\ RxInit /\ ControlInit
  /\ part # "usb line" => keyPos = "RAMEND-1"

Only(p) ==
  /\ part = p /\ UNCHANGED part
  /\ p # "string" => UNCHANGED strVars
  /\ p # "stream" => UNCHANGED streamVars
  /\ p # "print" => UNCHANGED printVars
  /\ p # "tone" => UNCHANGED toneVars
  /\ p # "interrupt" => UNCHANGED extVars
  /\ p # "usb tx" => UNCHANGED txVars
  /\ p # "usb rx" => UNCHANGED rxVars
  /\ p \notin {"usb plug", "usb line"} => UNCHANGED controlVars

MCNext ==
  \/ Only("string") /\ StrNext
  \/ Only("stream") /\ StreamNext
  \/ Only("print") /\ PrintNext
  \/ Only("tone") /\ ToneNext
  \/ Only("interrupt") /\ ExtNext
  \/ Only("usb tx") /\ TxNext
  \/ Only("usb rx") /\ RxNext
  \/ Only("usb plug") /\ PlugNext
  \/ Only("usb line") /\ LineNext

\* A program goes on in a call and takes what comes over USB; the timer does not stop
\* counting, frames start every millisecond, and the host reads.
MCSpec ==
  /\ MCInit /\ [][MCNext]_libraryVars
  /\ WF_toneVars(part = "tone" /\ ProgramStep) /\ WF_toneVars(part = "tone" /\ Isr)
  /\ WF_txVars(part = "usb tx" /\ TxStep) /\ WF_txVars(part = "usb tx" /\ StartOfFrame)
  /\ WF_txVars(part = "usb tx" /\ HostReads) /\ WF_rxVars(part = "usb rx" /\ Read)
===============================================================================
