------------------------------- MODULE LedLoop -------------------------------
(***************************************************************************)
(* What loop() of the sketch does with the messages that receiveMsg()      *)
(* hands it: the mode, the booting animation of each node, the position of *)
(* the load wave, and the status LED that shows a message came in.  A turn *)
(* of loop() runs to its end before anything else happens, so it is one    *)
(* action; time passes between the turns.                                  *)
(*                                                                         *)
(* Floating point is left out where its values are few: a booting status   *)
(* is the number of times 0.01f was added (0 is off, from Half on it is    *)
(* 0.5 and more, from Full on 1 and more; with 32-bit floats Half is 51    *)
(* and Full is 101), and the wave moves in steps of 1/200 LED.             *)
(***************************************************************************)
EXTENDS Integers, FiniteSetsExt

CONSTANTS
  Nodes,       \* the nodes of the cluster: 16 bytes of a message
  Mode,        \* the modes a message can have
  Data,        \* what the data bytes of a message can be, by node
  Half, Full,  \* summands to reach red at its brightest, and green
  LedCount,    \* LED_COUNT
  FlashDelay,  \* STATUS_LED_FLASH_DELAY
  Wrap,        \* the number of values millis() takes before it starts over
  Turn         \* how long a turn of loop() may take, in milliseconds

\* ModeBits
NONE == 0
BOOT == 1
LOAD == 2

Message   == [mode : Mode, data : Data]
NoMessage == [mode |-> -1, data |-> <<>>]   \* receiveMsg() returned false

ASSUME NodesAssumption == IsFiniteSet(Nodes) /\ Nodes # {}
ASSUME MessageAssumption == Mode \subseteq 0 .. 15 /\ Data \subseteq [Nodes -> 0 .. 239]
ASSUME StepAssumption == Half \in Nat /\ Full \in Nat /\ 2 < Half /\ Half < Full
ASSUME LedAssumption == LedCount \in Nat /\ LedCount > 2
ASSUME TurnAssumption ==
  /\ FlashDelay \in Nat /\ Wrap \in Nat
  /\ Turn \subseteq Nat
  /\ \A t \in Turn : FlashDelay + t < Wrap

VARIABLES
  modeState,   \* s_modeState
  rcvBuffer,   \* s_rcvBuffer of loop()
  bootStatus,  \* s_bootStatus, in summands of 0.01f
  wavePos,     \* s_wavePos, in 1/200 LED
  statusLed,   \* is the LED on STATUS_LED_PIN on?
  flashStart,  \* s_statusLedFlashStart
  now,         \* millis()
  age,         \* the time since the latest message, at most FlashDelay + 1
  loopAt           \* "loop": a turn is due; "pass": its time has to pass

loopVars == <<modeState, rcvBuffer, bootStatus, wavePos, statusLed, flashStart, now, age, loopAt>>

LoopInit ==
  /\ modeState = NONE
  /\ rcvBuffer = [i \in Nodes |-> 0]
  /\ bootStatus = [i \in Nodes |-> 0]
  /\ wavePos = 0
  /\ statusLed = FALSE
  /\ now \in 0 .. Wrap - 1
  /\ flashStart = now
  /\ age = FlashDelay + 1
  /\ loopAt = "loop"

\* A version that leaves the nodes alone that are down.
BootAfterMessageKeep(status, data) ==
  [i \in Nodes |-> IF data[i] # 0 /\ status[i] = 0 THEN 1 ELSE status[i]]

\* A BOOT message sets the nodes that are not up to 0 and starts the others.
BootAfterMessage(status, data) ==
  [i \in Nodes |-> IF data[i] = 0 THEN 0
                   ELSE IF status[i] = 0 THEN 1 ELSE status[i]]

\* A version that stops the fade where red ends.
updateBootEffectHalf(status) ==
  [i \in Nodes |-> IF status[i] \in 1 .. Half - 1 THEN status[i] + 1 ELSE status[i]]

\* updateBootEffect(): a node that is booting fades on, until it is green.
updateBootEffect(status) ==
  [i \in Nodes |-> IF status[i] \in 1 .. Full - 1 THEN status[i] + 1 ELSE status[i]]

\* A version without the cap.
calcTotalLoadUncapped(load) ==
  MapThenSumSet(LAMBDA i : load[i], Nodes) \div Cardinality(Nodes)

\* calcTotalLoad(): the mean load, at most 100.
calcTotalLoad(load) ==
  LET mean == MapThenSumSet(LAMBDA i : load[i], Nodes) \div Cardinality(Nodes)
  IN  IF mean > 100 THEN 100 ELSE mean

Strip == 200 * LedCount

\* The wave moves 0.5 LED in a turn without load and 2 LEDs under full load,
\* and starts over when it has passed the last LED.
NextWavePos(pos, mode, load) ==
  LET p == IF mode = LOAD THEN pos + 100 + 3 * calcTotalLoad(load) ELSE pos
  IN  IF p > Strip THEN p - Strip ELSE p

\* Is the flash over?  Differences of unsigned numbers wrap as millis() does.
FlashOver(start) == (now + Wrap - start) % Wrap > FlashDelay

\* The booting status with which a turn of loop() sets out on its effects.
BootStart(msg) ==
  IF msg # NoMessage /\ msg.mode = BOOT THEN BootAfterMessage(bootStatus, msg.data) ELSE bootStatus

\* A turn of loop(), with the message that receiveMsg() returned or without.
Loop(msg) ==
  LET received == msg # NoMessage
      mode  == IF received THEN msg.mode ELSE modeState
      load  == IF received THEN msg.data ELSE rcvBuffer
      start == IF received THEN now ELSE flashStart
      boot  == BootStart(msg)
  IN
  /\ loopAt = "loop" /\ loopAt' = "pass"
  /\ modeState' = mode
  /\ rcvBuffer' = load
  /\ flashStart' = start
  /\ statusLed' = ((received \/ statusLed) /\ ~FlashOver(start))
  /\ bootStatus' = IF mode = BOOT THEN updateBootEffect(boot) ELSE boot
  /\ wavePos' = NextWavePos(wavePos, mode, load)
  /\ age' = IF received THEN 0 ELSE age
  /\ UNCHANGED now

\* The time a turn takes.
Pass(t) ==
  /\ loopAt = "pass" /\ loopAt' = "loop"
  /\ now' = (now + t) % Wrap
  /\ age' = IF age + t > FlashDelay THEN FlashDelay + 1 ELSE age + t
  /\ UNCHANGED <<modeState, rcvBuffer, bootStatus, wavePos, statusLed, flashStart>>

LoopNext ==
  \/ \E msg \in Message : Loop(msg)
  \/ Loop(NoMessage)
  \/ \E t \in Turn : Pass(t)

\* loop() is called again and again; the host may stay silent.
LoopSpec == LoopInit /\ [][LoopNext]_loopVars /\ WF_loopVars(LoopNext)

------------------------------------------------------------------------------
(* Properties.                                                              *)

LoopTypeOK ==
  /\ modeState \in Mode \cup {NONE}
  /\ rcvBuffer \in Data \cup {[i \in Nodes |-> 0]}
  /\ bootStatus \in [Nodes -> 0 .. Full]
  /\ wavePos \in 0 .. Strip
  /\ statusLed \in BOOLEAN
  /\ flashStart \in 0 .. Wrap - 1 /\ now \in 0 .. Wrap - 1
  /\ age \in 0 .. FlashDelay + 1
  /\ loopAt \in {"loop", "pass"}

\* While the booting animation is shown, exactly the nodes that the host last
\* reported up have left the dark, whatever load messages came in between.
BootMatchesReport ==
  modeState = BOOT => \A i \in Nodes : rcvBuffer[i] = 0 <=> bootStatus[i] = 0

\* After a turn the status LED is on if and only if a message came in at most
\* FlashDelay ago, also when millis() starts over in between.
FlashTellsMessage == loopAt = "pass" => (statusLed <=> age <= FlashDelay)

\* What the cluster's front shows is what the messages said: the booting nodes in
\* the boot mode, and the status LED in every mode.
ShownMatchesMessages == BootMatchesReport /\ FlashTellsMessage

\* A node that is booting ends up green, unless it goes down or the host
\* changes the mode.
BootEnds ==
  \A i \in Nodes :
    bootStatus[i] > 0 ~> (bootStatus[i] \in {0, Full} \/ modeState # BOOT)

\* A node on its way to green never falls back, except to dark and by a BOOT
\* message that reports it down: no load message and no repeated BOOT message
\* starts its animation again.
BootKeepsOn(i) ==
  bootStatus'[i] < bootStatus[i] => bootStatus'[i] = 0 /\ modeState' = BOOT /\ rcvBuffer'[i] = 0

\* Neither animation ever jumps.  A booting node falls back only to dark, and the
\* wave moves forward under load, by half an LED to two and over the end of the
\* strip too, and stands still in every other mode.
AnimationsMoveOn ==
  [][/\ \A i \in Nodes : BootKeepsOn(i)
     /\ IF modeState' = LOAD /\ loopAt = "loop"
        THEN (wavePos' + Strip - wavePos) % Strip \in 100 .. 400
        ELSE wavePos' = wavePos]_loopVars
==============================================================================
