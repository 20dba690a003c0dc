# Cluster coffer: a verification project

The cluster coffer is a portable cluster of sixteen NanoPi M4 compute nodes and
a NanoPC T4 head node.  Its repository holds the firmware of an LED controller
(an ATmega328P that shows on a strip of 98 LEDs which nodes have booted and how
busy they are), the shell scripts that build and deploy the software of the
nodes, and the plans of its mechanics and electronics.  This directory holds
TLA+ modules for the parts that carry logic of their own, configurations to
model-check them with TLC, and proofs checked by TLAPS.  All paths below are
relative to the repository.

## 1. Inventory

### 1.1 The LED controller (`coffer-led/`)

| Component | State | Operations | Talks to |
|---|---|---|---|
| Serial receive (`HardwareSerial.cpp`, `HardwareSerial_private.h`) | ring of 64 bytes, `_rx_buffer_head`, `_rx_buffer_tail`; the data register of the USART | `begin`, `end`, `available`, `peek`, `read`; receive interrupt | the line; `receiveMsg()` |
| Serial transmit (same files) | ring of 64 bytes, two indexes, `_written`; `UDRIE`, `TXC`, `UDRE` | `write`, `flush`, `availableForWrite`, `begin`, `end`; data register empty interrupt | the line |
| Framing (`Sketch.cpp:152-176`) | static buffer, index, mode | `receiveMsg()` | Serial; `loop()` |
| Effects (`Sketch.cpp:180-425`) | mode, message, booting status of 16 nodes, wave position, time of the last flash, 36 colours | `setup()`, `loop()` | `receiveMsg()`, the NeoPixel driver, `millis()` |
| NeoPixel driver (`Adafruit_NeoPixel.cpp`) | pixels, brightness, `endTime` | `setPixelColor`, `getPixelColor`, `setBrightness`, `show`, ... | `micros()`, the interrupt flag, the strip |
| Clock (`wiring.c`) | `timer0_overflow_count`, `timer0_millis`, `timer0_fract`; timer 0 | overflow interrupt, `millis()`, `micros()` | the driver, `loop()` |

`main()` calls `init()`, `setup()` once and `loop()` for ever.  There are no
threads; what runs concurrently is `loop()`, three interrupts, the USART, timer
0, the line, and the host behind it.  They share the two rings with their
indexes, the counters of timer 0 and the interrupt enable bit.  The knot of the
whole is `show()`: it keeps the interrupts off for almost 3 ms while it shifts
colours out, so the receive interrupt has to be able to wait, the baud rate is
chosen for it, and the clock stands still while the driver needs the time.

What is hard, and what makes each component right:

* *Serial receive*: the interrupt may come between any two accesses of `read()`.
  Right if the ring is a bounded first-in first-out queue, and what
  `available()` announced can be read.
* *Serial transmit*: three places a byte can be in, a shortcut past the ring, and
  calls with the interrupts off.  Right if it is a queue, `flush()` returns only
  when everything is out, and every call returns.
* *Framing*: bytes get lost, the device is reset in the middle of a message.
  Right if `loop()` sees only messages that were sent, whole, in order, once.
* *Timing*: right if no byte is overwritten in the USART or refused by the ring.
* *Effects*: right if what the strip shows agrees with the latest message,
  whatever came before it, and animations end.
* *Clock and latch*: right if time is counted exactly, read consistently, and the
  strip gets its pause.

### 1.2 Deployment (`software/`)

| Component | State | Operations |
|---|---|---|
| Builds (`10-build-u-boot.sh`, `20-build-linux.sh`, `do-board-sequence.sh`) | source trees, ready markers, boot loaders, kernel | clone, patch, build, each guarded by a marker |
| Images (`30-rootfs.sh`, `31-install-u-boot.sh`, `90-deploy-image.sh`, `zz-board-cfg.sh`) | images and their markers, one environment file, SD cards | fill, install the boot loader and the environment, copy |
| Head node (`setup-nanopc-t4-system.sh`) | exported file system, NFS server, address plan | flash with stop, copy, start and signal traps |
| Compute nodes (`setup-nanopi-m4-system.sh`) | root mount, overlay, log, `fstab` | read-only root with an overlay in memory |

These are sequential scripts, most of them under `set -e`.  What is hard about
them is running them twice, interrupting them, and what a failing step leaves
behind.

* *Builds and images*: right if a marker stands for something complete, wherever a
  run was stopped, and a card has the images, the addresses and the boot loader of
  its own node, although all nodes go through one environment file.
* *Head node*: right if no node reads an image that is being written, and the
  server runs again in the end.
* *Compute nodes*: the script that lays the overlay over the root runs without
  `set -e`.  Right if, whichever command fails, the node boots with a root, the
  file system shared by all nodes is not written to, and what the script reports
  is true.

### 1.3 The rest of the Arduino core (`coffer-led/led/ArduinoCore/`)

| Component | State | Operations |
|---|---|---|
| Strings (`WString.cpp`) | buffer, capacity, length of each object | copy, move, concat, replace, remove, trim, searches, comparisons |
| Streams (`Stream.cpp`) | the stream behind, local state of a call | `find*`, `parseInt`, `parseFloat`, `readBytes*` |
| Numbers (`Print.cpp`) | local buffer, sum of what `write()` took | `print`, `println` of integers and floats |
| Tones and pins (`Tone.cpp`, `wiring_digital.c`, `wiring_analog.c`) | timer 2, toggle count, `tone_pins`, ports | `tone`, `noTone`, `pinMode`, `digitalWrite`, `analogWrite`; compare interrupt |
| External interrupts (`WInterrupts.c`) | `intFunc[]`, `EICRA`, `EIMSK` | `attachInterrupt`, `detachInterrupt`; the interrupts |
| USB (`USBCore.cpp`, `CDC.cpp`, `PluggableUSB.cpp`) | banks of the endpoints, configuration, plugged modules, line state, watchdog | `write`, `flush`, `read`, `peek`, control requests; start-of-frame interrupt |

The sketch calls none of it, but it is in the repository and compiled with it.
What is hard: a write of several bytes while an interrupt uses them (the toggle
count, a function pointer, `EICRA`), the start of a frame between two turns of
`USB_Send()`, characters of a stream that cannot be read twice, buffers of which
no byte may be missing, and arithmetic at its edges.

### 1.4 No program

`electronics/`, `hardware/` and `docs/` contain no program; the patches change
device trees and configurations, and the drawings of the case are data.

## 2. The modules

| Module | Models | State and actions |
|---|---|---|
| `RxQueue` | what Serial receive promises | a bounded queue; bytes may be lost before they enter it |
| `SerialRx` | Serial receive | every access to the ring is a step; `RxCompleteIrq` comes between any two of them unless the interrupts are off |
| `TxQueue` | what Serial transmit promises | a bounded queue |
| `SerialTx` | Serial transmit | every access to the ring or the USART is a step; `_tx_udr_empty_irq` is called by the interrupt and by the calls that wait with the interrupts off |
| `MessageChannel` | what the framing is for | the device acts on whole messages, in order, each at most once, and may restart |
| `ReceiveMsg` | `receiveMsg()` and its host | `ReadHeader` and `ReadData` are turns of the loop, `ReturnTrue` and `ReturnFalse` its two returns; `Vanish` loses a byte, `Reset` and `Setup` restart the device |
| `CofferLed` | `loop()`, the line and the interrupt in time | `Tick` passes time, bytes are counted |
| `LedLoop` | the state of the effects | `Loop` is a whole turn of `loop()`, with a message or without, `Pass` the time it takes |
| `LedFrame` | the strip; extends `LedLoop` | `LoopTurn` is `Loop` together with the frame it draws, built from one operator per function of the sketch and the driver |
| `StripTimer` | timer 0, `millis()`, `micros()`, the latch in `show()` | `Tick` is the timer, every other action is code |
| `BuildPipeline` | the numbered scripts, one run after the other, for all nodes | each command that leaves something is a step that ends, fails or is interrupted half way; `marker` is what a later run sees |
| `FlashRootfs` | `flash-m4-rootfs.sh` | commands that end or fail, the trap of a signal, the automount |
| `NodeRoot` | `root-ro`, the initramfs script in `setup-nanopi-m4-system.sh` | each command is a step that succeeds or fails; `at` says what is mounted where |
| `WString` | the class `String` | a step is a call on up to two objects, every `realloc()` of which may fail; `text` is what the caller thinks an object holds |
| `TextStream` | the searches and the parsing of `Stream` | a step takes one character or finds that none comes; `taken` is what has been read |
| `TextPrint` | the numbers of `Print` | a step writes a character or is refused; the text is read back |
| `ToneTimer` | `tone()`, `noTone()` and the pin functions on timer 2 | each access to what the interrupt changes is a step; `Isr` comes between any two |
| `ExtInterrupt` | attaching and detaching of external interrupts | byte by byte; a handler is one step |
| `UsbPipe` | the data endpoints in both directions | what runs under a lock is a step; `StartOfFrame` and the host come between |
| `UsbControl` | descriptors, configuration, plugging, line state | a control request is a step |
| `MCDeploy`, `MCLibrary` | the scripts, and the rest of the core | one part of them runs at a time, the others stand still: they share no variable |
| `ProofLemmas` | no code: indexes of a ring, quotients and remainders, sums over sets | what the proofs of several modules rest on |

`ReceiveMsg` uses `Serial` as the queue that `SerialRx` implements; `CofferLed`
shows that this queue neither overruns nor fills; `LedLoop` takes the messages
that `ReceiveMsg` hands on.  Names are those of the code, in its style.  The
operators named "a version that ..." in comments are not part of the models:
they are plausible mistakes, each of which one property detects.

### Abstractions

* A byte is a number where its value matters (`ReceiveMsg`: header or data), a
  member of a small set where only its identity does (`SerialRx`, `SerialTx`),
  and just counted in `CofferLed`.
* An access to a register or a one-byte variable is atomic.  The indexes of the
  rings are one byte wide because the rings are not larger than 256, which is
  the assumption on `RxSize` and `TxSize`.
* The processor is slow against nothing but the timer and the line: two facts
  about time are used.  In `SerialTx` a byte on the line outlasts the few
  instructions, run with interrupts off, between loading it and clearing `TXC`
  (`JustLoaded`).  In `StripTimer` the timer ticks at most once between the
  `cli()` of `millis()` or `micros()` and its end, since a tick is 64 cycles.
* Floats are the fractions they stand for.  The booting status is the number of
  times 0.01f was added: in 32-bit floats the status is 0.5 or more after 51
  summands and 1 or more after 101, and these are the values of `Half` and
  `Full`.  The wave moves in steps of 1/200 LED, exactly.
* In `BuildPipeline` what a step makes is `none`, `part` (interrupted), `good` or
  `bad` (made of something that is not good); time stamps and contents are left
  out.  One run goes on at a time.
* In the scripts every command may fail at any time; in `FlashRootfs` a signal is
  looked at when the command has ended, as a shell does.
* Characters of texts are members of a small set with the classes the code tells
  apart: digit, sign, point, white space, other.  `Print` produces digits as
  numbers; a float is an exact number of `Parts`-th parts.
* In `NodeRoot` a mount is the place it is moved to, and a file system is written
  to or not.  What a user does in the shell of a panic is left out: it ends with
  everything as it was.
* Colours are red and green; blue is 0 throughout the sketch.

## 3. The runs

| Run | Instance | Shows |
|---|---|---|
| `serial_rx` | ring of 4, 2 byte values, 6 arrivals | the ring fills, overflows and wraps; it refines `RxQueue`, and what `available()` announced can be read |
| `serial_tx` | ring of 3, 2 byte values, nothing bounded | it refines `TxQueue`; `flush()` tells the truth; all calls return |
| `serial_tx_reopen` | ring of 2, `begin()` at any time | finding 2 |
| `receive_msg` | 2 messages of 3 data bytes, 2 modes, any data byte lost, one restart | it refines `MessageChannel`; no whole message is passed over; each is handed on |
| `receive_msg_header` | 2 messages of 2 data bytes, headers lost | finding 1 |
| `sketch` | timing: byte 4, `show()` 3, rest of a turn 8, message 3, ring 6 | no overrun, no drop, and the ring empties again and again |
| | effects: 2 nodes, 3 LEDs, loads 0 and 150, fade of 4 steps; `millis()` of 5 values, delay 2 | status of the nodes and status LED fit the messages (`ShownMatchesMessages`); booting animations end; no animation jumps or runs backwards (`AnimationsMoveOn`), also across the wrap |
| `led_frame` | 16 nodes, 98 LEDs, fade of 101 steps | the frames of the boot effect, and those of the load effect at every position the wave takes |
| `strip_timer` | overflow of 8 ticks of 150 us, 11 overflows, `micros()` wraps after 4 | `millis()` is exact and returns no half-changed value, `micros()` is exact, the strip gets its latch |
| `deploy` | 2 compute nodes and the head, any command fails, any number of runs; drivers overlay, aufs, none, two unsupported | markers are true, cards fit, flashing ends serving, the node has a root, its log and `fstab` are truthful and the shared root is untouched (`LayeredRootHolds`) |
| `node_root_unsupported` | an unsupported driver that is a kernel module | finding 3 |
| `library` | 2 strings of 2 characters, 4 targets of searches, numbers of 4 bits, 2 pins, 2 lines, packets of 2 bytes, 3 modules | see below |
| `library_replace` | 1 string, a replacement that begins as its word ends | finding 4 |

The properties of `library`:

| Property | Says |
|---|---|
| `BufferHoldsText` | over any sequence of calls, also with no memory left, an object holds the text its caller expects or says that it is invalid; length, capacity and terminator fit it, if no longer replacement begins as its word ends (finding 4) |
| `QueriesAgree` | searches and comparisons agree with their definitions on texts, at and behind the last character too |
| `FoundFirst` | `findMulti()` stops at the first match there is, although broken-off matches are not read again |
| `ParsedNumber` | a number is parsed up to the first character that is not part of it, which stays in the stream |
| `NumbersReadBack` | a printed number, read again, is the number, also the smallest long and one rounded over the point |
| `TimerMatchesTone` | between two calls timer 2 either plays the tone of `tone_pins`, at the pitch that was asked for, or is given back to PWM |
| `EndsAfterToggles`, `ToneEnds` | a tone that ends has had the toggles that were asked for and leaves its pin low; a tone with a duration ends |
| `HandlerIsWhole` | no interrupt finds half a function pointer or another line's sense |
| `PipeKeepsBytes`, `FullIsFollowed`, `RxMovesOn` | the pipes lose and repeat nothing unless a call says so; a full packet is followed by another; what the host sends can be read |
| `DescriptorIsWhole`, `EndpointsAreApart` | a descriptor is as long as it says or as asked for, in full packets but the last; no two modules share an endpoint |
| `TouchIsCancelled` | while the port is open after a touch at 1200 baud, the watchdog and the memory that the touch has used are the sketch's again |

Some constants switch on uses that the code does not support.  They are off in
the runs, and each of these properties is violated when its constant is TRUE:

| Constant | Use | Property |
|---|---|---|
| `Reopen` (`SerialTx`) | `begin()` on an open port | `WriteReturns`, finding 2 |
| `Retrigger` (`ToneTimer`) | `tone()` for a pin whose tone is just ending: the interrupt gives the timer back behind the check of `Tone.cpp:132` | `TimerMatchesTone` |
| `SharePwm` | `analogWrite()` on a pin of timer 2 while a tone plays: `TCCR2A` is read, changed and written without a lock | `TimerMatchesTone` |
| `Careless` (`ExtInterrupt`) | attaching a line that is attached, or within handlers | `HandlerIsWhole` |
| `HostZlp` (`UsbPipe`) | packets without a byte from the host: their bank is never released | `RxMovesOn` |
| `LatePlug` (`UsbControl`) | a module plugged after the device is configured | `EndpointsAreApart` |
| `Twiggle` | the host says twice that the port is closed: the second time saves the key as the sketch's data, despite `CDC.cpp:140` | `TouchIsCancelled` |

Why the bounds are enough.  The rings wrap, overflow and are empty within their
instance, and an index has no state beyond its position.  In `receive_msg` two
messages give a cut message and its successor, which is the one whose bytes
could be mixed up; a third adds nothing, since `receiveMsg()` remembers only one
message.  The real numbers of `CofferLed` are 66640 cycles of 16 MHz for a byte
at 2400 baud (the divider makes it 2401), 47040 for `show()` of 98 LEDs, and
16 data bytes; the runs keep what matters, the order of the times, and
take the assumptions at their edge, but for a turn of `loop()`, which is one tick
shorter than a message: else the ring need never be empty.  In `strip_timer` fractions
carry every fifth overflow, `micros()` starts over within the bound, and `show()`
lasts longer than two overflows, so that time is really lost.  In `deploy` two
compute nodes are needed for one to get what is another's, and the head for the
other board; runs are not bounded.  In `library` texts are longer than the
shortest that `realloc()` has to move, words overlap with themselves, numbers have
both ends of their range, the toggle count borrows between its bytes, a write is
longer than the space in a bank, and a descriptor is cut by the host and by the
packet.  The frames are not
scaled down: they are of the real size, with messages in which all nodes, or all
but one, or all but one quarter are alike.

Deadlock is checked except where the system of the instance may stop: when the
host has sent all its messages (`receive_msg*`), when the bound on overflows is
reached (`strip_timer`), when a boot has ended (`deploy`, `node_root_unsupported`),
and in `serial_tx_reopen`, where a call that hangs is the finding.

### Fairness

`loop()` is called by `for (;;)` in `main()`, an interrupt that is pending and
enabled is served by the hardware, and time, a byte on the line and timer 0 go
on by themselves.  So the steps of the device, of its interrupts and of the USART
are weakly fair, each as a whole.  Nothing is assumed of the host and the line:
they may fall silent at any time, even in the middle of a message.  A program that uses
Serial may stop between two calls but not within one.  In `library` the
same goes for a program in a call, timer 2 and its interrupt; the frames of USB
start every millisecond, a host that has opened the port reads it, and a program
that is to get what came over USB reads it.  The scripts have no fairness: any run
may be the last.

## 4. What is proved

| Theorem | Module | For all |
|---|---|---|
| `TypeCorrect`, `RingInvariant`, `AvailableHolds`, `ImplementsFifo` | `SerialRxProofs` | ring sizes of 2 to 256, byte sets |
| `LoopInvariant`, `NoByteOverwritten`, `NoByteDropped` | `SketchProofs` | times, message lengths and rings that satisfy the assumptions |
| `TimerInvariant`, `MillisAreExact`, `MicrosAreExact`, `TimeKept`, `LatchIsHeld` | `LibraryProofs` | timers, widths of `unsigned long`, latch times and lengths of `show()` |
| `TxInvariant`, `UdrieIsRight`, `ImplementsTxFifo`, `FlushIsComplete` | `SerialTxProofs` | ring sizes of 2 to 256, byte sets; `begin()` is not called on an open port |
| `FramingInvariant`, `ImplementsChannel`, `NothingPassedOver` | `ReceiveMsgProofs` | message lengths, modes, losses of data bytes, numbers of messages and restarts; no header is lost, and Serial has room for one |
| `LedInvariant`, `ShownIsTrue`, `AnimationsNeverJump` | `SketchProofs` | sets of nodes, data bytes, strips, lengths of the fade and of the flash, widths of `millis()` |
| `FrameInvariant`, `BootIsShown`, `LoadIsShown`, `WaveIsShown` | `SketchProofs` | messages and times, for the sizes of the sketch: 16 nodes, 98 LEDs, a boot shown in 101 steps (`RealSize`) |
| `HandlersAreWhole` | `LibraryProofs` | lines and handlers, of a program that attaches to detached lines only (`~Careless`) |
| `ToneInvariant`, `ToneHasTimer`, `TonesEndOnTime` | `LibraryProofs` | pins, frequencies, durations and sizes of a byte; without the uses `Retrigger` and `SharePwm` |
| `PipesKeepBytes` | `LibraryProofs` | sizes of a bank, numbers of tries, byte sets, empty packets or none |
| `EndpointsStayApart` | `LibraryProofs` | sets of modules, numbers of endpoints; without `LatePlug` |
| `TouchComesToNothing` | `LibraryProofs` | key, data and place of the key; without `Twiggle` |
| `DescriptorStaysWhole` | `LibraryProofs` | sets of modules, sizes of a packet and of the descriptors, lengths the host asks for |
| `SearchFindsFirst` | `LibraryProofs` | lists of words, empty ones too, texts and time-outs |
| `NumberIsParsed`, `ValueFits` | `LibraryProofs` | digits, ignored characters and texts; `ValueFits` for nine characters at most |
| `StringHoldsText`, `ReplaceStaysInside` | `StringProofs` | characters, texts, words and memory, whichever call finds none; where no longer replacement begins as its word ends (`PairsApart`) |
| `QueriesAnswerRight` | `StringProofs` | the same, with texts of fewer than 2^16 characters |
| `PrintedReadsBack` | `StringProofs` | bits of a `long`, bases, parts of a float, decimal places |
| `MarkersAreTrue`, `CardsFit`, `FlashServes` | `DeployProofs` | sets of nodes; any number of runs |
| `RootInvariant`, `TypeCorrect`, `NodeHasRoot`, `SharedRootUntouched`, `SuccessIsTrue`, `FstabIsTrue`, `LayeredRootIsTrue` | `DeployProofs` | drivers on the command line, kernel modules |

*SerialRx.*  The inductive invariant says that the indexes are in range, that a
`read()` that has passed its check has something to read, and that the byte it
has loaded is still the oldest one.  The last part needs that the interrupt
never writes the slot at the tail: that is why the ring holds one byte less than
its size.  The refinement maps the ring to a sequence; each step is shown to be
a step of the queue or to leave the sequence alone.

*SerialTx.*  The inductive invariant ties each of the three places a byte can be
in to the flags: a byte waits in the data register only behind one on the line, the
interrupt is enabled exactly while the ring holds something, but for the last steps
of its handler, and `TXC` is set only when the line is free (`TxcState`), except
between loading a byte and clearing the flag.  The shortcut of `write()` past the
ring keeps the order because `UDRE` is set and the ring empty at once, and the
interrupt, being disabled, cannot change that before the byte is loaded.

*ReceiveMsg.*  The bytes that wait in Serial carry, for the proof only, the number of
their message and their own number in it.  They wait in the order of sending
(`QueueInOrder`), and so what `receiveMsg()` has read since a header has rising
numbers: its index never runs ahead of the number of the byte it has read
(`ReadSoFar`).  At the end of the buffer both must be `MsgLen`, hence nothing is
missing in between and every byte is in its place.  A lost header would break the
order between the header and the data that follow it, which is finding 1; the
hypothesis `RoomForHeader` says that a full ring does not lose one either, which
follows from `NoByteDropped`.  `NothingPassedOver` adds where a whole message is:
all of it waits, one byte behind the other, or its beginning has been read and the
rest waits (`WholeInv`).  No byte fits between two that follow one another in the
order, so what the host sends next comes right behind.

*ExtInterrupt.*  The line that a call is about is masked (`LineIsMasked`), so nobody sees
what it writes byte by byte; and `EICRA` as it was read stays true of every line that
may interrupt (`ReadIsFresh`), since handlers change no senses.

*ToneTimer.*  Between two calls timer 2 plays the tone of `tone_pin` or is given back
(`SettledOutside`); within a call `ToneSoFar` says what is already the new tone's, and
that an old one cannot end in between.  The toggles a tone has had and those the two bytes
of the counter still stand for add up to the number that was asked for (`Counted`); the
interrupt comes between the two writes of `tone()`, and borrows from the high byte, so the
proof reads the counter as a number (`CountOf`) and shows what each write makes of it
(`CountSplit`).

*UsbPipe.*  `TxKept` and `RxInv` are equations between sequences: what has left, what is in
the banks and what the call has still to send are what it was called with.  There are two
banks at most, so that joining them (`FlattenSeq`) needs no induction (`FlattenBanks`).

*UsbControl.*  `Ranged` puts the plugged modules one behind the other, up to the next free
endpoint and interface, and `PluggedKept` says that `InitEndpoints()`, which stops at the
first endpoint without a type, stops behind them.  For the touch, `MemoryKept` says where
the sketch's word and watchdog are: in place, or where the cancellation finds them; the
port is closed as long as a touch is armed (`Closed`), and a second touch would save the
key as the sketch's word, which is `Twiggle`.

For the descriptors the invariant is only that the list of modules is one; the work is in the
folds.  `Sent(c, e, s, k)` says what a transfer that has taken `k` bytes looks like - full
packets, the rest in the bank, nothing behind the end - and holds after every byte
(`SentStep`), hence after a part (`SentAll`) and after the list of modules (`SentPlugged`),
with a number of bytes that is the same when nothing is sent and only counted.  The list is
folded by a recursive function in the community modules: that its equation has a solution is
proved (`FoldExists`), as is that the sum of the packets is the sum (`TotalSteps`).

*TextStream.*  `SearchInv` says that for each word as much is counted as matched as the text
read so far ends with, the longest such part.  A character that does not follow sends the
count back through the shorter matches, and `AdvanceFollows` shows that none is passed over:
a shorter match of the longer text would have been a match of the text before it.
For a parsed number `ParseInv` says after every character what the property says at the end,
and that the flag `isFraction` stands for a point (`Says`).  The value is a sum of digits times
powers of ten; one more digit moves all others up by one, and the sum is ten times what it was
(`NumberGrows`).  That the recursive function of the powers exists is proved
(`NatRecursion`, from the folds).  The model's value has no width; `ValueFits` says how far that
is the program's `long`.

*WString.*  `StrInv` says of each object that it has no buffer, or one with a capacity, a
length within it and a terminator behind, and that one which was not moved away holds the
text its caller expects (`Holds`).  Most calls are one write at a place in the buffer, and
the lemmas say what stands there afterwards.  `replace()` is a loop, whose turns are a
recursive function; that it exists is proved (`TurnsExist`), as is that the loop comes to its
end in as many turns as the model gives it (`TurnsEnd`).  From left to right the invariant of
the loop is that the result so far stands in front, and that what is left of the old text
stands untouched behind it (`Downs`).  From right to left (`Ups`) the buffer holds the old
text up to some place and behind it what becomes of the rest (`Mixed`); the next search
goes over this mixture, and might find a word across the border.  `Apart` is what
keeps it from that: no end of the word is the start of the word or of the replacement.
Without it the property is false, which is finding 4; an `ASSUME` of `MCLibrary` shows that
the pairs of the run satisfy it.
The searches then follow from what the buffer holds; a comparison is decided at the first
place where the texts differ, the terminators included (`Differ`).  `startsWith()` subtracts
two lengths of 16 bits, and for a word longer than the text the difference wraps: that the
answer is still no is part of the proof.

*TextPrint.*  `PrintInv` relates what is out to what is still to be written: as long as no
character was refused the two make up the text of the call, and after a refusal they stay
too short for ever (`Written`), so that a count that is full means a text that is out.  The rest is about
the text.  `printNumber()` is a loop again, of which every turn leaves
`left * base^k + what is written = n` (`Made`); a number below `2^Width` is 0 after `Width`
turns at most in any base, which is why `buf` never overflows, and in base 10 the negation of the smallest
`long` is computed as the program does.  A text is read from left to right; a digit behind it
multiplies by the base (`AppendReads`), one in front counts as a power (`PrependReads`).
For a float, what has been printed times `Parts` and the rest that is left make up the
number after each place (`FractionReads`); the rest is less than a unit of the last place,
and half a unit was added before, so that no other number with as many places is nearer
(`IsNearest`).  Floats are exact in the model: numbers of `Parts`-th parts, not of a mantissa.

*CofferLed.*  Neither property is inductive.  `NoOverrun` needs that a byte which
waits in the USART came in less than `show()` ago (`PendingIsRecent`); with
`BaudAssumption`, `ShowTime < ByteTime`, the next one comes after the interrupt.
`NoDrop` needs a measure: everything the line has delivered and no message has
used up, in units of line time, plus the time until `receiveMsg()` is called
again, never exceeds a message plus a turn of `loop()` (`BacklogBounded`).
Receiving takes a whole message off it, and between two messages it grows by
at most a turn.  `LoopAssumption` says that a turn is no longer than a message is
on the line: 66.6 ms at 2400 baud, of which `show()` takes 3.  That the
arithmetic of a frame stays below the rest is an assumption about the compiled
sketch; nothing here measures it.

*LedLoop.*  The status LED is switched by a difference of two times, taken modulo the width
of `millis()`.  `FlashInv` says that the difference is the age of the last message while the
flash lasts, and that the turn after it finds it over before the difference can start
again (`ElapsedGrows`).  The booting status follows the last message node by node
(`BootMatchesReport`).  The step of the wave is a percentage since the sum of the loads is
at most 100 times the number of nodes (`TotalLoad`, a fact about sums that is proved by
induction over the subsets of the nodes), so that one subtraction of the strip keeps the
wave on it (`WaveType`).

*LedFrame.*  `FrameInv` says that after a turn the strip is what the effect of this turn makes
of its message: `LoadLit` of the loads and the place of the wave, or `BootLit` of a booting
status in which the reported nodes are lit.  Reading a pixel back loses nothing because the
brightness stays 0, which the driver takes for full.  What the properties say about a frame is
then arithmetic: `round()` is half a unit off at most, a colour of a load keeps its brightness
through the mixing of neighbours and the stretching over the ring (`WeighedColour`), a sum over
a quarter is that of its four nodes (`QuarterColour`), and the distance `imposeWave()` computes
is close enough to the one on the ring (`WaveDistance`).

*StripTimer.*  `CallInv` says which program points hold the interrupts off, that
an overflow flag found by `cli()` is recent, and what `micros()` has read so far.
With it `micros()` is exact: a flag seen with a counter reading below the last one
means an overflow before the reading, and the reading 255 cannot follow an
unserved overflow within the latency `MaxLatency`.  `MillisExact` is an
equation between the counters that each interrupt preserves.  For `LatchIsHeld`
the clock must not be ahead of real time: what it loses in `show()` only makes
the pause longer, and `endTime` is read after the last colour is out.  The
difference modulo the width is never more than the difference of the real times,
so a wrap can only make `show()` wait longer.

*BuildPipeline.*  A marker is set by the step after the one that made the thing, so the
invariant says for each step which markers are missing or set and what the steps
before it have left (`UbootInv`, `LinuxInv`, `ImageInv`); what outlives a run is
covered by the markers alone.  `CardInv` follows the environment from its one file to
the image and the card of the node the run is for.

*FlashRootfs.*  `FlashInv` says that the server runs only while the file system is
mounted and whole, but for a run that a failing command has ended.

*NodeRoot.*  Each property speaks of the end of the script, so `RootInv` says
where the file systems are at each of its commands (`Places`), that mount
parameters are missing exactly after a panic (`OnePanic`), and when a report may be made
(`Reported`).  The shared root stays untouched even after a panic: from the moment
paths under `rootmnt` are written the root is no longer there.

Only model-checked is all liveness (`HandedOn`, `BootEnds`, `RingDrained`, `CallReturns`,
`ToneEnds`, `FullIsFollowed`, `RxMovesOn`), since fairness and ENABLED are out of its reach.

## 5. Findings

1. *Framing* (`receive_msg_header`, doc and code disagree).
   `coffer-led/Readme.md:41` says that "the arduino keeps track of the header to
   know where a message starts".  After a complete message `receiveMsg()` sets
   its index back but keeps no note that it now needs a header
   (`Sketch.cpp:168-173`).  If the next header is lost, sixteen data bytes are
   acted on in the mode of the message before.
2. *Serial transmit* (`serial_tx_reopen`, a bug that the sketch cannot meet).
   `begin()` on an open port switches `UDRIE` off (`HardwareSerial.cpp:149`) and
   keeps the ring.  If the ring is full, `write()` waits for ever for the
   interrupt that, as its comment says, "will free up space for us".  The sketch
   calls `begin()` once.
3. *Compute nodes* (`node_root_unsupported`, comment and code disagree).
   "stop here if unsupported" (`software/setup-nanopi-m4-system.sh:264`) is a call
   of `panic`, which returns when the user leaves its shell.  The script goes on
   without mount parameters; if the kernel has a module of that name, the root is
   moved away and `mount` without parameters reports success.  The properties
   about the root, except that the shared one is untouched, therefore speak of
   boots without a panic.

4. *Strings* (`library_replace`, a bug that the sketch cannot meet, as it uses no `String`).
   A replacement that is longer than its word is done from right to left, and each search
   goes over the text as it is by then (`WString.cpp:675`).  A character in front of a
   replacement and the beginning of the replacement may make the word again: `replace("ba",
   "abb")` makes of `bba` first `babb`, then `abbbb`.  The room was counted from the left, in
   the text as it was, and the second replacement is written behind the end of the buffer,
   contrary to the comment "compute size needed for result" (`WString.cpp:667`).

Remarks without a run:

* The notes of that script name the driver `overlayfs` (line 201), the code accepts
  only `overlay` (line 266).
* `software/README.md:4` says that the scripts "just remove stuff that's in the way at
  the start".  A `git am` that was interrupted is not: `git reset` leaves its state, and
  no later run gets past the patches (`rebasing` in `BuildPipeline`).
* The loop of `software/README.md` over the nodes, `for i in seq 0 15`, runs over the
  three words instead of sixteen numbers.
* A `flash-m4-rootfs.sh` that is interrupted after a part of the image was written starts
  the server on it, if it can be mounted; `FlashEndsServing` speaks of the time of
  writing.  Two runs of it at a time are not locked against one another.
* A node tries to boot over the network once (`31-install-u-boot.sh:18`).
* `USB_Flush()` takes no lock (`USBCore.cpp:648`): between the count and the release
  the start of a frame may release the bank, and the host gets an empty packet.
* `replace()` of a word that overlaps itself, as `aa` in `aaa`, takes the left one if the
  replacement is as long or shorter, and the right one if it is longer.
* `replace()` of a `String` without memory leaves the text as it was, with a comment that
  the user should be told (`WString.cpp:673`).

## 6. Not modelled, and the plan

Of the firmware: the waveform of `show()` (counted instructions), functions of the driver
that the sketch does not call (`fill`, `ColorHSV`, gamma tables, changes of the length),
`delay()`, and `serialEventRun()`, which finds no `serialEvent()` to call.  Of the core:
`analogRead()`, `pulseIn()`, `shiftIn()` and `shiftOut()`, timers other than 0 and 2,
`IPAddress`, random numbers, conversions from strings, suspend and wake-up of USB, the
ports that the ATmega328P does not have (the same class again), and calls of a `String`
with itself as the argument, on which `strcpy()` has no meaning.  Of the scripts:
partitions, loop devices and mounts of the images, with them two runs at a time, the
installation of packages, network boot and the network configuration.  The map covers
about a third of the lines of the implementation; most of the rest are register
definitions, tables of colours and pins, and third-party code for other chips.

What could come next:

1. Loop devices and `/mnt` with two runs of the image scripts at a time.
2. A node that boots over the network while the head is flashed.

## 7. Running it

    tlc -workers 2 -config MCSerialRx.cfg SerialRx
    tlc -workers 2 -config MCDeploy.cfg MCDeploy
    tlapm SerialRxProofs.tla

`PROJECT.json` lists for each run its module, configuration and properties, for
each definition the lines it stands for, the hazards and the properties that
answer them, and for each property a version of the code that breaks it.
