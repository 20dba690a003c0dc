------------------------------ MODULE UsbControl ------------------------------
(***************************************************************************)
(* Endpoint 0: the requests USB_COM_vect serves for the host - the         *)
(* descriptors, cut into packets, the configuration with the endpoints of  *)
(* the plugged modules, and CDC_Setup() with the touch at 1200 baud that   *)
(* starts the boot loader.  The interrupt serves a request as a whole, so  *)
(* that each is one step.  Bytes are counted, not told apart.              *)
(***************************************************************************)
EXTENDS Integers, FiniteSets, SequencesExt

CONSTANTS
  Packet,        \* the 64 bytes of endpoint 0
  ConfigSize,    \* sizeof(ConfigDescriptor)
  CdcSize,       \* sizeof(_cdcInterface)
  UsbModule,     \* PluggableUSBModule: [name, endpoints, interfaces, size]
  UsbEndpoints,  \* USB_ENDPOINTS
  Asked,         \* values of wLength
  Stop,          \* after how many packets the host may stop reading
  StringSize,    \* lengths of the strings of the device
  MagicKey, Data,\* MAGIC_KEY and what the sketch writes to memory
  LatePlug,      \* may a module be plugged after the host has configured the device?
  Twiggle        \* may the host say twice in a row that the port is closed?

ASSUME ControlAssumption ==
  /\ Packet \in Nat \ {0} /\ UsbEndpoints \in Nat /\ UsbEndpoints >= 4
  /\ \A m \in UsbModule : m.endpoints \in Nat /\ m.interfaces \in Nat /\ m.name # "none"
  /\ MagicKey \notin Data /\ 0 \in Data /\ MagicKey # 0

\* Sizes are numbers of bytes; what the host asks for is positive as an int of 16 bits,
\* which InitControl() takes it for; a string fits into a descriptor, whose length is a byte.
ASSUME TransferAssumption ==
  /\ ConfigSize \in Nat /\ CdcSize \in Nat /\ \A m \in UsbModule : m.size \in Nat
  /\ Stop \subseteq Nat /\ \A asked \in Asked : asked \in Nat /\ asked < 2^15
  /\ \A length \in StringSize : length \in Nat /\ 2 + 2 * length < 256

VARIABLES
  plugged,       \* the list behind rootNode, with pluggedEndpoint and pluggedInterface
  lastEp, lastIf,
  initEndpoints, \* _initEndpoints[]: the module an endpoint is for
  active,        \* the endpoints that are set up
  configuration, \* _usbConfiguration
  transfer       \* the last descriptor: bytes asked for, their number as it states, packets

plugVars == <<plugged, lastEp, lastIf, initEndpoints, active, configuration>>

VARIABLES
  keyPos,        \* where the boot loader of the board looks for the key
  ram,           \* the two places a key can be at
  rate, dtr,     \* _usbLineInfo
  wdt,           \* WDTCSR: off, as the sketch has it, or the 120 ms of the touch
  wdtcsr_save,
  breakValue,    \* the last CDC_SEND_BREAK
  own            \* the data of the sketch at MAGIC_KEY_POS, its watchdog

lineVars == <<keyPos, ram, rate, dtr, wdt, wdtcsr_save, breakValue, own>>
controlVars == <<plugVars, transfer, lineVars>>

ControlInit ==
  /\ plugged = <<>> /\ lastEp = 4 /\ lastIf = 2
  /\ initEndpoints = [e \in 1 .. UsbEndpoints - 1 |-> IF e < 4 THEN "CDC" ELSE "none"]
  /\ active = {} /\ configuration = 0
  /\ transfer = [asked |-> 0, states |-> 0, packets |-> <<>>, aborted |-> TRUE]
  /\ keyPos \in {"MAGIC_KEY_POS", "RAMEND-1"} /\ ram = [p \in {"MAGIC_KEY_POS", "RAMEND-1"} |-> 0]
  /\ rate = 57600 /\ dtr = FALSE /\ wdt = "off" /\ wdtcsr_save = "off" /\ breakValue = -1
  /\ own = [data |-> 0, wdt |-> "off"]

-------------------------------------------------------------------------------
(* The transfer to the host.                                               *)

\* InitControl(): the mark, the end, the bytes in the bank and the packets that are out;
\* the host stops reading after so many packets.
InitControl(end, stop) == [mark |-> 0, end |-> end, fifo |-> 0, packets |-> <<>>, stop |-> stop]

\* A version with the clip one byte too late.
SendControlOneMore(c) ==
  IF c.mark <= c.end
  THEN IF Len(c.packets) >= c.stop THEN c
       ELSE IF (c.mark + 1) % Packet = 0
            THEN [c EXCEPT !.mark = @ + 1, !.fifo = 0, !.packets = Append(@, c.fifo + 1)]
            ELSE [c EXCEPT !.mark = @ + 1, !.fifo = @ + 1]
  ELSE [c EXCEPT !.mark = @ + 1]

\* SendControl(): nothing more once the host has gone on to the next stage.
SendControl(c) ==
  IF c.mark < c.end
  THEN IF Len(c.packets) >= c.stop THEN c
       ELSE IF (c.mark + 1) % Packet = 0
            THEN [c EXCEPT !.mark = @ + 1, !.fifo = 0, !.packets = Append(@, c.fifo + 1)]
            ELSE [c EXCEPT !.mark = @ + 1, !.fifo = @ + 1]
  ELSE [c EXCEPT !.mark = @ + 1]

USB_SendControl(c, len) ==
  LET after[i \in 0 .. len] == IF i = 0 THEN c ELSE SendControl(after[i - 1]) IN after[len]

\* CDC first, then the modules in the order of the list.
SendPlugged(c) == FoldLeft(LAMBDA acc, node : USB_SendControl(acc, node.module.size), c, plugged)
SendInterfaces(c) == SendPlugged(USB_SendControl(c, CdcSize))

\* The last packet goes out with ClearIN() at the end of the interrupt.
Answer(asked, c, states) ==
  transfer' = [asked |-> asked, states |-> states,
               packets |-> Append(c.packets, c.fifo), aborted |-> Len(c.packets) >= c.stop]

\* SendConfiguration(): a first pass without sending finds out how long it will be.
GetConfiguration(asked, stop) ==
  /\ LET total == SendInterfaces(InitControl(0, stop)).mark + ConfigSize IN
     Answer(asked, SendInterfaces(USB_SendControl(InitControl(asked, stop), ConfigSize)), total)
  /\ UNCHANGED <<plugVars, lineVars>>

\* USB_SendStringDescriptor(): two bytes, and two for each letter.
GetString(asked, stop, length) ==
  /\ Answer(asked, USB_SendControl(InitControl(asked, stop), 2 + 2 * length), (2 + 2 * length) % 256)
  /\ UNCHANGED <<plugVars, lineVars>>

-------------------------------------------------------------------------------
(* Modules and endpoints.                                                  *)

\* A version that counts one endpoint for each module.
PlugOneEndpoint(m) ==
  /\ \A i \in DOMAIN plugged : plugged[i].module # m
  /\ LatePlug \/ configuration = 0
  /\ lastEp + m.endpoints <= UsbEndpoints
  /\ plugged' = Append(plugged, [module |-> m, ep |-> lastEp, if |-> lastIf])
  /\ lastIf' = lastIf + m.interfaces /\ lastEp' = lastEp + 1
  /\ initEndpoints' = [e \in DOMAIN initEndpoints |->
       IF e \in lastEp .. lastEp + m.endpoints - 1 THEN m.name ELSE initEndpoints[e]]
  /\ UNCHANGED <<active, configuration, transfer, lineVars>>

Plug(m) ==
  /\ \A i \in DOMAIN plugged : plugged[i].module # m
  /\ LatePlug \/ configuration = 0
  /\ lastEp + m.endpoints <= UsbEndpoints
  /\ plugged' = Append(plugged, [module |-> m, ep |-> lastEp, if |-> lastIf])
  /\ lastIf' = lastIf + m.interfaces /\ lastEp' = lastEp + m.endpoints
  /\ initEndpoints' = [e \in DOMAIN initEndpoints |->
       IF e \in lastEp .. lastEp + m.endpoints - 1 THEN m.name ELSE initEndpoints[e]]
  /\ UNCHANGED <<active, configuration, transfer, lineVars>>

\* InitEndpoints() goes up to the first one that has no type.
SetConfiguration(value) ==
  /\ configuration' = value
  /\ active' = {e \in DOMAIN initEndpoints : \A d \in 1 .. e : initEndpoints[d] # "none"}
  /\ UNCHANGED <<plugged, lastEp, lastIf, initEndpoints, transfer, lineVars>>

EndOfReset ==
  /\ configuration' = 0 /\ active' = {}
  /\ UNCHANGED <<plugged, lastEp, lastIf, initEndpoints, transfer, lineVars>>

-------------------------------------------------------------------------------
(* CDC_Setup()                                                             *)

PlugRest == UNCHANGED <<plugVars, transfer, keyPos>>
Touched == ram[keyPos] = MagicKey

SetLineCoding(r) ==
  /\ rate' = r
  /\ UNCHANGED <<ram, dtr, wdt, wdtcsr_save, breakValue, own>> /\ PlugRest

\* CDC_SET_CONTROL_LINE_STATE: the port is closed at 1200 baud ...
Touch ==
  /\ rate = 1200 /\ (Twiggle \/ ~Touched)
  /\ dtr' = FALSE
  /\ ram' = [p \in DOMAIN ram |->
       IF p = keyPos THEN MagicKey
       ELSE IF p = "RAMEND-1" /\ ~Touched THEN ram[keyPos] ELSE ram[p]]
  /\ wdtcsr_save' = wdt /\ wdt' = "120 ms"
  /\ UNCHANGED <<rate, breakValue, own>> /\ PlugRest

\* A version that clears the key and gives nothing back.
SetLineStateClears(open) ==
  /\ open \/ rate # 1200
  /\ dtr' = open
  /\ IF Touched THEN wdt' = wdtcsr_save /\ ram' = [ram EXCEPT ![keyPos] = 0]
     ELSE UNCHANGED <<wdt, ram>>
  /\ UNCHANGED <<rate, wdtcsr_save, breakValue, own>> /\ PlugRest

\* ... or anything else: a touch is taken back.
SetLineState(open) ==
  /\ open \/ rate # 1200
  /\ dtr' = open
  /\ IF Touched
     THEN /\ wdt' = wdtcsr_save
          /\ ram' = [ram EXCEPT ![keyPos] = IF keyPos = "RAMEND-1" THEN 0 ELSE ram["RAMEND-1"]]
     ELSE UNCHANGED <<wdt, ram>>
  /\ UNCHANGED <<rate, wdtcsr_save, breakValue, own>> /\ PlugRest

SendBreak(v) ==
  /\ breakValue' = v
  /\ UNCHANGED <<ram, rate, dtr, wdt, wdtcsr_save, own>> /\ PlugRest

\* readBreak() of the program, with the interrupts off
ReadBreak ==
  /\ breakValue' = -1
  /\ UNCHANGED <<ram, rate, dtr, wdt, wdtcsr_save, own>> /\ PlugRest

\* The sketch uses the memory at MAGIC_KEY_POS, and a watchdog of its own; not while the
\* boot loader is about to start, which USBCore.h:285-286 warn of.
SketchWrites(v) ==
  /\ ~Touched
  /\ ram' = [ram EXCEPT !["MAGIC_KEY_POS"] = v] /\ own' = [own EXCEPT !.data = v]
  /\ UNCHANGED <<rate, dtr, wdt, wdtcsr_save, breakValue>> /\ PlugRest

SketchWatchdog(mode) ==
  /\ ~Touched
  /\ wdt' = mode /\ own' = [own EXCEPT !.wdt = mode]
  /\ UNCHANGED <<ram, rate, dtr, wdtcsr_save, breakValue>> /\ PlugRest

-------------------------------------------------------------------------------
PlugNext ==
  \/ \E asked \in Asked, stop \in Stop :
       \/ GetConfiguration(asked, stop)
       \/ \E length \in StringSize : GetString(asked, stop, length)
  \/ \E m \in UsbModule : Plug(m)
  \/ \E value \in 0 .. 1 : SetConfiguration(value)
  \/ EndOfReset

LineNext ==
  \/ \E r \in {1200, 57600} : SetLineCoding(r)
  \/ Touch
  \/ \E open \in BOOLEAN : SetLineState(open)
  \/ SendBreak(7) \/ ReadBreak
  \/ \E v \in Data : SketchWrites(v)
  \/ \E mode \in {"off", "sketch"} : SketchWatchdog(mode)

ControlSpec == ControlInit /\ [][PlugNext \/ LineNext]_controlVars

-------------------------------------------------------------------------------
Total(packets) == FoldLeft(LAMBDA a, b : a + b, 0, packets)

\* The host gets the number of bytes the descriptor says it has, or those it asked for: in
\* full packets, and with a shorter one at the end when it asked for more
\* (USBCore.cpp:484-492, 411-423).
DescriptorIsWhole ==
  LET t == transfer
      k == Len(t.packets)
  IN t.aborted \/
     /\ Total(t.packets) = (IF t.asked < t.states THEN t.asked ELSE t.states)
     /\ \A i \in 1 .. k - 1 : t.packets[i] = Packet
     /\ t.packets[k] < Packet

\* Each module has the endpoints and interfaces it was told, no two the same one, the CDC
\* port keeps its own; and once the host has configured the device they are set up.
EndpointsAreApart ==
  /\ \A i, j \in DOMAIN plugged : i < j =>
       /\ plugged[i].ep + plugged[i].module.endpoints <= plugged[j].ep
       /\ plugged[i].if + plugged[i].module.interfaces <= plugged[j].if
  /\ \A i \in DOMAIN plugged :
       \A e \in plugged[i].ep .. plugged[i].ep + plugged[i].module.endpoints - 1 :
         /\ e \in DOMAIN initEndpoints /\ initEndpoints[e] = plugged[i].module.name
         /\ configuration # 0 => e \in active
  /\ \A e \in 1 .. 3 : initEndpoints[e] = "CDC" /\ (configuration # 0 => e \in active)

\* "To avoid spurious resets we set the watchdog to 120ms and eventually cancel if DTR goes
\* back high" (CDC.cpp:140-141): with the port open the watchdog is as the sketch had it,
\* and so is the memory the key of a touch was written to.
TouchIsCancelled ==
  /\ dtr => wdt = own.wdt
  /\ ~Touched => ram["MAGIC_KEY_POS"] = own.data
===============================================================================
