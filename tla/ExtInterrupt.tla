----------------------------- MODULE ExtInterrupt -----------------------------
(***************************************************************************)
(* attachInterrupt() and detachInterrupt() with the interrupts they are    *)
(* about.  A function pointer is two bytes, the program writes them one at *)
(* a time; the sense bits of all lines share EICRA, which is read, changed *)
(* and written.  A handler may call both functions for its own line; it    *)
(* runs with the interrupts off, as one step.                              *)
(***************************************************************************)
EXTENDS Integers

CONSTANTS
  IntLine,   \* the interrupts: a number below EXTERNAL_NUM_INTERRUPTS each
  Handler,   \* functions of the program
  OneShot,   \* those that detach their own line
  Sense,     \* the modes it asks for
  Careless   \* may an attached line be attached again, and may handlers attach?

ASSUME ExtAssumption ==
  /\ OneShot \subseteq Handler /\ "nothing" \notin Handler /\ IntLine # {}
  /\ Sense \subseteq {"LOW", "CHANGE", "FALLING", "RISING"} /\ Careless \in BOOLEAN

VARIABLES
  fnLo, fnHi,   \* intFunc[], byte by byte
  eicra,        \* EICRA: when each line interrupts
  eimsk,        \* EIMSK: the lines that may interrupt
  intf,         \* EIFR: the lines with an interrupt pending
  high,         \* the lines that are high
  extAt,        \* where the program is in a call
  ext,          \* the arguments of the call, and EICRA as it was read
  promised      \* handler and sense of each line as the calls have left them

extVars == <<fnLo, fnHi, eicra, eimsk, intf, high, extAt, ext, promised>>
fn == <<fnLo, fnHi>>

Detached == [handler |-> "nothing", mode |-> "LOW"]

\* The local variables when no call is going on.
Gone == [line |-> CHOOSE l \in IntLine : TRUE, handler |-> "nothing", mode |-> "LOW",
         read |-> [l \in IntLine |-> "LOW"]]

ExtInit ==
  /\ fnLo = [l \in IntLine |-> "nothing"] /\ fnHi = fnLo
  /\ eicra = [l \in IntLine |-> "LOW"] /\ eimsk = {} /\ intf = {} /\ high = IntLine
  /\ extAt = "out" /\ ext = Gone
  /\ promised = [l \in IntLine |-> Detached]

ExtGo(from, to) == extAt = from /\ extAt' = to
LinesRest == UNCHANGED <<intf, high>>

-------------------------------------------------------------------------------
(* The program.                                                            *)

AttachCall(l, f, mode) ==
  /\ ExtGo("out", "low byte")
  /\ Careless \/ l \notin eimsk
  /\ ext' = [ext EXCEPT !.line = l, !.handler = f, !.mode = mode]
  /\ UNCHANGED <<fn, eicra, eimsk, promised>> /\ LinesRest

StoreLow ==
  /\ \/ ExtGo("low byte", "high byte") \/ ExtGo("nothing low", "nothing high")
  /\ fnLo' = [fnLo EXCEPT ![ext.line] = ext.handler]
  /\ UNCHANGED <<fnHi, eicra, eimsk, ext, promised>> /\ LinesRest

StoreHigh ==
  /\ \/ ExtGo("high byte", "sense") \/ ExtGo("nothing high", "out")
  /\ fnHi' = [fnHi EXCEPT ![ext.line] = ext.handler]
  /\ ext' = IF extAt' = "out" THEN Gone ELSE ext
  /\ UNCHANGED <<fnLo, eicra, eimsk, promised>> /\ LinesRest

ReadSense ==
  /\ ExtGo("sense", "write sense")
  /\ ext' = [ext EXCEPT !.read = eicra]
  /\ UNCHANGED <<fn, eicra, eimsk, promised>> /\ LinesRest

\* A version that writes EICRA without the bits of the other lines.
WriteSenseAlone ==
  /\ ExtGo("write sense", "enable")
  /\ eicra' = [l \in IntLine |-> IF l = ext.line THEN ext.mode ELSE "LOW"]
  /\ intf' \in {intf, intf \cup {ext.line}}
  /\ UNCHANGED <<fn, eimsk, high, ext, promised>>

\* To change the sense may set the flag of the line.
WriteSense ==
  /\ ExtGo("write sense", "enable")
  /\ eicra' = [ext.read EXCEPT ![ext.line] = ext.mode]
  /\ intf' \in {intf, intf \cup {ext.line}}
  /\ UNCHANGED <<fn, eimsk, high, ext, promised>>

Enable ==
  /\ ExtGo("enable", "out")
  /\ eimsk' = eimsk \cup {ext.line}
  /\ promised' = [promised EXCEPT ![ext.line] = [handler |-> ext.handler, mode |-> ext.mode]]
  /\ ext' = Gone /\ UNCHANGED <<fn, eicra>> /\ LinesRest

DetachCall(l) ==
  /\ ExtGo("out", "nothing low")
  /\ eimsk' = eimsk \ {l} /\ promised' = [promised EXCEPT ![l] = Detached]
  /\ ext' = [ext EXCEPT !.line = l, !.handler = "nothing"]
  /\ UNCHANGED <<fn, eicra>> /\ LinesRest

-------------------------------------------------------------------------------
(* The lines and their interrupts.                                         *)

PinChanges(l) ==
  /\ high' = (high \cup {l}) \ (high \cap {l})
  /\ intf' = IF \/ eicra[l] = "CHANGE"
                \/ eicra[l] = "FALLING" /\ l \in high
                \/ eicra[l] = "RISING" /\ l \notin high
             THEN intf \cup {l} ELSE intf
  /\ UNCHANGED <<fn, eicra, eimsk, extAt, ext, promised>>

Pending(l) == l \in eimsk /\ (l \in intf \/ (eicra[l] = "LOW" /\ l \notin high))

\* The handler returns, detaches its line, or attaches a handler with another sense.
IntVect(l) ==
  /\ Pending(l) /\ intf' = intf \ {l}
  /\ IF fnLo[l] \in OneShot
     THEN /\ eimsk' = eimsk \ {l} /\ promised' = [promised EXCEPT ![l] = Detached]
          /\ fnLo' = [fnLo EXCEPT ![l] = "nothing"] /\ fnHi' = [fnHi EXCEPT ![l] = "nothing"]
          /\ UNCHANGED eicra
     ELSE \/ UNCHANGED <<fn, eimsk, eicra, promised>>
          \/ /\ Careless
             /\ \E mode \in Sense :
                  /\ eicra' = [eicra EXCEPT ![l] = mode]
                  /\ promised' = [promised EXCEPT ![l].mode = mode]
             /\ UNCHANGED <<fn, eimsk>>
  /\ UNCHANGED <<high, extAt, ext>>

-------------------------------------------------------------------------------
ExtNext ==
  \/ \E l \in IntLine :
       \/ \E f \in Handler, mode \in Sense : AttachCall(l, f, mode)
       \/ DetachCall(l) \/ PinChanges(l) \/ IntVect(l)
  \/ StoreLow \/ StoreHigh \/ ReadSense \/ WriteSense \/ Enable

ExtSpec == ExtInit /\ [][ExtNext]_extVars

-------------------------------------------------------------------------------
\* A line that may interrupt calls the handler of the last attachInterrupt(), both bytes
\* of it, with the sense that call asked for: neither half a pointer nor `nothing', none
\* after detachInterrupt(), and not the sense of before another line's change to EICRA.
HandlerIsWhole ==
  \A l \in eimsk :
    /\ fnLo[l] = promised[l].handler /\ fnHi[l] = fnLo[l] /\ fnLo[l] \in Handler
    /\ eicra[l] = promised[l].mode
===============================================================================
