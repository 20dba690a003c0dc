---------------------------- MODULE LibraryProofs -----------------------------
(***************************************************************************)
(* Six parts of the Arduino core: the external interrupts, timer 2 with    *)
(* tone(), the pipes of USB, the USB control requests with the serial line *)
(* on top of them, the searches and numbers of a stream, and timer 0 with  *)
(* the clock that show() stops. The parts have no variable in common; each *)
(* has an invariant and theorems of its own.                               *)
(***************************************************************************)
EXTENDS
  StripTimer, ExtInterrupt, ToneTimer, UsbPipe, UsbControl, TextStream,
  ProofLemmas, SequenceTheorems

(***************************************************************************)
(* External interrupts. attachInterrupt() and detachInterrupt() write a    *)
(* function pointer in two bytes and share EICRA between the lines. No     *)
(* interrupt sees a pointer or a sense that is half written, for any       *)
(* number of lines and handlers, in a program that detaches a line before  *)
(* it attaches it again and whose handlers attach nothing.                 *)
(***************************************************************************)

\* The modes of attachInterrupt(), and what the bytes of a pointer may come from.
Senses == {"LOW", "CHANGE", "FALLING", "RISING"}
Functions == Handler \cup {"nothing"}

\* The types of vectors, masks, flags and of the call in progress.
ExtTypeOK ==
  /\ fnLo \in [IntLine -> Functions] /\ fnHi \in [IntLine -> Functions]
  /\ eicra \in [IntLine -> Senses] /\ eimsk \subseteq IntLine
  /\ ext \in [line : IntLine, handler : Functions, mode : Senses,
              read : [IntLine -> Senses]]
  /\ promised \in [IntLine -> [handler : Functions, mode : Senses]]

\* The line that a call is about cannot interrupt, so what the call writes
\* byte by byte is not seen before its end.
LineIsMasked == extAt # "out" => ext.line \notin eimsk

\* What attachInterrupt() has written so far.
AttachSoFar ==
  /\ extAt \in {"low byte", "high byte", "sense", "write sense", "enable"}
       => ext.handler \in Handler
  /\ extAt \in {"high byte", "sense", "write sense", "enable"}
       => fnLo[ext.line] = ext.handler
  /\ extAt \in {"sense", "write sense", "enable"} => fnHi[ext.line] = ext.handler
  /\ extAt = "enable" => eicra[ext.line] = ext.mode

\* Nothing has changed the sense of a line that may interrupt since EICRA was
\* read.
ReadIsFresh == extAt = "write sense" => \A l \in eimsk : ext.read[l] = eicra[l]

\* The invariant of the external interrupts.
ExtInv == ExtTypeOK /\ HandlerIsWhole /\ LineIsMasked /\ AttachSoFar /\ ReadIsFresh

-------------------------------------------------------------------------------

LEMMA GoneIsTyped ==
  Gone \in [line : IntLine, handler : Functions, mode : Senses,
            read : [IntLine -> Senses]]
<1>1. (CHOOSE l \in IntLine : TRUE) \in IntLine
  BY ExtAssumption, Zenon
<1>2. [l \in IntLine |-> "LOW"] \in [IntLine -> Senses]
  BY DEF Senses
<1> QED
  BY <1>1, <1>2 DEF Gone, Functions, Senses

LEMMA InitEstablishesExtInv == ExtInit => ExtInv
<1> SUFFICES ASSUME ExtInit PROVE ExtInv
  OBVIOUS
<1>1. ExtTypeOK
  BY GoneIsTyped DEF ExtInit, ExtTypeOK, Detached, Functions, Senses
<1>2. HandlerIsWhole /\ LineIsMasked /\ AttachSoFar /\ ReadIsFresh
  BY DEF ExtInit, HandlerIsWhole, LineIsMasked, AttachSoFar, ReadIsFresh
<1> QED
  BY <1>1, <1>2 DEF ExtInv

\* attachInterrupt() begins with a line that is detached.
LEMMA AttachCallKeepsExtInv ==
  ASSUME ~Careless, ExtInv, NEW l \in IntLine, NEW f \in Handler, NEW sense \in Sense,
         AttachCall(l, f, sense)
  PROVE  ExtInv'
<1>1. /\ l \notin eimsk /\ extAt = "out" /\ extAt' = "low byte"
      /\ ext' = [ext EXCEPT !.line = l, !.handler = f, !.mode = sense]
      /\ UNCHANGED <<fn, eicra, eimsk, promised>>
  BY Zenon DEF AttachCall, ExtGo
<1>2. /\ ext' \in [line : IntLine, handler : Functions, mode : Senses,
                   read : [IntLine -> Senses]]
      /\ ext'.line = l /\ ext'.handler = f
  <2>1. f \in Functions /\ sense \in Senses
    BY ExtAssumption DEF Functions, Senses
  <2> QED
    BY <1>1, <2>1 DEF ExtInv, ExtTypeOK
<1>3. ExtTypeOK'
  BY <1>1, <1>2 DEF ExtInv, ExtTypeOK, fn
<1>4. HandlerIsWhole'
  BY <1>1 DEF ExtInv, HandlerIsWhole, fn
<1>5. LineIsMasked' /\ AttachSoFar' /\ ReadIsFresh'
  BY <1>1, <1>2 DEF LineIsMasked, AttachSoFar, ReadIsFresh
<1> QED
  BY <1>3, <1>4, <1>5 DEF ExtInv

\* A byte of a pointer is stored where no interrupt looks.
LEMMA StoreLowKeepsExtInv ==
  ASSUME ExtInv, StoreLow
  PROVE  ExtInv'
<1>1. extAt # "out" /\ ext.line \in IntLine /\ ext.handler \in Functions
  BY DEF StoreLow, ExtGo, ExtInv, ExtTypeOK
<1>2. ExtTypeOK'
  BY <1>1 DEF StoreLow, ExtInv, ExtTypeOK
<1>3. HandlerIsWhole'
  BY <1>1 DEF StoreLow, ExtInv, ExtTypeOK, HandlerIsWhole, LineIsMasked
<1>4. LineIsMasked' /\ ReadIsFresh'
  BY DEF StoreLow, ExtGo, ExtInv, LineIsMasked, ReadIsFresh
<1>5. AttachSoFar'
  BY <1>1 DEF StoreLow, ExtGo, ExtInv, ExtTypeOK, AttachSoFar
<1> QED
  BY <1>2, <1>3, <1>4, <1>5 DEF ExtInv

LEMMA StoreHighKeepsExtInv ==
  ASSUME ExtInv, StoreHigh
  PROVE  ExtInv'
<1>1. extAt # "out" /\ ext.line \in IntLine /\ ext.handler \in Functions
  BY DEF StoreHigh, ExtGo, ExtInv, ExtTypeOK
<1>2. ExtTypeOK'
  BY <1>1, GoneIsTyped DEF StoreHigh, ExtInv, ExtTypeOK
<1>3. HandlerIsWhole'
  BY <1>1 DEF StoreHigh, ExtInv, ExtTypeOK, HandlerIsWhole, LineIsMasked
<1>4. LineIsMasked' /\ ReadIsFresh'
  BY DEF StoreHigh, ExtGo, ExtInv, LineIsMasked, ReadIsFresh
<1>5. AttachSoFar'
  BY <1>1 DEF StoreHigh, ExtGo, ExtInv, ExtTypeOK, AttachSoFar
<1> QED
  BY <1>2, <1>3, <1>4, <1>5 DEF ExtInv

LEMMA ReadSenseKeepsExtInv ==
  ASSUME ExtInv, ReadSense
  PROVE  ExtInv'
<1>1. /\ extAt = "sense" /\ extAt' = "write sense"
      /\ ext' = [ext EXCEPT !.read = eicra]
      /\ UNCHANGED <<fn, eicra, eimsk, promised>>
  BY DEF ReadSense, ExtGo
<1>2. /\ ext' \in [line : IntLine, handler : Functions, mode : Senses,
                   read : [IntLine -> Senses]]
      /\ ext'.line = ext.line /\ ext'.handler = ext.handler /\ ext'.read = eicra
  BY <1>1 DEF ExtInv, ExtTypeOK
<1>3. ExtTypeOK' /\ HandlerIsWhole'
  BY <1>1, <1>2 DEF ExtInv, ExtTypeOK, HandlerIsWhole, fn
<1>4. LineIsMasked' /\ AttachSoFar' /\ ReadIsFresh'
  BY <1>1, <1>2 DEF ExtInv, LineIsMasked, AttachSoFar, ReadIsFresh, fn
<1> QED
  BY <1>3, <1>4 DEF ExtInv

\* Writing EICRA gives the other lines that may interrupt the sense they have.
LEMMA WriteSenseKeepsExtInv ==
  ASSUME ExtInv, WriteSense
  PROVE  ExtInv'
<1>1. /\ extAt = "write sense" /\ extAt' = "enable"
      /\ eicra' = [ext.read EXCEPT ![ext.line] = ext.mode]
      /\ UNCHANGED <<fn, eimsk, ext, promised>>
  BY DEF WriteSense, ExtGo
<1>2. /\ ext.line \in IntLine \ eimsk /\ ext.mode \in Senses
      /\ ext.read \in [IntLine -> Senses] /\ eimsk \subseteq IntLine
  BY <1>1 DEF ExtInv, ExtTypeOK, LineIsMasked
<1>3. /\ eicra' \in [IntLine -> Senses] /\ eicra'[ext.line] = ext.mode
      /\ \A l \in eimsk : eicra'[l] = ext.read[l]
  BY <1>1, <1>2
<1>4. \A l \in eimsk : eicra'[l] = eicra[l]
  BY <1>1, <1>3 DEF ExtInv, ReadIsFresh
<1>5. ExtTypeOK'
  BY <1>1, <1>3 DEF ExtInv, ExtTypeOK, fn
<1>6. HandlerIsWhole'
  BY <1>1, <1>4 DEF ExtInv, HandlerIsWhole, fn
<1>7. LineIsMasked' /\ AttachSoFar' /\ ReadIsFresh'
  BY <1>1, <1>3 DEF ExtInv, LineIsMasked, AttachSoFar, ReadIsFresh, fn
<1> QED
  BY <1>5, <1>6, <1>7 DEF ExtInv

\* The line is enabled last, when its pointer and its sense are complete.
LEMMA EnableKeepsExtInv ==
  ASSUME ExtInv, Enable
  PROVE  ExtInv'
<1>1. /\ extAt = "enable" /\ extAt' = "out" /\ ext' = Gone
      /\ eimsk' = eimsk \cup {ext.line} /\ UNCHANGED <<fn, eicra>>
      /\ promised' = [promised EXCEPT ![ext.line] =
                        [handler |-> ext.handler, mode |-> ext.mode]]
  BY DEF Enable, ExtGo
<1>2. /\ ext.line \in IntLine /\ ext.handler \in Handler /\ ext.mode \in Senses
      /\ fnLo[ext.line] = ext.handler /\ fnHi[ext.line] = ext.handler
      /\ eicra[ext.line] = ext.mode /\ ext.handler \in Functions
  BY <1>1 DEF ExtInv, ExtTypeOK, AttachSoFar
<1>3. ExtTypeOK'
  BY <1>1, <1>2, GoneIsTyped DEF ExtInv, ExtTypeOK, fn
<1>4. ASSUME NEW l \in eimsk'
      PROVE  /\ fnLo'[l] = promised'[l].handler /\ fnHi'[l] = fnLo'[l]
             /\ fnLo'[l] \in Handler /\ eicra'[l] = promised'[l].mode
  <2>1. CASE l = ext.line
    BY <1>1, <1>2, <2>1 DEF ExtInv, ExtTypeOK, fn
  <2>2. CASE l # ext.line
    <3>1. l \in eimsk /\ l \in IntLine /\ promised'[l] = promised[l]
      BY <1>1, <2>2 DEF ExtInv, ExtTypeOK
    <3> QED
      BY <1>1, <3>1 DEF ExtInv, HandlerIsWhole, fn
  <2> QED
    BY <2>1, <2>2
<1>5. HandlerIsWhole'
  BY <1>4 DEF HandlerIsWhole
<1>6. LineIsMasked' /\ AttachSoFar' /\ ReadIsFresh'
  BY <1>1 DEF LineIsMasked, AttachSoFar, ReadIsFresh
<1> QED
  BY <1>3, <1>5, <1>6 DEF ExtInv

\* detachInterrupt() disables the line first.
LEMMA DetachCallKeepsExtInv ==
  ASSUME ExtInv, NEW l \in IntLine, DetachCall(l)
  PROVE  ExtInv'
<1>1. /\ extAt = "out" /\ extAt' = "nothing low" /\ eimsk' = eimsk \ {l}
      /\ promised' = [promised EXCEPT ![l] = Detached]
      /\ ext' = [ext EXCEPT !.line = l, !.handler = "nothing"]
      /\ UNCHANGED <<fn, eicra>>
  BY DEF DetachCall, ExtGo
<1>2. /\ ext' \in [line : IntLine, handler : Functions, mode : Senses,
                   read : [IntLine -> Senses]]
      /\ ext'.line = l
  BY <1>1 DEF ExtInv, ExtTypeOK, Functions
<1>3. ExtTypeOK'
  BY <1>1, <1>2 DEF ExtInv, ExtTypeOK, Detached, Functions, Senses, fn
<1>4. \A k \in eimsk' : k \in eimsk /\ promised'[k] = promised[k]
  BY <1>1 DEF ExtInv, ExtTypeOK
<1>5. HandlerIsWhole'
  BY <1>1, <1>4 DEF ExtInv, HandlerIsWhole, fn
<1>6. LineIsMasked' /\ AttachSoFar' /\ ReadIsFresh'
  BY <1>1, <1>2 DEF LineIsMasked, AttachSoFar, ReadIsFresh
<1> QED
  BY <1>3, <1>5, <1>6 DEF ExtInv

\* A handler that detaches its line disturbs no call: the call is about another
\* line.
LEMMA IntVectKeepsExtInv ==
  ASSUME ~Careless, ExtInv, NEW l \in IntLine, IntVect(l)
  PROVE  ExtInv'
<1>1. l \in eimsk /\ UNCHANGED <<eicra, extAt, ext>>
  BY Zenon DEF IntVect, Pending
<1>2. CASE fnLo[l] \in OneShot
  <2>1. /\ eimsk' = eimsk \ {l} /\ promised' = [promised EXCEPT ![l] = Detached]
        /\ fnLo' = [fnLo EXCEPT ![l] = "nothing"]
        /\ fnHi' = [fnHi EXCEPT ![l] = "nothing"]
    BY <1>2, Zenon DEF IntVect
  <2>2. ExtTypeOK'
    BY <1>1, <2>1 DEF ExtInv, ExtTypeOK, Detached, Functions, Senses
  <2>3. \A k \in IntLine : k # l =>
          /\ fnLo'[k] = fnLo[k] /\ fnHi'[k] = fnHi[k] /\ promised'[k] = promised[k]
    BY <2>1 DEF ExtInv, ExtTypeOK
  <2>4. HandlerIsWhole'
    BY <1>1, <2>1, <2>3 DEF ExtInv, ExtTypeOK, HandlerIsWhole
  <2>5. extAt # "out" => ext.line # l /\ ext.line \in IntLine
    BY <1>1 DEF ExtInv, ExtTypeOK, LineIsMasked
  <2>6. LineIsMasked' /\ ReadIsFresh'
    BY <1>1, <2>1 DEF ExtInv, LineIsMasked, ReadIsFresh
  <2>7. AttachSoFar'
    BY <1>1, <2>3, <2>5 DEF ExtInv, AttachSoFar
  <2> QED
    BY <2>2, <2>4, <2>6, <2>7 DEF ExtInv
<1>3. CASE fnLo[l] \notin OneShot
  <2>1. UNCHANGED <<fn, eimsk, promised>>
    BY <1>3, Zenon DEF IntVect
  <2> QED
    BY <1>1, <2>1
    DEF ExtInv, ExtTypeOK, HandlerIsWhole, LineIsMasked, AttachSoFar, ReadIsFresh, fn
<1> QED
  BY <1>2, <1>3

LEMMA NextKeepsExtInv ==
  ASSUME ~Careless, ExtInv, [ExtNext]_extVars
  PROVE  ExtInv'
<1>1. ASSUME NEW l \in IntLine, NEW f \in Handler, NEW sense \in Sense,
             AttachCall(l, f, sense)
      PROVE  ExtInv'
  BY <1>1, AttachCallKeepsExtInv
<1>2. ASSUME NEW l \in IntLine, DetachCall(l) \/ IntVect(l)
      PROVE  ExtInv'
  BY <1>2, DetachCallKeepsExtInv, IntVectKeepsExtInv
<1>3. ASSUME NEW l \in IntLine, PinChanges(l)
      PROVE  ExtInv'
  BY <1>3
  DEF PinChanges, ExtInv, ExtTypeOK, HandlerIsWhole, LineIsMasked, AttachSoFar,
      ReadIsFresh, fn
<1>4. CASE StoreLow \/ StoreHigh \/ ReadSense \/ WriteSense \/ Enable
  BY <1>4, StoreLowKeepsExtInv, StoreHighKeepsExtInv, ReadSenseKeepsExtInv,
     WriteSenseKeepsExtInv, EnableKeepsExtInv
<1>5. CASE UNCHANGED extVars
  BY <1>5
  DEF extVars, ExtInv, ExtTypeOK, HandlerIsWhole, LineIsMasked, AttachSoFar,
      ReadIsFresh, fn
<1> QED
  BY <1>1, <1>2, <1>3, <1>4, <1>5 DEF ExtNext

\* No interrupt calls half a function pointer, `nothing' or a detached handler,
\* and none comes with a sense that another line's call has overwritten.
THEOREM HandlersAreWhole ==
  ASSUME ~Careless
  PROVE  ExtSpec => []HandlerIsWhole
<1>1. ExtInit => ExtInv
  BY InitEstablishesExtInv
<1>2. ExtInv /\ [ExtNext]_extVars => ExtInv'
  BY NextKeepsExtInv
<1>3. ExtInv => HandlerIsWhole
  BY DEF ExtInv
<1> QED
  BY <1>1, <1>2, <1>3, PTL DEF ExtSpec

(***************************************************************************)
(* Timer 2. What tone() counts, in bytes and in halves of a period.        *)
(***************************************************************************)

\* The range of a byte has a half: the sign bit.
LEMMA RadixHalf ==
  /\ Radix \in Nat \ {0} /\ Radix \div 2 \in Nat \ {0}
  /\ Radix = 2 * (Radix \div 2)
<1>1. PICK h \in 1 .. 128 : Radix = 2 * h
  BY ToneAssumption
<1>2. Radix \div 2 = h
  BY <1>1
<1> QED BY <1>1, <1>2

\* The counter timer2_toggle_count, read from its low byte l and its high byte h.
CountOf(l, h) == l + Radix * (IF h < Radix \div 2 THEN h ELSE h - Radix)

\* Its sign is that of the high byte.
LEMMA CountSign ==
  ASSUME NEW l \in 0 .. Radix - 1, NEW h \in 0 .. Radix - 1
  PROVE  /\ CountOf(l, h) \in Int
         /\ h < Radix \div 2 => CountOf(l, h) \in 0 .. Radix * (Radix \div 2) - 1
         /\ ~(h < Radix \div 2) => CountOf(l, h) < 0 /\ CountOf(l, h) >= - (Radix * (Radix \div 2))
<1> DEFINE k == Radix \div 2
<1>0. k \in Nat \ {0} /\ Radix \in Nat \ {0} /\ Radix = 2 * k
  BY RadixHalf
<1> HIDE DEF k
<1>1. CASE h < k
  <2>1. Radix * h <= Radix * (k - 1) /\ Radix * (k - 1) = Radix * k - Radix /\ Radix * h \in Nat
    BY <1>0, <1>1, SMT
  <2>2. CountOf(l, h) = l + Radix * h
    BY <1>1 DEF CountOf, k
  <2>3. Radix * k \in Nat
    BY <1>0, SMT
  <2> QED BY <2>1, <2>2, <2>3, <1>0, <1>1 DEF k
<1>2. CASE ~(h < k)
  <2> DEFINE s == h - Radix
  <2>1. s \in -k .. -1
    BY <1>0, <1>2
  <2>2. CountOf(l, h) = l + Radix * s
    BY <1>2 DEF CountOf, k
  <2> HIDE DEF s
  <2>3. Radix * s <= -Radix /\ Radix * s >= -(Radix * k) /\ Radix * s \in Int
    BY <2>1, <1>0, SMT
  <2>4. Radix * k \in Nat
    BY <1>0, SMT
  <2> QED BY <2>1, <2>2, <2>3, <2>4, <1>0, <1>2 DEF k
<1> QED BY <1>1, <1>2

\* Written byte by byte, a count reads back as it was.
LEMMA CountSplit ==
  ASSUME NEW n \in Int, n < Radix * (Radix \div 2), n >= -(Radix * (Radix \div 2))
  PROVE  /\ LoOf(n) \in 0 .. Radix - 1 /\ HiOf(n) \in 0 .. Radix - 1
         /\ CountOf(LoOf(n), HiOf(n)) = n
<1> DEFINE k == Radix \div 2
           q == n \div Radix
           j == n % Radix
<1>0. k \in Nat \ {0} /\ Radix \in Nat \ {0} /\ Radix = 2 * k
  BY RadixHalf
<1>1. n = Radix * q + j /\ q \in Int /\ j \in 0 .. Radix - 1
  BY <1>0, DivLaw
<1>k. n < Radix * k /\ n >= -(Radix * k)
  OBVIOUS
<1> HIDE DEF k, q, j
<1>2. q < k
  <2> SUFFICES ASSUME q >= k PROVE FALSE
    BY <1>0, <1>1
  <2>1. Radix * q >= Radix * k /\ Radix * q \in Int /\ Radix * k \in Int
    BY <1>0, <1>1, SMT
  <2> QED BY <2>1, <1>0, <1>1, <1>k
<1>3. q >= -k
  <2> SUFFICES ASSUME q <= -k - 1 PROVE FALSE
    BY <1>0, <1>1
  <2>1. Radix * q <= Radix * (-k - 1) /\ Radix * (-k - 1) = -(Radix * k) - Radix /\ Radix * q \in Int /\ Radix * k \in Int
    BY <1>0, <1>1, SMT
  <2> QED BY <2>1, <1>0, <1>1, <1>k
<1>4. LoOf(n) = j /\ HiOf(n) = q % Radix
  BY DEF LoOf, HiOf, j, q
<1>5. CASE q >= 0
  <2>1. q \in 0 .. Radix - 1
    BY <1>0, <1>1, <1>2, <1>5
  <2>2. q % Radix = q
    BY <2>1, <1>0
  <2> QED BY <2>1, <2>2, <1>0, <1>1, <1>2, <1>4 DEF CountOf, k
<1>6. CASE q < 0
  <2>1. q + Radix \in 0 .. Radix - 1 /\ ~(q + Radix < k)
    BY <1>0, <1>1, <1>3, <1>6
  <2>2. (Radix * (-1) + (q + Radix)) % Radix = q + Radix
    BY <2>1, <1>0, DivUnique, -1 \in Int
  <2>3. Radix * (-1) + (q + Radix) = q
    BY <1>0, <1>1
  <2>4. HiOf(n) = q + Radix
    BY <2>2, <2>3, <1>4
  <2>5. q + Radix - Radix = q
    BY <1>0, <1>1
  <2> QED BY <2>1, <2>4, <2>5, <1>0, <1>1, <1>4 DEF CountOf, k
<1> QED BY <1>5, <1>6, <1>1, <1>0

\* The same for the count that tone() computes.
LEMMA CountSplitOfArgument ==
  ASSUME NEW n \in Int, -1 <= n, n < Radix * (Radix \div 2)
  PROVE  /\ LoOf(n) \in 0 .. Radix - 1 /\ HiOf(n) \in 0 .. Radix - 1
         /\ CountOf(LoOf(n), HiOf(n)) = n
<1> DEFINE k == Radix * (Radix \div 2)
<1>1. k \in Nat \ {0}
  BY RadixHalf
<1>2. n < k
  OBVIOUS
<1> HIDE DEF k
<1>3. n >= -k
  BY <1>1
<1> QED BY <1>2, <1>3, CountSplit DEF k

\* Half a period.
LEMMA HalfPeriod ==
  ASSUME NEW f \in Nat, 31 <= f, f <= 65535
  PROVE  Half(f) \in Nat /\ 122 <= Half(f) /\ Half(f) <= 258064
<1> DEFINE d == 16000000 \div f
<1>1. 16000000 = f * d + (16000000 % f) /\ d \in Int /\ 16000000 % f \in 0 .. f - 1
  <2>1. f \in Nat \ {0} /\ 16000000 \in Int
    OBVIOUS
  <2> QED BY <2>1, DivLaw
<1>2. Half(f) = d \div 2
  BY DEF Half, F_CPU
<1> HIDE DEF d
<1>3. d >= 244
  <2> SUFFICES ASSUME d <= 243 PROVE FALSE
    BY <1>1
  <2>1. f * d <= f * 243
    BY <1>1, SMT
  <2> QED BY <2>1, <1>1, SMT
<1>4. d <= 516129
  <2> SUFFICES ASSUME d >= 516130 PROVE FALSE
    BY <1>1
  <2>1. f * d >= 31 * d
    BY <1>1, SMT
  <2> QED BY <2>1, <1>1, SMT
<1> QED BY <1>1, <1>2, <1>3, <1>4

\* The pitch
Pitched(p, f) ==
  /\ p.scale * (p.ocr + 1) <= Half(f)
  /\ Half(f) < p.scale * (p.ocr + 2)

\* With the first prescaler whose compare value fits in a byte, the timer plays the
\* frequency that was asked for.
LEMMA PeriodFits ==
  ASSUME NEW f \in Nat, 31 <= f, f <= 65535
  PROVE  Pitched(Period(f), f)
<1> DEFINE fit == {i \in DOMAIN Scales : Ocr(f, i) <= 255} \cup {7}
           i == CHOOSE k \in fit : \A j \in fit : k <= j
           h == Half(f)
<1>1. h \in Nat /\ 122 <= h /\ h <= 258064
  BY HalfPeriod
<1>2. DOMAIN Scales = 1 .. 7
  BY DEF Scales
<1>3. /\ Ocr(f, 1) = h \div 1 - 1 /\ Ocr(f, 2) = h \div 8 - 1 /\ Ocr(f, 3) = h \div 32 - 1
      /\ Ocr(f, 4) = h \div 64 - 1 /\ Ocr(f, 5) = h \div 128 - 1 /\ Ocr(f, 6) = h \div 256 - 1
      /\ Ocr(f, 7) = h \div 1024 - 1
  BY DEF Ocr, Scales
<1> HIDE DEF h
<1>4. \E k \in fit : \A j \in fit : k <= j
  <2>1. fit \subseteq 1 .. 7 /\ 7 \in fit
    BY <1>2
  <2> HIDE DEF fit
  <2> QED BY <2>1
<1>5. i \in fit /\ \A j \in fit : i <= j
  <2>1. i = CHOOSE k \in fit : \A j \in fit : k <= j
    OBVIOUS
  <2> HIDE DEF fit, i
  <2> QED BY <1>4, <2>1
<1>6. i \in 1 .. 7 /\ (i = 7 \/ Ocr(f, i) <= 255) /\ \A j \in 1 .. i - 1 : ~(Ocr(f, j) <= 255)
  BY <1>2, <1>5
<1>7. Period(f) = [scale |-> Scales[i], ocr |-> Ocr(f, i) % 256]
  BY DEF Period
<1> HIDE DEF fit, i
<1>8. Period(f).scale = Scales[i] /\ Period(f).ocr = Ocr(f, i) % 256
  BY <1>7
<1> SUFFICES ASSUME TRUE PROVE Scales[i] * ((Ocr(f, i) % 256) + 1) <= h /\ h < Scales[i] * ((Ocr(f, i) % 256) + 2)
  BY <1>8 DEF Pitched, h
<1>11. CASE i = 1
  BY <1>1, <1>3, <1>6, <1>11 DEF Scales
<1>12. CASE i = 2
  <2>1. ~(Ocr(f, 1) <= 255) BY <1>6, <1>12
  <2> QED BY <2>1, <1>1, <1>3, <1>6, <1>12 DEF Scales
<1>13. CASE i = 3
  <2>1. ~(Ocr(f, 2) <= 255) BY <1>6, <1>13
  <2> QED BY <2>1, <1>1, <1>3, <1>6, <1>13 DEF Scales
<1>14. CASE i = 4
  <2>1. ~(Ocr(f, 3) <= 255) BY <1>6, <1>14
  <2> QED BY <2>1, <1>1, <1>3, <1>6, <1>14 DEF Scales
<1>15. CASE i = 5
  <2>1. ~(Ocr(f, 4) <= 255) BY <1>6, <1>15
  <2> QED BY <2>1, <1>1, <1>3, <1>6, <1>15 DEF Scales
<1>16. CASE i = 6
  <2>1. ~(Ocr(f, 5) <= 255) BY <1>6, <1>16
  <2> QED BY <2>1, <1>1, <1>3, <1>6, <1>16 DEF Scales
<1>17. CASE i = 7
  <2>1. ~(Ocr(f, 6) <= 255) BY <1>6, <1>17
  <2> QED BY <2>1, <1>1, <1>3, <1>6, <1>17 DEF Scales
<1> QED BY <1>6, <1>11, <1>12, <1>13, <1>14, <1>15, <1>16, <1>17

(***************************************************************************)
(* The invariant of the timer.                                             *)
(***************************************************************************)

\* Where the program is, and the modes timer 2 may be in.
Places == {"idle", "claim", "scale", "low", "high", "on", "disable", "pwm", "pwmWrite", "port"}
TimerModes == [mode : {"pwm", "ctc"}, com : SUBSET Pin]

\* Types. The count of a tone fits in its bytes.
ToneTypeOK ==
  /\ tone_pin \in Pin \cup {Free} /\ timerPin \in Pin \cup {Free}
  /\ tccr \in TimerModes /\ saved \in TimerModes
  /\ ocie \in BOOLEAN
  /\ lo \in 0 .. Radix - 1 /\ hi \in 0 .. Radix - 1
  /\ port \in [Pin -> BOOLEAN]
  /\ at \in Places
  /\ at # "idle" => arg.pin \in Pin
  /\ at \in {"claim", "scale", "low", "high", "on"} =>
       arg.f \in Frequency /\ arg.n \in Int /\ -1 <= arg.n /\ arg.n < Radix * (Radix \div 2)
  /\ wanted \in Int /\ toggles \in Int

\* The toggles a tone has had and those it is to have yet are those it was to have.
Counted == IF wanted < 0 THEN Count < 0 ELSE Count >= 0 /\ toggles + Count = wanted

\* Timer 2 plays a tone; it has been given back; and which of the two is due.
Plays ==
  /\ ocie /\ tccr.mode = "ctc" /\ timerPin = tone_pin
  /\ Counted
  /\ \E f \in Frequency : Pitched(period, f)
GivenBack == ~ocie /\ tccr.mode = "pwm"
Settled == IF tone_pin = Free THEN GivenBack ELSE Plays

\* What tone() has done so far: the timer is its pin's, and a tone that still plays there
\* has no end that could come in between.
ToneSoFar ==
  /\ at = "claim" /\ tone_pin = arg.pin => Count < 0 /\ arg.n = -1
  /\ at \in {"scale", "low", "high", "on"} =>
       /\ tone_pin = arg.pin /\ timerPin = arg.pin /\ tccr.mode = "ctc"
       /\ ocie => Count < 0 /\ arg.n = -1
  /\ at \in {"low", "high", "on"} => Pitched(period, arg.f)
  /\ at \in {"high", "on"} => lo = LoOf(arg.n)
  /\ at = "on" => Count = arg.n /\ wanted = arg.n /\ toggles = 0

\* A call that reads and writes TCCR2A has the timer for itself.
PwmSoFar ==
  /\ at = "disable" => tone_pin = Free
  /\ at \in {"pwm", "pwmWrite"} /\ arg.pin \in PwmPin => tone_pin = Free
  /\ at = "pwmWrite" => arg.pin \in PwmPin /\ saved.mode = "pwm"

\* Between the calls, and before a call has changed anything, the timer is where it should be.
SettledOutside == at \in {"idle", "claim", "pwm", "pwmWrite", "port"} => Settled

\* The invariant of timer 2.
ToneInv == ToneTypeOK /\ SettledOutside /\ ToneSoFar /\ PwmSoFar

LEMMA CountIsOf == Count = CountOf(lo, hi)
BY DEF Count, CountOf

LEMMA CountIsInt == ToneTypeOK => Count \in Int
BY CountIsOf, CountSign DEF ToneTypeOK

\* What ToneAssumption says of the arguments, and what follows for period and count.
LEMMA ArgumentRange ==
  /\ \A f \in Frequency : f \in Nat /\ 31 <= f /\ f <= 65535
  /\ \A ms \in Duration : ms \in Nat
BY ToneAssumption

LEMMA FrequencyFits ==
  ASSUME NEW f \in Frequency
  PROVE  Pitched(Period(f), f)
<1>1. f \in Nat /\ 31 <= f /\ f <= 65535
  BY ArgumentRange
<1> QED BY <1>1, PeriodFits

LEMMA ToggleCountFits ==
  ASSUME NEW f \in Frequency, NEW ms \in Duration
  PROVE  /\ ToggleCount(f, ms) \in Int /\ -1 <= ToggleCount(f, ms)
         /\ ToggleCount(f, ms) < Radix * (Radix \div 2)
         /\ ms = 0 => ToggleCount(f, ms) = -1
<1>1. f \in Nat /\ ms \in Nat
  BY ArgumentRange
<1>2. (2 * f) % 65536 \in Nat
  BY <1>1
<1>3. ((2 * f) % 65536) * ms \in Nat
  BY <1>1, <1>2, ProductBounds
<1>4. (((2 * f) % 65536) * ms) \div 1000 \in Nat
  BY <1>3
<1>5. ToggleCount(f, ms) \in Int /\ -1 <= ToggleCount(f, ms)
  BY <1>1, <1>4 DEF ToggleCount
<1> QED BY <1>1, <1>5, CountAssumption DEF ToggleCount

LEMMA InitEstablishesToneInv == ToneInit => ToneInv
<1> SUFFICES ASSUME ToneInit PROVE ToneInv
  OBVIOUS
<1>1. ocie \in BOOLEAN /\ ~ocie
  BY Zenon DEF ToneInit
<1>2. Restored \in TimerModes
  BY DEF Restored, TimerModes
<1>3. port \in [Pin -> BOOLEAN]
  BY DEF ToneInit
<1>4. ToneTypeOK
  BY <1>1, <1>2, <1>3, RadixHalf DEF ToneInit, ToneTypeOK, Places
<1> QED BY <1>1, <1>4
  DEF ToneInit, ToneInv, SettledOutside, Settled, GivenBack, ToneSoFar, PwmSoFar, Restored

LEMMA ToneCallKeeps ==
  ASSUME ~Retrigger, ToneInv, NEW p \in Pin, NEW f \in Frequency, NEW ms \in Duration, ToneCall(p, f, ms)
  PROVE  ToneInv'
<1>1. /\ at = "idle" /\ at' = "claim"
      /\ tone_pin # p \/ (Count < 0 /\ ms = 0)
      /\ arg' = [pin |-> p, f |-> f, n |-> ToggleCount(f, ms)]
      /\ UNCHANGED <<tccr, port, ddr, saved, timerPin, wanted, toggles, tone_pin, ocie, period, lo, hi>>
  BY DEF ToneCall, Go, ToneRest, PinsRest
<1>2. /\ arg'.pin = p /\ arg'.f = f /\ arg'.n = ToggleCount(f, ms)
  BY <1>1
<1>3. ToneTypeOK'
  BY <1>1, <1>2, ToggleCountFits DEF ToneInv, ToneTypeOK, Places
<1>4. Count' = Count /\ (Counted' <=> Counted)
  BY <1>1 DEF Count, Counted
<1>5. Settled
  BY <1>1 DEF ToneInv, SettledOutside
<1>6. SettledOutside'
  BY <1>1, <1>4, <1>5 DEF SettledOutside, Settled, GivenBack, Plays, Pitched
<1>7. ToneSoFar' /\ PwmSoFar'
  BY <1>1, <1>2, <1>4, ToggleCountFits DEF ToneSoFar, PwmSoFar
<1> QED BY <1>3, <1>6, <1>7 DEF ToneInv

LEMMA ToneClaimKeeps ==
  ASSUME ToneInv, ToneClaim
  PROVE  ToneInv'
<1>1. /\ at = "claim" /\ UNCHANGED <<ocie, period, lo, hi, port, ddr, wanted, toggles>>
      /\ arg.pin \in Pin /\ tone_pin \in Pin \cup {Free}
  BY DEF ToneClaim, ToneInv, ToneTypeOK
<1>2. Settled
  BY <1>1 DEF ToneInv, SettledOutside
<1>3. Count' = Count /\ (Counted' <=> Counted)
  BY <1>1 DEF Count, Counted
<1>4. Restored \in TimerModes /\ saved' \in TimerModes
  BY <1>1 DEF ToneClaim, CallRest, ToneInv, ToneTypeOK, Restored, TimerModes
<1>5. arg.pin # Free
  BY <1>1, ToneAssumption DEF Free
<1>6. CASE tone_pin = arg.pin /\ at' = "scale" /\ UNCHANGED <<tone_pin, tccr, timerPin>>
  <2>1. arg' = arg /\ saved' = saved
    BY <1>6, <1>1 DEF ToneClaim, CallRest
  <2>2. ToneTypeOK'
    BY <1>1, <1>6, <2>1 DEF ToneInv, ToneTypeOK, Places
  <2>3. timerPin = tone_pin /\ tccr.mode = "ctc"
    BY <1>2, <1>5, <1>6 DEF Settled, Plays
  <2>4. ToneSoFar'
    BY <1>1, <1>3, <1>6, <2>1, <2>3 DEF ToneInv, ToneSoFar
  <2> QED BY <2>2, <2>4, <1>6 DEF ToneInv, SettledOutside, PwmSoFar
<1>7. CASE /\ tone_pin = Free /\ at' = "scale"
           /\ tone_pin' = arg.pin /\ timerPin' = arg.pin
           /\ tccr' = [mode |-> "ctc", com |-> {}]
  <2>1. arg' = arg /\ saved' = saved
    BY <1>7, <1>1 DEF ToneClaim, CallRest
  <2>2. tccr' \in TimerModes /\ tccr'.mode = "ctc"
    BY <1>7 DEF TimerModes
  <2>3. ToneTypeOK'
    BY <1>1, <1>7, <2>1, <2>2 DEF ToneInv, ToneTypeOK, Places
  <2>4. ~ocie'
    BY <1>1, <1>2, <1>7 DEF Settled, GivenBack
  <2>5. ToneSoFar'
    BY <1>1, <1>7, <2>1, <2>2, <2>4 DEF ToneSoFar
  <2> QED BY <2>3, <2>5, <1>7 DEF ToneInv, SettledOutside, PwmSoFar
<1>8. CASE tone_pin \notin {Free, arg.pin} /\ at' = "idle" /\ UNCHANGED <<tone_pin, tccr, timerPin>>
  <2>1. ToneTypeOK'
    BY <1>1, <1>4, <1>8 DEF ToneInv, ToneTypeOK, Places
  <2>2. Settled'
    BY <1>1, <1>2, <1>3, <1>8 DEF Settled, GivenBack, Plays, Pitched
  <2> QED BY <2>1, <2>2, <1>8 DEF ToneInv, SettledOutside, ToneSoFar, PwmSoFar
<1> QED BY <1>6, <1>7, <1>8 DEF ToneClaim

LEMMA ToneScaleKeeps ==
  ASSUME ToneInv, ToneScale
  PROVE  ToneInv'
<1>1. /\ at = "scale" /\ at' = "low" /\ period' = Period(arg.f)
      /\ UNCHANGED <<tone_pin, tccr, ocie, lo, hi, port, arg, saved, timerPin, wanted, toggles>>
  BY DEF ToneScale, Go, ToneRest
<1>2. arg.f \in Frequency /\ Count' = Count
  BY <1>1 DEF ToneInv, ToneTypeOK, Count
<1>3. Pitched(Period(arg.f), arg.f)
  BY <1>2, FrequencyFits
<1>4. Pitched(period, arg.f)'
  BY <1>1, <1>3 DEF Pitched
<1>5. ToneTypeOK'
  BY <1>1 DEF ToneInv, ToneTypeOK, Places
<1>6. ToneSoFar'
  BY <1>1, <1>2, <1>4 DEF ToneInv, ToneSoFar
<1> QED BY <1>1, <1>5, <1>6 DEF ToneInv, SettledOutside, PwmSoFar

LEMMA ToneLowKeeps ==
  ASSUME ToneInv, ToneLow
  PROVE  ToneInv'
<1>1. /\ at = "low" /\ at' = "high" /\ lo' = LoOf(arg.n)
      /\ UNCHANGED <<tone_pin, tccr, ocie, period, hi, port, arg, saved, timerPin, wanted, toggles>>
  BY DEF ToneLow, Go, ToneRest
<1>2. arg.n \in Int /\ -1 <= arg.n /\ arg.n < Radix * (Radix \div 2)
  BY <1>1 DEF ToneInv, ToneTypeOK
<1>3. LoOf(arg.n) \in 0 .. Radix - 1
  BY <1>2, CountSplitOfArgument
<1>4. ToneTypeOK'
  BY <1>1, <1>3 DEF ToneInv, ToneTypeOK, Places
<1>5. ocie => Count < 0 /\ arg.n = -1
  BY <1>1 DEF ToneInv, ToneSoFar
<1>6. ocie' => Count' < 0 /\ arg'.n = -1
  <2>1. Count < 0 <=> ~(hi < Radix \div 2)
    BY CountIsOf, CountSign DEF ToneInv, ToneTypeOK
  <2>2. Count' = CountOf(lo', hi') /\ lo' \in 0 .. Radix - 1 /\ hi' = hi /\ hi \in 0 .. Radix - 1
    BY <1>1, <1>3 DEF Count, CountOf, ToneInv, ToneTypeOK
  <2>3. Count' < 0 <=> ~(hi' < Radix \div 2)
    BY <2>2, CountSign
  <2> QED BY <1>1, <1>5, <2>1, <2>2, <2>3
<1>7. ToneSoFar'
  BY <1>1, <1>6 DEF ToneInv, ToneSoFar, Pitched
<1> QED BY <1>1, <1>4, <1>7 DEF ToneInv, SettledOutside, PwmSoFar

LEMMA ToneHighKeeps ==
  ASSUME ToneInv, ToneHigh
  PROVE  ToneInv'
<1>1. /\ at = "high" /\ at' = "on" /\ hi' = HiOf(arg.n) /\ wanted' = arg.n /\ toggles' = 0
      /\ UNCHANGED <<tone_pin, tccr, ocie, period, lo, timerPin, port, ddr, arg, saved>>
  BY DEF ToneHigh, Go
<1>2. arg.n \in Int /\ -1 <= arg.n /\ arg.n < Radix * (Radix \div 2) /\ lo = LoOf(arg.n)
  BY <1>1 DEF ToneInv, ToneTypeOK, ToneSoFar
<1>3. HiOf(arg.n) \in 0 .. Radix - 1 /\ CountOf(LoOf(arg.n), HiOf(arg.n)) = arg.n
  BY <1>2, CountSplitOfArgument
<1>4. ToneTypeOK'
  BY <1>1, <1>2, <1>3 DEF ToneInv, ToneTypeOK, Places
<1>5. Count' = arg'.n
  BY <1>1, <1>2, <1>3 DEF Count, CountOf
<1>6. ocie => arg.n = -1
  BY <1>1 DEF ToneInv, ToneSoFar
<1>7. ToneSoFar'
  BY <1>1, <1>2, <1>5, <1>6 DEF ToneInv, ToneSoFar, Pitched
<1> QED BY <1>1, <1>4, <1>7 DEF ToneInv, SettledOutside, PwmSoFar

LEMMA ToneOnKeeps ==
  ASSUME ToneInv, ToneOn
  PROVE  ToneInv'
<1>0. ocie' = TRUE
  BY Zenon DEF ToneOn
<1>1. /\ at = "on" /\ at' = "idle"
      /\ UNCHANGED <<tone_pin, tccr, period, lo, hi, port, timerPin, wanted, toggles>>
      /\ saved' = Restored
  BY DEF ToneOn, Go, ToneRest, CallRest
<1>2. ToneTypeOK'
  <2>1. ocie' \in BOOLEAN
    BY <1>0
  <2> QED BY <1>1, <2>1 DEF ToneInv, ToneTypeOK, Places, Restored, TimerModes
<1>3. /\ arg.pin \in Pin /\ arg.f \in Frequency /\ tone_pin = arg.pin /\ timerPin = arg.pin
      /\ tccr.mode = "ctc" /\ Pitched(period, arg.f)
      /\ Count = arg.n /\ wanted = arg.n /\ toggles = 0 /\ arg.n \in Int /\ -1 <= arg.n
  BY <1>1 DEF ToneInv, ToneTypeOK, ToneSoFar
<1>4. Counted'
  BY <1>1, <1>3 DEF Counted, Count
<1>5. tone_pin' # Free
  BY <1>1, <1>3, ToneAssumption DEF Free
<1>6. \E f \in Frequency : Pitched(period', f)
  BY <1>1, <1>3 DEF Pitched
<1>7. Settled'
  BY <1>0, <1>1, <1>3, <1>4, <1>5, <1>6 DEF Settled, Plays
<1> QED BY <1>1, <1>2, <1>7 DEF ToneInv, SettledOutside, ToneSoFar, PwmSoFar

LEMMA NoToneCallKeeps ==
  ASSUME ~SharePwm, ToneInv, NEW p \in Pin, NoToneCall(p)
  PROVE  ToneInv'
<1>1. /\ at = "idle" /\ arg' = [pin |-> p, n |-> "low"]
      /\ p \notin PwmPin \/ tone_pin \in {p, Free}
      /\ UNCHANGED <<tccr, ocie, period, lo, hi, port, ddr, saved, timerPin, wanted, toggles>>
  BY DEF NoToneCall, ToneRest
<1>2. Settled /\ arg'.pin = p
  BY <1>1 DEF ToneInv, SettledOutside
<1>3. CASE tone_pin = p /\ tone_pin' = Free /\ at' = "disable"
  <2>1. ToneTypeOK'
    BY <1>1, <1>2, <1>3 DEF ToneInv, ToneTypeOK, Places
  <2> QED BY <2>1, <1>3 DEF ToneInv, SettledOutside, ToneSoFar, PwmSoFar
<1>4. CASE tone_pin # p /\ at' = "pwm" /\ tone_pin' = tone_pin
  <2>1. ToneTypeOK'
    BY <1>1, <1>2, <1>4 DEF ToneInv, ToneTypeOK, Places
  <2>2. Count' = Count /\ (Counted' <=> Counted)
    BY <1>1 DEF Count, Counted
  <2>3. Settled'
    BY <1>1, <1>2, <1>4, <2>2 DEF Settled, GivenBack, Plays, Pitched
  <2>4. PwmSoFar'
    BY <1>1, <1>2, <1>4 DEF PwmSoFar
  <2> QED BY <2>1, <2>3, <2>4, <1>4 DEF ToneInv, SettledOutside, ToneSoFar
<1> QED BY <1>3, <1>4 DEF NoToneCall

LEMMA NoToneDisableKeeps ==
  ASSUME ToneInv, NoToneDisable
  PROVE  ToneInv'
<1>0. ocie' = FALSE
  BY Zenon DEF NoToneDisable, DisableTimer
<1>1. /\ at = "disable" /\ at' = "pwm" /\ tccr' = Restored
      /\ UNCHANGED <<tone_pin, lo, hi, port, ddr, arg, saved, timerPin, wanted, toggles>>
  BY DEF NoToneDisable, DisableTimer, Go, ToneRest
<1>2. Restored \in TimerModes /\ Restored.mode = "pwm"
  BY DEF Restored, TimerModes
<1>3. ToneTypeOK'
  <2>1. ocie' \in BOOLEAN
    BY <1>0
  <2> QED BY <1>1, <1>2, <2>1 DEF ToneInv, ToneTypeOK, Places
<1>4. tone_pin' = Free
  BY <1>1 DEF ToneInv, PwmSoFar
<1>5. Settled'
  BY <1>0, <1>1, <1>2, <1>4 DEF Settled, GivenBack
<1> QED BY <1>1, <1>3, <1>4, <1>5 DEF ToneInv, SettledOutside, ToneSoFar, PwmSoFar

LEMMA PinCallKeeps ==
  ASSUME ~SharePwm, ToneInv, NEW p \in Pin, NEW what, PinCall(p, what)
  PROVE  ToneInv'
<1>1. /\ at = "idle" /\ at' = "pwm" /\ arg' = [pin |-> p, n |-> what]
      /\ p \notin PwmPin \/ tone_pin = Free
      /\ UNCHANGED <<tccr, port, saved, timerPin, wanted, toggles, tone_pin, ocie, period, lo, hi>>
  BY DEF PinCall, Go, ToneRest, PinsRest
<1>2. Settled /\ arg'.pin = p
  BY <1>1 DEF ToneInv, SettledOutside
<1>3. ToneTypeOK'
  BY <1>1, <1>2 DEF ToneInv, ToneTypeOK, Places
<1>4. Count' = Count /\ (Counted' <=> Counted)
  BY <1>1 DEF Count, Counted
<1>5. Settled'
  BY <1>1, <1>2, <1>4 DEF Settled, GivenBack, Plays, Pitched
<1>6. PwmSoFar'
  BY <1>1, <1>2 DEF PwmSoFar
<1> QED BY <1>1, <1>3, <1>5, <1>6 DEF ToneInv, SettledOutside, ToneSoFar

LEMMA PwmReadKeeps ==
  ASSUME ToneInv, PwmRead
  PROVE  ToneInv'
<1>1. /\ at = "pwm" /\ saved' = tccr
      /\ at' = IF arg.pin \in PwmPin THEN "pwmWrite" ELSE "port"
      /\ UNCHANGED <<tccr, port, ddr, arg, timerPin, wanted, toggles, tone_pin, ocie, period, lo, hi>>
  BY DEF PwmRead, ToneRest, PinsRest
<1>2. Settled
  BY <1>1 DEF ToneInv, SettledOutside
<1>3. ToneTypeOK'
  BY <1>1, <1>2 DEF ToneInv, ToneTypeOK, Places
<1>4. Count' = Count /\ (Counted' <=> Counted)
  BY <1>1 DEF Count, Counted
<1>5. Settled'
  BY <1>1, <1>2, <1>4 DEF Settled, GivenBack, Plays, Pitched
<1>6. PwmSoFar'
  BY <1>1, <1>2 DEF ToneInv, PwmSoFar, Settled, GivenBack
<1> QED BY <1>1, <1>3, <1>5, <1>6 DEF ToneInv, SettledOutside, ToneSoFar

LEMMA PwmWriteKeeps ==
  ASSUME ToneInv, PwmWrite
  PROVE  ToneInv'
<1>1. /\ at = "pwmWrite" /\ at' = IF arg.n = "duty" THEN "idle" ELSE "port"
      /\ UNCHANGED <<port, ddr, timerPin, wanted, toggles, tone_pin, ocie, period, lo, hi>>
  BY DEF PwmWrite, ToneRest, PinsRest
<1>2. Settled /\ tone_pin = Free /\ arg.pin \in Pin /\ saved \in TimerModes /\ saved.mode = "pwm"
  BY <1>1 DEF ToneInv, SettledOutside, PwmSoFar, ToneTypeOK
<1>3. tccr' \in TimerModes /\ tccr'.mode = "pwm"
  <2>1. PICK c \in SUBSET Pin : tccr' = [saved EXCEPT !.com = c]
    <3>1. CASE arg.n = "duty"
      <4>1. tccr' = [saved EXCEPT !.com = saved.com \cup {arg.pin}] /\ saved.com \cup {arg.pin} \in SUBSET Pin
        BY <1>2, <3>1 DEF PwmWrite, TimerModes
      <4> QED BY <4>1
    <3>2. CASE arg.n # "duty"
      <4>1. tccr' = [saved EXCEPT !.com = saved.com \ {arg.pin}] /\ saved.com \ {arg.pin} \in SUBSET Pin
        BY <1>2, <3>2 DEF PwmWrite, TimerModes
      <4> QED BY <4>1
    <3> QED BY <3>1, <3>2
  <2> QED BY <2>1, <1>2 DEF TimerModes
<1>4. saved' \in TimerModes /\ (at' # "idle" => arg' = arg)
  BY <1>1, <1>2 DEF PwmWrite, CallRest, Restored, TimerModes
<1>5. ToneTypeOK'
  BY <1>1, <1>2, <1>3, <1>4 DEF ToneInv, ToneTypeOK, Places
<1>6. Settled'
  BY <1>1, <1>2, <1>3 DEF Settled, GivenBack
<1> QED BY <1>1, <1>5, <1>6 DEF ToneInv, SettledOutside, ToneSoFar, PwmSoFar

LEMMA PortWriteKeeps ==
  ASSUME ToneInv, PortWrite
  PROVE  ToneInv'
<1>1. /\ at = "port" /\ at' = "idle"
      /\ UNCHANGED <<tccr, ddr, timerPin, wanted, toggles, tone_pin, ocie, period, lo, hi>>
      /\ saved' = Restored
  BY DEF PortWrite, Go, ToneRest, PinsRest, CallRest
<1>2. port' \in [Pin -> BOOLEAN]
  <2>1. port \in [Pin -> BOOLEAN]
    BY DEF ToneInv, ToneTypeOK
  <2>2. PICK b \in BOOLEAN : port' = port \/ port' = [port EXCEPT ![arg.pin] = b]
    BY Zenon DEF PortWrite
  <2> QED BY <2>1, <2>2
<1>3. Restored \in TimerModes
  BY DEF Restored, TimerModes
<1>4. ToneTypeOK'
  BY <1>1, <1>2, <1>3 DEF ToneInv, ToneTypeOK, Places
<1>5. Settled
  BY <1>1 DEF ToneInv, SettledOutside
<1>6. Count' = Count /\ (Counted' <=> Counted)
  BY <1>1 DEF Count, Counted
<1>7. Settled'
  BY <1>1, <1>5, <1>6 DEF Settled, GivenBack, Plays, Pitched
<1> QED BY <1>1, <1>4, <1>7 DEF ToneInv, SettledOutside, ToneSoFar, PwmSoFar

LEMMA PinModeKeeps ==
  ASSUME ToneInv, NEW p \in Pin, NEW j, PinMode(p, j)
  PROVE  ToneInv'
<1>1. /\ at = "idle"
      /\ UNCHANGED <<tccr, at, arg, saved, timerPin, wanted, toggles, tone_pin, ocie, period, lo, hi>>
  BY DEF PinMode, ToneRest, PinsRest
<1>2. port' \in [Pin -> BOOLEAN]
  <2>1. port \in [Pin -> BOOLEAN]
    BY DEF ToneInv, ToneTypeOK
  <2>2. (j = "INPUT_PULLUP") \in BOOLEAN
    BY Zenon
  <2>3. PICK b \in BOOLEAN : port' = port \/ port' = [port EXCEPT ![p] = b]
    BY <2>2, Zenon DEF PinMode
  <2> QED BY <2>1, <2>3
<1>4. ToneTypeOK'
  BY <1>1, <1>2 DEF ToneInv, ToneTypeOK, Places
<1>5. Settled
  BY <1>1 DEF ToneInv, SettledOutside
<1>6. Count' = Count /\ (Counted' <=> Counted)
  BY <1>1 DEF Count, Counted
<1>7. Settled'
  BY <1>1, <1>5, <1>6 DEF Settled, GivenBack, Plays, Pitched
<1> QED BY <1>1, <1>4, <1>7 DEF ToneInv, SettledOutside, ToneSoFar, PwmSoFar

LEMMA BytesOfCount ==
  ASSUME NEW l \in 0 .. Radix - 1, NEW h \in 0 .. Radix - 1
  PROVE  LoOf(CountOf(l, h)) = l /\ HiOf(CountOf(l, h)) = h
<1> DEFINE k == Radix \div 2
           s == IF h < k THEN h ELSE h - Radix
<1>0. k \in Nat \ {0} /\ Radix \in Nat \ {0} /\ Radix = 2 * k
  BY RadixHalf
<1>1. s \in Int
  BY <1>0
<1>2. (Radix * s + l) \div Radix = s /\ (Radix * s + l) % Radix = l
  BY <1>0, <1>1, DivUnique
<1>3. CountOf(l, h) = Radix * s + l
  <2>1. CountOf(l, h) = l + Radix * s
    BY DEF CountOf
  <2> HIDE DEF s
  <2>2. Radix * s \in Int
    BY <1>0, <1>1
  <2> QED BY <2>1, <2>2
<1>4. s % Radix = h
  <2>1. CASE h < k
    BY <2>1, <1>0
  <2>2. CASE ~(h < k)
    <3>1. (Radix * (-1) + h) % Radix = h
      BY <1>0, DivUnique, -1 \in Int
    <3>2. Radix * (-1) + h = h - Radix
      BY <1>0
    <3> QED BY <3>1, <3>2, <2>2
  <2> QED BY <2>1, <2>2
<1> QED BY <1>2, <1>3, <1>4 DEF LoOf, HiOf

LEMMA IsrToggleKeeps ==
  ASSUME ToneInv, IsrToggle
  PROVE  ToneInv'
<1> DEFINE n == IF Count > 0 THEN Count - 1 ELSE Count
<1>0. ocie /\ ocie' = ocie
  BY Zenon DEF IsrToggle
<1>1. /\ Count # 0 /\ lo' = LoOf(n) /\ hi' = HiOf(n)
      /\ toggles' = IF wanted < 0 THEN toggles ELSE toggles + 1
      /\ UNCHANGED <<tone_pin, tccr, period, timerPin, ddr, at, arg, saved, wanted>>
  BY DEF IsrToggle
<1>2. lo \in 0 .. Radix - 1 /\ hi \in 0 .. Radix - 1 /\ Count = CountOf(lo, hi)
  BY CountIsOf DEF ToneInv, ToneTypeOK
<1>3. Count \in Int /\ wanted \in Int /\ toggles \in Int
  BY <1>2, CountSign DEF ToneInv, ToneTypeOK
<1>4. lo' \in 0 .. Radix - 1 /\ hi' \in 0 .. Radix - 1 /\ Count' = n /\ (Count < 0 => lo' = lo)
  <2>1. CASE Count < 0
    <3>1. n = CountOf(lo, hi)
      BY <1>2, <1>3, <2>1
    <3>2. lo' = lo /\ hi' = hi
      BY <1>1, <1>2, <3>1, BytesOfCount
    <3> QED BY <1>2, <3>1, <3>2 DEF Count, CountOf
  <2>2. CASE Count > 0
    <3>1. Count < Radix * (Radix \div 2) /\ Radix * (Radix \div 2) \in Int
      <4>1. Radix * (Radix \div 2) \in Int
        BY RadixHalf
      <4> QED BY <1>2, <2>2, <4>1, CountSign
    <3>2. n \in Int /\ -1 <= n /\ n < Radix * (Radix \div 2)
      <4> DEFINE top == Radix * (Radix \div 2)
      <4>1. n = Count - 1 /\ Count < top /\ top \in Int
        BY <2>2, <3>1, <1>3
      <4> HIDE DEF top
      <4>2. n \in Int /\ -1 <= n /\ n < top
        BY <4>1, <1>3, <2>2
      <4> QED BY <4>2 DEF top
    <3>3. LoOf(n) \in 0 .. Radix - 1 /\ HiOf(n) \in 0 .. Radix - 1 /\ CountOf(LoOf(n), HiOf(n)) = n
      BY <3>2, CountSplitOfArgument
    <3> HIDE DEF n
    <3> QED BY <1>1, <1>3, <2>2, <3>3 DEF Count, CountOf
  <2> QED BY <1>1, <1>3, <2>1, <2>2
<1>5. port' \in [Pin -> BOOLEAN]
  <2>1. port \in [Pin -> BOOLEAN]
    BY DEF ToneInv, ToneTypeOK
  <2>2. (~port[timerPin]) \in BOOLEAN
    BY Zenon
  <2>3. port' = [port EXCEPT ![timerPin] = ~port[timerPin]]
    BY Zenon DEF IsrToggle
  <2> QED BY <2>1, <2>2, <2>3
<1>6. ToneTypeOK'
  BY <1>0, <1>1, <1>3, <1>4, <1>5 DEF ToneInv, ToneTypeOK
<1>7. Counted => Counted'
  BY <1>1, <1>3, <1>4 DEF Counted
<1>8. SettledOutside'
  <2> SUFFICES ASSUME at' \in {"idle", "claim", "pwm", "pwmWrite", "port"} PROVE Settled'
    BY DEF SettledOutside
  <2>1. Settled
    BY <1>1 DEF ToneInv, SettledOutside
  <2> QED BY <2>1, <1>0, <1>1, <1>7 DEF Settled, GivenBack, Plays, Pitched
<1>9. ToneSoFar'
  <2>1. Count < 0 => Count' = Count /\ lo' = lo
    BY <1>3, <1>4
  <2>2. at \in {"scale", "low", "high", "on"} => Count < 0 /\ arg.n = -1
    BY <1>0 DEF ToneInv, ToneSoFar
  <2>3. at = "on" => wanted = -1 /\ toggles' = toggles
    BY <2>2, <1>1 DEF ToneInv, ToneSoFar
  <2> QED BY <1>0, <1>1, <2>1, <2>2, <2>3 DEF ToneInv, ToneSoFar, Pitched
<1>10. PwmSoFar'
  BY <1>1 DEF ToneInv, PwmSoFar
<1> QED BY <1>6, <1>8, <1>9, <1>10 DEF ToneInv

LEMMA IsrEndKeeps ==
  ASSUME ToneInv, IsrEnd
  PROVE  ToneInv'
<1>0. ocie /\ ocie' = FALSE
  BY Zenon DEF IsrEnd, DisableTimer
<1>1. /\ Count = 0 /\ tone_pin' = Free /\ tccr' = Restored
      /\ UNCHANGED <<lo, hi, timerPin, ddr, at, arg, saved, wanted, toggles>>
  BY DEF IsrEnd, DisableTimer
<1>2. Restored \in TimerModes /\ Restored.mode = "pwm"
  BY DEF Restored, TimerModes
<1>3. port' \in [Pin -> BOOLEAN]
  <2>1. port \in [Pin -> BOOLEAN]
    BY DEF ToneInv, ToneTypeOK
  <2>2. PICK p : port' = port \/ port' = [port EXCEPT ![p] = FALSE]
    BY DEF IsrEnd
  <2> QED BY <2>1, <2>2
<1>4. ToneTypeOK'
  <2>1. ocie' \in BOOLEAN
    BY <1>0
  <2> QED BY <1>1, <1>2, <1>3, <2>1 DEF ToneInv, ToneTypeOK
<1>5. Settled'
  BY <1>0, <1>1, <1>2 DEF Settled, GivenBack
<1>6. at \notin {"scale", "low", "high", "on"}
  BY <1>0, <1>1 DEF ToneInv, ToneSoFar
<1>7. at = "claim" => arg.pin # Free
  BY ToneAssumption DEF Free, ToneInv, ToneTypeOK
<1> QED BY <1>1, <1>4, <1>5, <1>6, <1>7 DEF ToneInv, SettledOutside, ToneSoFar, PwmSoFar

LEMMA ToneStutterKeeps == ToneInv /\ UNCHANGED toneVars => ToneInv'
<1> SUFFICES ASSUME ToneInv, UNCHANGED toneVars PROVE ToneInv'
  OBVIOUS
<1>1. UNCHANGED <<tone_pin, tccr, ocie, period, lo, hi, timerPin, port, at, arg, saved, wanted, toggles>>
  BY DEF toneVars
<1>2. Count' = Count /\ (Counted' <=> Counted)
  BY <1>1 DEF Count, Counted
<1> QED BY <1>1, <1>2
  DEF ToneInv, ToneTypeOK, SettledOutside, Settled, GivenBack, Plays, Pitched, ToneSoFar, PwmSoFar

LEMMA ToneStep ==
  ASSUME ~Retrigger, ~SharePwm, ToneInv, [ToneNext]_toneVars
  PROVE  ToneInv'
<1>1. ASSUME NEW p \in Pin, NEW f \in Frequency, NEW ms \in Duration, ToneCall(p, f, ms) PROVE ToneInv'
  BY <1>1, ToneCallKeeps
<1>2. ASSUME NEW p \in Pin, NoToneCall(p) PROVE ToneInv'
  BY <1>2, NoToneCallKeeps
<1>3. ASSUME NEW p \in Pin, NEW what \in PinUse(p), PinCall(p, what) PROVE ToneInv'
  BY <1>3, PinCallKeeps
<1>4. ASSUME NEW p \in Pin, NEW j \in {"INPUT", "INPUT_PULLUP", "OUTPUT"}, PinMode(p, j) PROVE ToneInv'
  BY <1>4, PinModeKeeps
<1>5. CASE ProgramStep
  BY <1>5, ToneClaimKeeps, ToneScaleKeeps, ToneLowKeeps, ToneHighKeeps, ToneOnKeeps,
    NoToneDisableKeeps, PwmReadKeeps, PwmWriteKeeps, PortWriteKeeps DEF ProgramStep
<1>6. CASE Isr
  BY <1>6, IsrToggleKeeps, IsrEndKeeps DEF Isr
<1>7. CASE UNCHANGED toneVars
  BY <1>7, ToneStutterKeeps
<1> QED BY <1>1, <1>2, <1>3, <1>4, <1>5, <1>6, <1>7 DEF ToneNext

\* The invariant of tone() and its interrupt, in a program that starts no tone on a pin
\* where one with an end still plays, and uses no PWM of timer 2 during a tone.
THEOREM ToneInvariant ==
  ASSUME ~Retrigger, ~SharePwm
  PROVE  ToneSpec => []ToneInv
<1>1. ToneInv /\ [ToneNext]_toneVars => ToneInv'
  BY ToneStep
<1> QED BY <1>1, InitEstablishesToneInv, PTL DEF ToneSpec

\* Whenever no call is half done, timer 2 plays the tone of tone_pin with the period
\* asked for, or has been given back to PWM, whatever the interrupt did in between.
THEOREM ToneHasTimer ==
  ASSUME ~Retrigger, ~SharePwm
  PROVE  ToneSpec => []TimerMatchesTone
<1>1. ToneInv => TimerMatchesTone
  BY DEF ToneInv, SettledOutside, Settled, Plays, GivenBack, Pitched, TimerMatchesTone
<1>2. ToneSpec => []ToneInv
  BY ToneInvariant
<1> QED BY <1>1, <1>2, PTL

\* The only step that ends a tone by itself is the interrupt that finds the count at zero.
LEMMA EndStep ==
  ASSUME ToneInv, ToneNext, ocie, ~ocie', tone_pin # Free
  PROVE  toggles = wanted /\ ~port'[timerPin]
<1>1. ~ UNCHANGED ocie
  BY Zenon
<1>2. NoToneDisable \/ IsrEnd
  <2>1. ASSUME NEW p \in Pin, NEW f, NEW ms, ToneCall(p, f, ms) PROVE FALSE
    BY <1>1, <2>1 DEF ToneCall, PinsRest
  <2>2. ASSUME NEW p \in Pin, NoToneCall(p) PROVE FALSE
    BY <1>1, <2>2 DEF NoToneCall
  <2>3. ASSUME NEW p \in Pin, NEW what, PinCall(p, what) PROVE FALSE
    BY <1>1, <2>3 DEF PinCall, PinsRest
  <2>4. ASSUME NEW p \in Pin, NEW j, PinMode(p, j) PROVE FALSE
    BY <1>1, <2>4 DEF PinMode, PinsRest
  <2>5. ~(ToneClaim \/ ToneScale \/ ToneLow \/ ToneHigh \/ PwmRead \/ PwmWrite \/ PortWrite)
    BY <1>1 DEF ToneClaim, ToneScale, ToneLow, ToneHigh, PwmRead, PwmWrite, PortWrite, PinsRest
  <2>6. ~ToneOn
    BY Zenon DEF ToneOn
  <2>7. ~IsrToggle
    BY <1>1 DEF IsrToggle
  <2> QED BY <2>1, <2>2, <2>3, <2>4, <2>5, <2>6, <2>7 DEF ToneNext, ProgramStep, Isr
<1>3. ~NoToneDisable
  BY DEF NoToneDisable, Go, ToneInv, PwmSoFar
<1>4. Count = 0 /\ port' = [port EXCEPT ![tone_pin] = FALSE]
  BY <1>2, <1>3 DEF IsrEnd
<1>5. at \notin {"disable", "scale", "low", "high", "on"} /\ at \in Places
  BY <1>4 DEF ToneInv, ToneSoFar, PwmSoFar, ToneTypeOK
<1>6. Settled
  BY <1>5 DEF Places, ToneInv, SettledOutside
<1>7. timerPin = tone_pin /\ Counted
  BY <1>6 DEF Settled, Plays
<1>8. toggles = wanted
  BY <1>4, <1>7 DEF Counted, ToneInv, ToneTypeOK
<1>9. port \in [Pin -> BOOLEAN] /\ tone_pin \in Pin
  BY DEF ToneInv, ToneTypeOK
<1>10. port'[timerPin] = FALSE
  BY <1>4, <1>7, <1>9
<1> QED BY <1>8, <1>10

\* A tone that ends by itself has had exactly the number of toggles asked for, and the
\* pin is low: the interrupt that counts two bytes down never borrows wrongly.
THEOREM TonesEndOnTime ==
  ASSUME ~Retrigger, ~SharePwm
  PROVE  ToneSpec => EndsAfterToggles
<1>1. ToneInv /\ [ToneNext]_toneVars =>
        [ocie /\ ~ocie' /\ tone_pin # Free => toggles = wanted /\ ~port'[timerPin]]_toneVars
  BY EndStep
<1>2. ToneSpec => []ToneInv
  BY ToneInvariant
<1> QED BY <1>1, <1>2, PTL DEF EndsAfterToggles, ToneSpec

(***************************************************************************)
(* The USB line: the touch at 1200 baud.                                   *)
(***************************************************************************)

\* A touch is armed only while the port is closed.
Closed == Touched => ~dtr

\* The word that the touch overwrites and the watchdog of the sketch are either in
\* place or saved where the cancellation finds them.
MemoryKept ==
  /\ ram \in [{"MAGIC_KEY_POS", "RAMEND-1"} -> Data \cup {MagicKey}]
  /\ keyPos \in {"MAGIC_KEY_POS", "RAMEND-1"}
  /\ own \in [data : Data, wdt : {"off", "sketch"}]
  /\ keyPos = "RAMEND-1" => ram["MAGIC_KEY_POS"] = own.data
  /\ ~Touched => wdt = own.wdt /\ ram["MAGIC_KEY_POS"] = own.data
  /\ Touched => wdtcsr_save = own.wdt
  /\ Touched /\ keyPos = "MAGIC_KEY_POS" => ram["RAMEND-1"] = own.data

\* The invariant of the line.
LineKept == MemoryKept /\ Closed

LEMMA ClosedStays ==
  ASSUME Closed, dtr' = dtr, Touched' => Touched
  PROVE  Closed'
BY Zenon DEF Closed

LEMMA InitEstablishesLine == ControlInit => LineKept
<1> SUFFICES ASSUME ControlInit PROVE LineKept
  OBVIOUS
<1>1. ~dtr
  <2>1. dtr = FALSE
    BY DEF ControlInit
  <2> QED BY <2>1, Zenon
<1>2. ram = [p \in {"MAGIC_KEY_POS", "RAMEND-1"} |-> IF p = "MAGIC_KEY_POS" THEN 0 ELSE 0]
  BY DEF ControlInit
<1>3. own = [data |-> 0, wdt |-> "off"] /\ wdt = "off" /\ keyPos \in {"MAGIC_KEY_POS", "RAMEND-1"}
  BY DEF ControlInit
<1>4. MemoryKept
  BY <1>2, <1>3, ControlAssumption DEF MemoryKept, Touched
<1> QED BY <1>1, <1>4, Zenon DEF LineKept, Closed

\* Arming and cancelling the touch.
LEMMA TouchKeeps ==
  ASSUME ~Twiggle, LineKept, Touch
  PROVE  LineKept'
<1>1. ~Touched /\ wdtcsr_save' = wdt /\ UNCHANGED <<own, keyPos>>
  BY DEF Touch, PlugRest
<1>2. ram' = [p \in DOMAIN ram |->
       IF p = keyPos THEN MagicKey
       ELSE IF p = "RAMEND-1" THEN ram[keyPos] ELSE ram[p]]
  BY <1>1 DEF Touch
<1>3. ~dtr'
  BY Zenon DEF Touch
<1>4. ASSUME keyPos = "MAGIC_KEY_POS" PROVE MemoryKept'
  <2>1. ram' = [p \in {"MAGIC_KEY_POS", "RAMEND-1"} |-> IF p = "MAGIC_KEY_POS" THEN MagicKey ELSE own.data]
    BY <1>1, <1>2, <1>4 DEF LineKept, MemoryKept
  <2> QED BY <1>1, <1>4, <2>1 DEF LineKept, MemoryKept, Touched
<1>5. ASSUME keyPos = "RAMEND-1" PROVE MemoryKept'
  <2>1. ram' = [p \in {"MAGIC_KEY_POS", "RAMEND-1"} |-> IF p = "MAGIC_KEY_POS" THEN own.data ELSE MagicKey]
    BY <1>1, <1>2, <1>5 DEF LineKept, MemoryKept
  <2> QED BY <1>1, <1>5, <2>1 DEF LineKept, MemoryKept, Touched
<1>6. MemoryKept'
  BY <1>4, <1>5 DEF LineKept, MemoryKept
<1> QED BY <1>3, <1>6, Zenon DEF LineKept, Closed

LEMMA SetLineStateKeeps ==
  ASSUME LineKept, NEW open \in BOOLEAN, SetLineState(open)
  PROVE  LineKept'
<1>1. UNCHANGED <<own, keyPos, wdtcsr_save>>
  BY DEF SetLineState, PlugRest
<1>2. ASSUME Touched PROVE MemoryKept' /\ ~Touched'
  <2>1. wdt' = own.wdt
    BY <1>2 DEF SetLineState, LineKept, MemoryKept
  <2>2. ram' = [ram EXCEPT ![keyPos] = IF keyPos = "RAMEND-1" THEN 0 ELSE ram["RAMEND-1"]]
    BY <1>2 DEF SetLineState
  <2>3. /\ ram' \in [{"MAGIC_KEY_POS", "RAMEND-1"} -> Data \cup {MagicKey}]
        /\ ram'["MAGIC_KEY_POS"] = own.data
    <3>1. CASE keyPos = "MAGIC_KEY_POS"
      <4>1. ram' = [p \in {"MAGIC_KEY_POS", "RAMEND-1"} |-> IF p = "MAGIC_KEY_POS" THEN own.data ELSE ram["RAMEND-1"]]
        BY <1>2, <2>2, <3>1 DEF LineKept, MemoryKept
      <4> QED BY <4>1, <1>2 DEF LineKept, MemoryKept
    <3>2. CASE keyPos = "RAMEND-1"
      <4>1. ram' = [p \in {"MAGIC_KEY_POS", "RAMEND-1"} |-> IF p = "MAGIC_KEY_POS" THEN own.data ELSE 0]
        BY <1>2, <2>2, <3>2 DEF LineKept, MemoryKept
      <4> QED BY <4>1, <1>2, ControlAssumption DEF LineKept, MemoryKept
    <3> QED BY <3>1, <3>2 DEF LineKept, MemoryKept
  <2>4. ram'[keyPos'] # MagicKey
    <3>1. CASE keyPos = "MAGIC_KEY_POS"
      BY <1>1, <2>3, <3>1, ControlAssumption DEF LineKept, MemoryKept
    <3>2. CASE keyPos = "RAMEND-1"
      BY <1>1, <2>2, <3>2, ControlAssumption DEF LineKept, MemoryKept
    <3> QED BY <3>1, <3>2 DEF LineKept, MemoryKept
  <2> QED BY <1>1, <2>1, <2>3, <2>4 DEF LineKept, MemoryKept, Touched
<1>3. ASSUME ~Touched PROVE MemoryKept' /\ ~Touched'
  <2>1. UNCHANGED <<wdt, ram>>
    BY <1>3 DEF SetLineState
  <2> QED BY <1>1, <1>3, <2>1 DEF LineKept, MemoryKept, Touched
<1> QED BY <1>2, <1>3, Zenon DEF LineKept, Closed

LEMMA SketchWritesKeeps ==
  ASSUME LineKept, NEW v \in Data, SketchWrites(v)
  PROVE  LineKept'
<1>1. /\ ~Touched /\ UNCHANGED <<keyPos, wdt, wdtcsr_save, dtr>>
      /\ ram' = [ram EXCEPT !["MAGIC_KEY_POS"] = v] /\ own' = [own EXCEPT !.data = v]
  BY DEF SketchWrites, PlugRest
<1>2. own' \in [data : Data, wdt : {"off", "sketch"}] /\ own'.data = v /\ own'.wdt = own.wdt
  BY <1>1 DEF LineKept, MemoryKept
<1>3. /\ ram' \in [{"MAGIC_KEY_POS", "RAMEND-1"} -> Data \cup {MagicKey}]
      /\ ram'["MAGIC_KEY_POS"] = v /\ ram'["RAMEND-1"] = ram["RAMEND-1"]
  BY <1>1 DEF LineKept, MemoryKept
<1>6. ram'[keyPos'] # MagicKey
  BY <1>1, <1>3, ControlAssumption DEF LineKept, MemoryKept, Touched
<1>7. MemoryKept' /\ ~Touched'
  BY <1>1, <1>2, <1>3, <1>6 DEF LineKept, MemoryKept, Touched
<1> QED BY <1>7, Zenon DEF LineKept, Closed

LEMMA SketchWatchdogKeeps ==
  ASSUME LineKept, NEW w \in {"off", "sketch"}, SketchWatchdog(w)
  PROVE  LineKept'
<1>1. /\ ~Touched /\ UNCHANGED <<keyPos, wdtcsr_save, dtr, ram>>
      /\ wdt' = w /\ own' = [own EXCEPT !.wdt = w]
  BY DEF SketchWatchdog, PlugRest
<1>3. own' \in [data : Data, wdt : {"off", "sketch"}] /\ own'.data = own.data /\ own'.wdt = w
  BY <1>1 DEF LineKept, MemoryKept
<1>4. MemoryKept' /\ ~Touched'
  BY <1>1, <1>3 DEF LineKept, MemoryKept, Touched
<1> QED BY <1>4, Zenon DEF LineKept, Closed

\* All steps together; the steps of the pluggable modules touch none of this.
LEMMA LineStep ==
  ASSUME ~Twiggle, LineKept, [PlugNext \/ LineNext]_controlVars
  PROVE  LineKept'
<1>0. ASSUME UNCHANGED <<keyPos, ram, dtr, wdt, wdtcsr_save, own>> PROVE LineKept'
  <2>1. UNCHANGED <<keyPos, ram, wdt, wdtcsr_save, own>> /\ dtr' = dtr
    BY <1>0
  <2>2. MemoryKept' /\ (Touched' => Touched)
    BY <2>1 DEF LineKept, MemoryKept, Touched
  <2> QED BY <2>1, <2>2, ClosedStays, Zenon DEF LineKept
<1>1. CASE PlugNext
  <2>1. UNCHANGED lineVars
    BY <1>1 DEF PlugNext, GetConfiguration, GetString, Plug, SetConfiguration, EndOfReset
  <2> QED BY <2>1, <1>0 DEF lineVars
<1>2. CASE Touch
  BY <1>2, TouchKeeps
<1>3. ASSUME NEW open \in BOOLEAN, SetLineState(open) PROVE LineKept'
  BY <1>3, SetLineStateKeeps
<1>4. ASSUME NEW v \in Data, SketchWrites(v) PROVE LineKept'
  BY <1>4, SketchWritesKeeps
<1>5. ASSUME NEW w \in {"off", "sketch"}, SketchWatchdog(w) PROVE LineKept'
  BY <1>5, SketchWatchdogKeeps
<1>6. CASE SendBreak(7) \/ ReadBreak
  BY <1>0, <1>6 DEF SendBreak, ReadBreak, PlugRest
<1>7. ASSUME NEW r, SetLineCoding(r) PROVE LineKept'
  BY <1>0, <1>7 DEF SetLineCoding, PlugRest
<1>8. CASE UNCHANGED controlVars
  BY <1>0, <1>8 DEF controlVars, lineVars
<1> QED BY <1>1, <1>2, <1>3, <1>4, <1>5, <1>6, <1>7, <1>8 DEF LineNext

\* With the port open the watchdog is as the sketch has set it, and while no touch is
\* armed the word that one overwrites is as the sketch has written it, whatever the order
\* of rates, openings and closings, of a host that reports a closed port once.
THEOREM TouchComesToNothing ==
  ASSUME ~Twiggle
  PROVE  ControlSpec => []TouchIsCancelled
<1>1. LineKept /\ [PlugNext \/ LineNext]_controlVars => LineKept'
  BY LineStep
<1>2. LineKept => TouchIsCancelled
  <2> SUFFICES ASSUME LineKept PROVE TouchIsCancelled
    OBVIOUS
  <2>1. dtr => ~Touched
    BY Zenon DEF LineKept, Closed
  <2> QED BY <2>1 DEF LineKept, MemoryKept, TouchIsCancelled
<1> QED BY <1>1, <1>2, InitEstablishesLine, PTL DEF ControlSpec

\* A module with the first endpoint and interface it was given.
PluggedModule == [module : UsbModule, ep : Nat, if : Nat]

\* Endpoints up to lastEp are taken, the first three by CDC, and in use once the host
\* has configured the device.
PluggedKept ==
  /\ plugged \in Seq(PluggedModule)
  /\ lastEp \in 4 .. UsbEndpoints /\ lastIf \in Nat
  /\ DOMAIN initEndpoints = 1 .. UsbEndpoints - 1
  /\ \A e \in 1 .. 3 : initEndpoints[e] = "CDC"
  /\ \A e \in 1 .. lastEp - 1 : initEndpoints[e] # "none"
  /\ configuration # 0 => 1 .. lastEp - 1 \subseteq active

\* The modules lie one behind the other in front of the next free endpoint and interface.
Ranged ==
  /\ \A i \in DOMAIN plugged :
       /\ 4 <= plugged[i].ep /\ plugged[i].ep + plugged[i].module.endpoints <= lastEp
       /\ plugged[i].if + plugged[i].module.interfaces <= lastIf
       /\ \A e \in plugged[i].ep .. plugged[i].ep + plugged[i].module.endpoints - 1 :
            initEndpoints[e] = plugged[i].module.name
  /\ \A i, j \in DOMAIN plugged : i < j =>
       /\ plugged[i].ep + plugged[i].module.endpoints <= plugged[j].ep
       /\ plugged[i].if + plugged[i].module.interfaces <= plugged[j].if

\* The invariant of the pluggable modules.
PlugInv == PluggedKept /\ Ranged

LEMMA InitEstablishesPlug == ControlInit => PlugInv
BY ControlAssumption DEF ControlInit, PlugInv, PluggedKept, Ranged

\* plug() of a further module.
LEMMA PlugKeeps ==
  ASSUME ~LatePlug, PlugInv, NEW d \in UsbModule, Plug(d)
  PROVE  PlugInv'
<1> DEFINE new == [module |-> d, ep |-> lastEp, if |-> lastIf]
           n == Len(plugged)
<1>1. /\ configuration = 0 /\ lastEp + d.endpoints <= UsbEndpoints
      /\ plugged' = Append(plugged, new)
      /\ lastIf' = lastIf + d.interfaces /\ lastEp' = lastEp + d.endpoints
      /\ initEndpoints' = [e \in DOMAIN initEndpoints |->
           IF e \in lastEp .. lastEp + d.endpoints - 1 THEN d.name ELSE initEndpoints[e]]
      /\ configuration' = configuration
  BY DEF Plug
<1>2. /\ d.endpoints \in Nat /\ d.interfaces \in Nat /\ d.name # "none"
      /\ UsbEndpoints \in Nat /\ UsbEndpoints >= 4
  BY ControlAssumption
<1>8. lastEp \in 4 .. UsbEndpoints /\ lastIf \in Nat /\ plugged \in Seq(PluggedModule)
  BY DEF PlugInv, PluggedKept
<1>11. /\ lastEp \in Nat /\ lastEp' \in Nat /\ lastIf \in Nat /\ lastIf' \in Nat
       /\ 4 <= lastEp /\ lastEp <= lastEp' /\ lastEp' <= UsbEndpoints /\ lastIf <= lastIf'
       /\ lastEp' = lastEp + d.endpoints /\ lastIf' = lastIf + d.interfaces
       /\ d.endpoints \in Nat /\ d.interfaces \in Nat /\ UsbEndpoints \in Nat
  <2>1. /\ lastEp + d.endpoints <= UsbEndpoints
        /\ lastIf' = lastIf + d.interfaces /\ lastEp' = lastEp + d.endpoints
    BY <1>1
  <2>2. /\ d.endpoints \in Nat /\ d.interfaces \in Nat /\ UsbEndpoints \in Nat
        /\ lastEp \in Nat /\ 4 <= lastEp /\ lastIf \in Nat
    BY <1>2, <1>8
  <2> QED BY <2>1, <2>2
<1>3. new \in PluggedModule /\ new.ep = lastEp /\ new.if = lastIf /\ new.module = d
  BY <1>2, <1>8 DEF PluggedModule
<1> HIDE DEF new
<1>4. /\ DOMAIN plugged' = 1 .. n + 1 /\ DOMAIN plugged = 1 .. n /\ n \in Nat
      /\ \A i \in 1 .. n : plugged'[i] = plugged[i] /\ plugged[i] \in PluggedModule
      /\ plugged'[n + 1] = new
      /\ plugged' \in Seq(PluggedModule)
  BY <1>1, <1>3, <1>8
<1>5. PluggedKept'
  <2>1. lastEp' \in 4 .. UsbEndpoints /\ lastIf' \in Nat
    BY <1>11
  <2>2. DOMAIN initEndpoints = 1 .. UsbEndpoints - 1 /\ DOMAIN initEndpoints' = DOMAIN initEndpoints
    BY <1>1 DEF PlugInv, PluggedKept
  <2>3. \A e \in 1 .. 3 : initEndpoints'[e] = "CDC"
    BY <1>1, <1>2, <1>8, <2>2 DEF PlugInv, PluggedKept
  <2>4. \A e \in 1 .. lastEp' - 1 : initEndpoints'[e] # "none"
    <3> SUFFICES ASSUME NEW e \in 1 .. lastEp' - 1 PROVE initEndpoints'[e] # "none"
      OBVIOUS
    <3>1. e \in DOMAIN initEndpoints
      BY <1>11, <2>2
    <3>2. CASE e \in lastEp .. lastEp + d.endpoints - 1
      BY <1>1, <1>2, <3>1, <3>2
    <3>3. CASE e \notin lastEp .. lastEp + d.endpoints - 1
      <4>1. e \in 1 .. lastEp - 1 /\ initEndpoints'[e] = initEndpoints[e]
        <5>1. e \in 1 .. lastEp - 1
          BY <1>11, <3>3
        <5> QED BY <1>1, <3>1, <3>3, <5>1
      <4> QED BY <4>1 DEF PlugInv, PluggedKept
    <3> QED BY <3>2, <3>3
  <2> QED BY <1>1, <1>4, <2>1, <2>2, <2>3, <2>4 DEF PluggedKept
<1>6. \A i \in 1 .. n : /\ plugged[i].ep \in Nat /\ plugged[i].if \in Nat
                        /\ plugged[i].module.endpoints \in Nat /\ plugged[i].module.interfaces \in Nat
  BY <1>4, ControlAssumption DEF PluggedModule
<1>7. \A e \in 1 .. lastEp - 1 : initEndpoints'[e] = initEndpoints[e]
  BY <1>1, <1>2 DEF PlugInv, PluggedKept
<1>9. ASSUME NEW i \in 1 .. n + 1
      PROVE  /\ 4 <= plugged'[i].ep /\ plugged'[i].ep + plugged'[i].module.endpoints <= lastEp'
             /\ plugged'[i].if + plugged'[i].module.interfaces <= lastIf'
             /\ \A e \in plugged'[i].ep .. plugged'[i].ep + plugged'[i].module.endpoints - 1 :
                  initEndpoints'[e] = plugged'[i].module.name
  <2>1. CASE i \in 1 .. n
    <3>1. /\ 4 <= plugged[i].ep /\ plugged[i].ep + plugged[i].module.endpoints <= lastEp
          /\ plugged[i].if + plugged[i].module.interfaces <= lastIf
          /\ \A e \in plugged[i].ep .. plugged[i].ep + plugged[i].module.endpoints - 1 :
               initEndpoints[e] = plugged[i].module.name
      BY <1>4, <2>1 DEF PlugInv, Ranged
    <3> DEFINE a == plugged[i].ep
               k == plugged[i].module.endpoints
               b == plugged[i].if
               l == plugged[i].module.interfaces
    <3>2. a \in Nat /\ k \in Nat /\ b \in Nat /\ l \in Nat
      BY <1>6, <2>1
    <3>3. plugged'[i] = plugged[i] /\ 4 <= a /\ a + k <= lastEp /\ b + l <= lastIf
      BY <1>4, <2>1, <3>1
    <3>4. \A e \in a .. a + k - 1 : initEndpoints[e] = plugged[i].module.name
      BY <3>1
    <3> HIDE DEF a, k, b, l
    <3>5. \A e \in a .. a + k - 1 : e \in 1 .. lastEp - 1
      <4>1. lastEp \in Nat /\ a \in Nat /\ k \in Nat /\ 4 <= a /\ a + k <= lastEp
        BY <1>11, <3>2, <3>3
      <4> QED BY ONLY <4>1
    <3>6. \A e \in a .. a + k - 1 : initEndpoints'[e] = plugged[i].module.name
      BY <1>7, <3>4, <3>5
    <3>7. a + k <= lastEp' /\ b + l <= lastIf'
      <4>1. a + k <= lastEp /\ b + l <= lastIf
        BY <3>3
      <4>2. /\ lastEp \in Nat /\ lastEp' \in Nat /\ lastIf \in Nat /\ lastIf' \in Nat
            /\ lastEp <= lastEp' /\ lastIf <= lastIf'
        BY <1>11
      <4> QED BY <3>2, <4>1, <4>2
    <3> QED BY <3>3, <3>6, <3>7 DEF a, b, k, l
  <2>2. CASE i = n + 1
    <3>1. plugged'[i].ep = lastEp /\ plugged'[i].if = lastIf /\ plugged'[i].module = d
      BY <1>3, <1>4, <2>2
    <3>2. \A e \in lastEp .. lastEp + d.endpoints - 1 : e \in DOMAIN initEndpoints
      <4>1. DOMAIN initEndpoints = 1 .. UsbEndpoints - 1
        BY DEF PlugInv, PluggedKept
      <4> QED BY <4>1, <1>11
    <3>3. \A e \in lastEp .. lastEp + d.endpoints - 1 : initEndpoints'[e] = d.name
      BY <1>1, <3>2
    <3>4. 4 <= lastEp /\ lastEp + d.endpoints <= lastEp' /\ lastIf + d.interfaces <= lastIf'
      BY <1>11
    <3> QED BY <3>1, <3>3, <3>4
  <2> QED BY <1>4, <2>1, <2>2
<1>10. ASSUME NEW i \in 1 .. n + 1, NEW j \in 1 .. n + 1, i < j
       PROVE  /\ plugged'[i].ep + plugged'[i].module.endpoints <= plugged'[j].ep
              /\ plugged'[i].if + plugged'[i].module.interfaces <= plugged'[j].if
  <2>1. i \in 1 .. n
    BY <1>4, <1>10
  <2>2. CASE j \in 1 .. n
    BY <1>4, <1>10, <2>1, <2>2 DEF PlugInv, Ranged
  <2>3. CASE j = n + 1
    BY <1>3, <1>4, <2>1, <2>3 DEF PlugInv, Ranged
  <2> QED BY <1>4, <2>2, <2>3
<1>12. Ranged'
  BY <1>4, <1>9, <1>10 DEF Ranged
<1> QED BY <1>5, <1>12 DEF PlugInv

LEMMA SetConfigurationKeeps ==
  ASSUME PlugInv, NEW value, SetConfiguration(value)
  PROVE  PlugInv'
<1>1. /\ active' = {e \in DOMAIN initEndpoints : \A d \in 1 .. e : initEndpoints[d] # "none"}
      /\ UNCHANGED <<plugged, lastEp, lastIf, initEndpoints>>
  BY DEF SetConfiguration
<1>2. 1 .. lastEp - 1 \subseteq active'
  BY <1>1, ControlAssumption DEF PlugInv, PluggedKept
<1> QED BY <1>1, <1>2 DEF PlugInv, PluggedKept, Ranged

\* CDC_Setup() has no part in the modules and the descriptors.
LEMMA LineKeepsPlugs == LineNext => PlugRest
<1>1. ASSUME NEW r, SetLineCoding(r) PROVE PlugRest
  BY <1>1 DEF SetLineCoding
<1>2. ASSUME NEW v, SendBreak(v) \/ SketchWrites(v) \/ SketchWatchdog(v) PROVE PlugRest
  BY <1>2 DEF SendBreak, SketchWrites, SketchWatchdog
<1>3. ASSUME NEW open, SetLineState(open) PROVE PlugRest
  BY <1>3 DEF SetLineState
<1>4. Touch => PlugRest
  BY PTL DEF Touch
<1>5. ReadBreak => PlugRest
  BY Zenon DEF ReadBreak
<1> QED BY <1>1, <1>2, <1>3, <1>4, <1>5 DEF LineNext

\* All steps together; the steps of the line touch none of this.
LEMMA PlugStep ==
  ASSUME ~LatePlug, PlugInv, [PlugNext \/ LineNext]_controlVars
  PROVE  PlugInv'
<1>0. ASSUME UNCHANGED plugVars PROVE PlugInv'
  BY <1>0 DEF plugVars, PlugInv, PluggedKept, Ranged
<1>1. ASSUME NEW d \in UsbModule, Plug(d) PROVE PlugInv'
  BY <1>1, PlugKeeps
<1>2. ASSUME NEW value, SetConfiguration(value) PROVE PlugInv'
  BY <1>2, SetConfigurationKeeps
<1>3. CASE EndOfReset
  BY <1>3 DEF EndOfReset, PlugInv, PluggedKept, Ranged
<1>4. ASSUME NEW asked, NEW stop, NEW length,
             GetConfiguration(asked, stop) \/ GetString(asked, stop, length) PROVE PlugInv'
  BY <1>0, <1>4 DEF GetConfiguration, GetString
<1>5. CASE LineNext
  <2>1. UNCHANGED plugVars
    BY <1>5, LineKeepsPlugs DEF PlugRest
  <2> QED BY <2>1, <1>0
<1>6. CASE UNCHANGED controlVars
  BY <1>0, <1>6 DEF controlVars
<1> QED BY <1>1, <1>2, <1>3, <1>4, <1>5, <1>6 DEF PlugNext

\* No two pluggable modules share an endpoint or an interface, none takes those of CDC,
\* and after a configuration all are in use, for every set of modules and every number
\* of endpoints, if modules are plugged before the host configures.
THEOREM EndpointsStayApart ==
  ASSUME ~LatePlug
  PROVE  ControlSpec => []EndpointsAreApart
<1>1. PlugInv /\ [PlugNext \/ LineNext]_controlVars => PlugInv'
  BY PlugStep
<1>2. PlugInv => EndpointsAreApart
  <2> SUFFICES ASSUME PlugInv PROVE EndpointsAreApart
    OBVIOUS
  <2>1. ASSUME NEW i \in DOMAIN plugged,
               NEW e \in plugged[i].ep .. plugged[i].ep + plugged[i].module.endpoints - 1
        PROVE  e \in 1 .. lastEp - 1
    <3>0. plugged \in Seq(PluggedModule) /\ lastEp \in Nat
      BY ControlAssumption DEF PlugInv, PluggedKept
    <3>1. plugged[i] \in PluggedModule
      BY <3>0
    <3> DEFINE a == plugged[i].ep
               k == plugged[i].module.endpoints
    <3>2. a \in Nat /\ k \in Nat
      BY <3>1, ControlAssumption DEF PluggedModule
    <3>3. 4 <= a /\ a + k <= lastEp /\ e \in a .. a + k - 1
      BY DEF PlugInv, Ranged
    <3> HIDE DEF a, k
    <3> QED BY <3>0, <3>2, <3>3
  <2>2. 1 .. lastEp - 1 \subseteq DOMAIN initEndpoints /\ 1 .. 3 \subseteq 1 .. lastEp - 1
    BY ControlAssumption DEF PlugInv, PluggedKept
  <2>3. configuration # 0 => 1 .. lastEp - 1 \subseteq active
    BY DEF PlugInv, PluggedKept
  <2> QED BY <2>1, <2>2, <2>3 DEF PlugInv, PluggedKept, Ranged, EndpointsAreApart
<1> QED BY <1>1, <1>2, InitEstablishesPlug, PTL DEF ControlSpec

(***************************************************************************)
(* The USB pipes.                                                          *)
(***************************************************************************)

\* What a sequence of at most two banks holds.
LEMMA FlattenBanks ==
  ASSUME NEW S
  PROVE  /\ FlattenSeq(<<>>) = <<>>
         /\ \A a \in Seq(S) : FlattenSeq(<<a>>) = a
         /\ \A a \in Seq(S), b \in Seq(S) : FlattenSeq(<<a, b>>) = a \o b
<1>1. FlattenSeq(<<>>) = <<>>
  BY DEF FlattenSeq
<1>2. ASSUME NEW a \in Seq(S) PROVE FlattenSeq(<<a>>) = a
  <2> DEFINE Unfolds(f) == f = [i \in 1 .. 1 |-> IF i = 1 THEN <<a>>[i] ELSE f[i - 1] \o <<a>>[i]]
             g == CHOOSE f : Unfolds(f)
  <2>1. Unfolds([i \in 1 .. 1 |-> a])
    OBVIOUS
  <2>2. Unfolds(g)
    <3> HIDE DEF Unfolds
    <3> QED BY <2>1
  <2>3. FlattenSeq(<<a>>) = g[1]
    BY DEF FlattenSeq
  <2> HIDE DEF g
  <2> QED BY <2>2, <2>3
<1>3. ASSUME NEW a \in Seq(S), NEW b \in Seq(S) PROVE FlattenSeq(<<a, b>>) = a \o b
  <2> DEFINE Unfolds(f) == f = [i \in 1 .. 2 |-> IF i = 1 THEN <<a, b>>[i] ELSE f[i - 1] \o <<a, b>>[i]]
             g == CHOOSE f : Unfolds(f)
  <2>1. Unfolds([i \in 1 .. 2 |-> IF i = 1 THEN a ELSE a \o b])
    OBVIOUS
  <2>2. Unfolds(g)
    <3> HIDE DEF Unfolds
    <3> QED BY <2>1
  <2>3. FlattenSeq(<<a, b>>) = g[2]
    BY DEF FlattenSeq
  <2> HIDE DEF g
  <2>4. \A i \in 1 .. 2 : g[i] = IF i = 1 THEN <<a, b>>[i] ELSE g[i - 1] \o <<a, b>>[i]
    <3>1. g = [i \in 1 .. 2 |-> IF i = 1 THEN <<a, b>>[i] ELSE g[i - 1] \o <<a, b>>[i]]
      BY <2>2
    <3> QED BY <3>1, Zenon
  <2>5. g[1] = <<a, b>>[1]
    BY <2>4
  <2>6. g[2] = g[2 - 1] \o <<a, b>>[2]
    BY <2>4
  <2>7. <<a, b>>[1] = a /\ <<a, b>>[2] = b /\ 2 - 1 = 1
    OBVIOUS
  <2> QED BY <2>3, <2>5, <2>6, <2>7, Zenon
<1> QED BY <1>1, <1>2, <1>3

\* Three parts of a message, joined in either order.
LEMMA ThreeParts ==
  ASSUME NEW S, NEW a \in Seq(S), NEW b \in Seq(S), NEW c \in Seq(S)
  PROVE  (a \o b) \o c = a \o (b \o c) /\ a \o b \in Seq(S) /\ b \o c \in Seq(S)
<1>1. (a \o b) \o c = a \o (b \o c)
  BY ConcatAssociative
<1>2. a \o b \in Seq(S) /\ b \o c \in Seq(S)
  OBVIOUS
<1> QED BY <1>1, <1>2

\* A part of a joined sequence is the part that was joined.
LEMMA PartsOfConcat ==
  ASSUME NEW S, NEW s \in Seq(S), NEW w \in Seq(S)
  PROVE  /\ SubSeq(s \o w, Len(s) + 1, Len(s \o w)) = w
         /\ SubSeq(s \o w, 1, Len(s \o w) - Len(w)) = s
<1>1. s \o w \in Seq(S) /\ Len(s \o w) = Len(s) + Len(w)
  BY ConcatProperties
<1>2. SubSeq(s \o w, Len(s) + 1, Len(s \o w)) = w
  <2>1. CASE w = <<>>
    BY <2>1, <1>1, SubSeqEmpty
  <2>2. CASE w # <<>>
    <3>1. Len(w) \in Nat \ {0} /\ Len(s) \in Nat
      BY <2>2
    <3>2. SubSeq(s \o w, Len(s) + 1, Len(s) + Len(w)) = SubSeq(w, Len(s) + 1 - Len(s), Len(s) + Len(w) - Len(s))
      BY <3>1, SubSeqOfConcat2
    <3>3. Len(s) + 1 - Len(s) = 1 /\ Len(s) + Len(w) - Len(s) = Len(w)
      BY <3>1
    <3> QED BY <1>1, <3>2, <3>3, SubSeqFull
  <2> QED BY <2>1, <2>2
<1>3. SubSeq(s \o w, 1, Len(s \o w) - Len(w)) = s
  <2>0. Len(s \o w) - Len(w) = Len(s) /\ Len(s) \in Nat
    BY <1>1
  <2>1. CASE s = <<>>
    BY <2>1, <2>0, SubSeqEmpty
  <2>2. CASE s # <<>>
    <3>1. Len(s) \in Nat \ {0}
      BY <2>2
    <3>2. SubSeq(s \o w, 1, Len(s)) = SubSeq(s, 1, Len(s))
      BY <3>1, SubSeqOfConcat1
    <3> QED BY <2>0, <3>2, SubSeqFull
  <2> QED BY <2>1, <2>2
<1> QED BY <1>2, <1>3

\* Sequences of one and of two elements.
LEMMA ShortSequences ==
  ASSUME NEW T
  PROVE  /\ \A s \in Seq(T) : Len(s) = 1 => s = <<s[1]>> /\ s[1] \in T
         /\ \A s \in Seq(T) : Len(s) = 2 => s = <<s[1], s[2]>> /\ s[1] \in T /\ s[2] \in T
         /\ \A a \in T : <<a>> \in Seq(T) /\ Len(<<a>>) = 1 /\ Tail(<<a>>) = <<>>
<1>1. ASSUME NEW s \in Seq(T), Len(s) = 1 PROVE s = <<s[1]>> /\ s[1] \in T
  <2>1. s[1] \in T
    BY <1>1
  <2>2. <<s[1]>> \in Seq(T) /\ Len(<<s[1]>>) = 1 /\ \A i \in 1 .. 1 : s[i] = <<s[1]>>[i]
    BY <2>1
  <2> QED BY <1>1, <2>1, <2>2, SeqEqual
<1>2. ASSUME NEW s \in Seq(T), Len(s) = 2 PROVE s = <<s[1], s[2]>> /\ s[1] \in T /\ s[2] \in T
  <2>1. s[1] \in T /\ s[2] \in T
    BY <1>2
  <2>2. <<s[1], s[2]>> \in Seq(T) /\ Len(<<s[1], s[2]>>) = 2
    BY <2>1
  <2>3. \A i \in 1 .. 2 : s[i] = <<s[1], s[2]>>[i]
    <3>1. <<s[1], s[2]>>[1] = s[1] /\ <<s[1], s[2]>>[2] = s[2]
      OBVIOUS
    <3> QED BY <3>1
  <2> QED BY <1>2, <2>1, <2>2, <2>3, SeqEqual
<1>3. ASSUME NEW a \in T PROVE <<a>> \in Seq(T) /\ Len(<<a>>) = 1 /\ Tail(<<a>>) = <<>>
  OBVIOUS
<1> QED BY <1>1, <1>2, <1>3

\* Two banks, as a sequence.
LEMMA PairSequence ==
  ASSUME NEW T, NEW a \in T, NEW b \in T
  PROVE  /\ <<a, b>> \in Seq(T) /\ Len(<<a, b>>) = 2 /\ Tail(<<a, b>>) = <<b>>
         /\ Append(<<a>>, b) = <<a, b>>
<1>1. <<a, b>> \in Seq(T) /\ Len(<<a, b>>) = 2 /\ Tail(<<a, b>>) = <<b>>
  OBVIOUS
<1>2. Append(<<a>>, b) \in Seq(T) /\ Len(Append(<<a>>, b)) = 2
  OBVIOUS
<1>3. Append(<<a>>, b)[1] = a /\ Append(<<a>>, b)[2] = b
  OBVIOUS
<1>4. \A i \in 1 .. 2 : Append(<<a>>, b)[i] = <<a, b>>[i]
  <2>1. <<a, b>>[1] = a /\ <<a, b>>[2] = b
    OBVIOUS
  <2> QED BY <2>1, <1>3
<1> QED BY <1>1, <1>2, <1>4, SeqEqual

\* At most two banks.
Banks(S) == {s \in Seq(Seq(S)) : Len(s) <= 2}

\* No bank, one bank or two.
LEMMA BankCases ==
  ASSUME NEW S, NEW s \in Banks(S)
  PROVE  \/ s = <<>> /\ FlattenSeq(s) = <<>>
         \/ \E a \in Seq(S) : s = <<a>> /\ FlattenSeq(s) = a
         \/ \E a \in Seq(S), b \in Seq(S) : s = <<a, b>> /\ FlattenSeq(s) = a \o b
<1> DEFINE T == Seq(S)
<1>a. s \in Seq(T) /\ Len(s) <= 2
  BY DEF Banks
<1>b. /\ \A a \in T : FlattenSeq(<<a>>) = a
      /\ \A a \in T, b \in T : FlattenSeq(<<a, b>>) = a \o b
      /\ FlattenSeq(<<>>) = <<>>
  BY FlattenBanks
<1> SUFFICES \/ s = <<>> /\ FlattenSeq(s) = <<>>
             \/ \E a \in T : s = <<a>> /\ FlattenSeq(s) = a
             \/ \E a \in T, b \in T : s = <<a, b>> /\ FlattenSeq(s) = a \o b
  OBVIOUS
<1> HIDE DEF T
<1>0. Len(s) \in 0 .. 2
  <2>1. Len(s) \in Nat
    BY <1>a, LenProperties
  <2>2. Len(s) <= 2
    BY <1>a, Zenon
  <2>3. \A k \in Nat : k <= 2 => k \in 0 .. 2
    OBVIOUS
  <2> QED BY <2>1, <2>2, <2>3, Zenon
<1>1. CASE Len(s) = 0
  <2>1. s = <<>>
    BY <1>a, <1>1
  <2> QED BY <2>1, <1>b
<1>2. CASE Len(s) = 1
  <2>1. s = <<s[1]>> /\ s[1] \in T
    BY <1>a, <1>2, ShortSequences
  <2> QED BY <2>1, <1>b
<1>3. CASE Len(s) = 2
  <2>1. s = <<s[1], s[2]>> /\ s[1] \in T /\ s[2] \in T
    BY <1>a, <1>3, ShortSequences
  <2> QED BY <2>1, <1>b
<1> QED BY <1>0, <1>1, <1>2, <1>3

\* Which sequences are banks, and what they hold.
LEMMA BanksOf ==
  ASSUME NEW S
  PROVE  /\ <<>> \in Banks(S)
         /\ \A a \in Seq(S) : <<a>> \in Banks(S) /\ Len(<<a>>) = 1 /\ Tail(<<a>>) = <<>>
<1> DEFINE T == Seq(S)
           B == {s \in Seq(T) : Len(s) <= 2}
<1>1. Banks(S) = B
  BY DEF Banks
<1> SUFFICES /\ <<>> \in B
             /\ \A a \in T : <<a>> \in B /\ Len(<<a>>) = 1 /\ Tail(<<a>>) = <<>>
  BY <1>1
<1> HIDE DEF T
<1> QED BY ShortSequences

LEMMA TwoBanks ==
  ASSUME NEW S, NEW a \in Seq(S), NEW b \in Seq(S)
  PROVE  <<a, b>> \in Banks(S) /\ Tail(<<a, b>>) = <<b>> /\ Append(<<a>>, b) = <<a, b>>
<1> DEFINE T == Seq(S)
<1>1. a \in T /\ b \in T
  OBVIOUS
<1>2. <<a, b>> \in Banks(S) <=> <<a, b>> \in Seq(T) /\ Len(<<a, b>>) <= 2
  BY DEF Banks
<1> HIDE DEF T
<1>3. /\ <<a, b>> \in Seq(T) /\ Len(<<a, b>>) = 2 /\ Tail(<<a, b>>) = <<b>>
      /\ Append(<<a>>, b) = <<a, b>>
  BY <1>1, PairSequence
<1> QED BY <1>2, <1>3

\* Banks hold bytes.
LEMMA FlattenType ==
  ASSUME NEW S, NEW s \in Banks(S)
  PROVE  FlattenSeq(s) \in Seq(S)
<1>1. <<>> \in Seq(S)
  OBVIOUS
<1>2. \A a \in Seq(S), b \in Seq(S) : a \o b \in Seq(S)
  BY ConcatProperties
<1>3. ASSUME NEW a \in Seq(S), NEW b \in Seq(S), FlattenSeq(s) = a \o b PROVE FlattenSeq(s) \in Seq(S)
  BY <1>2, <1>3, Zenon
<1>4. ASSUME FlattenSeq(s) = <<>> PROVE FlattenSeq(s) \in Seq(S)
  BY <1>1, <1>4, Zenon
<1> QED BY <1>3, <1>4, BankCases, Zenon

LEMMA AppendBank ==
  ASSUME NEW S, NEW s \in Banks(S), Len(s) < 2, NEW b \in Seq(S)
  PROVE  Append(s, b) \in Banks(S) /\ FlattenSeq(Append(s, b)) = FlattenSeq(s) \o b
<1>1. CASE s = <<>>
  <2>1. Append(s, b) = <<b>> /\ FlattenSeq(s) = <<>>
    BY <1>1, FlattenBanks
  <2>2. FlattenSeq(<<b>>) = b /\ <<>> \o b = b
    BY FlattenBanks, ConcatEmptySeq
  <2> QED BY <2>1, <2>2, BanksOf
<1>2. CASE \E a \in Seq(S) : s = <<a>> /\ FlattenSeq(s) = a
  <2>1. PICK a \in Seq(S) : s = <<a>> /\ FlattenSeq(s) = a
    BY <1>2
  <2>2. Append(<<a>>, b) = <<a, b>> /\ <<a, b>> \in Banks(S)
    BY TwoBanks
  <2>3. FlattenSeq(<<a, b>>) = a \o b
    BY FlattenBanks
  <2> QED BY <2>1, <2>2, <2>3, Zenon
<1>3. CASE \E a \in Seq(S), c \in Seq(S) : s = <<a, c>> /\ FlattenSeq(s) = a \o c
  <2>1. PICK a \in Seq(S), c \in Seq(S) : s = <<a, c>>
    BY <1>3
  <2>2. Len(s) = 2
    BY <2>1
  <2> QED BY <2>2
<1> QED BY <1>1, <1>2, <1>3, BankCases

LEMMA HeadBank ==
  ASSUME NEW S, NEW s \in Banks(S), s # <<>>
  PROVE  /\ s[1] \in Seq(S) /\ Tail(s) \in Banks(S) /\ Len(Tail(s)) < 2
         /\ FlattenSeq(s) = s[1] \o FlattenSeq(Tail(s))
<1>1. CASE \E a \in Seq(S) : s = <<a>> /\ FlattenSeq(s) = a
  <2>1. PICK a \in Seq(S) : s = <<a>> /\ FlattenSeq(s) = a
    BY <1>1
  <2>2. Tail(s) = <<>> /\ s[1] = a
    BY <2>1
  <2>3. <<>> \in Banks(S) /\ Len(<<>>) = 0
    BY BanksOf
  <2>4. a \o <<>> = a /\ FlattenSeq(<<>>) = <<>>
    BY FlattenBanks, ConcatEmptySeq
  <2> QED BY <2>1, <2>2, <2>3, <2>4
<1>2. CASE \E a \in Seq(S), b \in Seq(S) : s = <<a, b>> /\ FlattenSeq(s) = a \o b
  <2>1. PICK a \in Seq(S), b \in Seq(S) : s = <<a, b>> /\ FlattenSeq(s) = a \o b
    BY <1>2
  <2>2. Tail(s) = <<b>> /\ s[1] = a
    BY <2>1
  <2>3. <<b>> \in Banks(S) /\ Len(<<b>>) = 1 /\ 1 < 2
    BY BanksOf
  <2>4. FlattenSeq(<<b>>) = b
    BY FlattenBanks
  <2>5. Len(Tail(s)) < 2
    BY <2>2, <2>3, Zenon
  <2> QED BY <2>1, <2>2, <2>3, <2>4, <2>5, Zenon
<1> QED BY <1>1, <1>2, BankCases

\* The first byte of the first bank is taken out.
LEMMA TakeByte ==
  ASSUME NEW S, NEW s \in Banks(S), s # <<>>, s[1] # <<>>,
         NEW w, w = IF Len(s[1]) = 1 THEN Tail(s) ELSE [s EXCEPT ![1] = Tail(@)]
  PROVE  w \in Banks(S) /\ FlattenSeq(s) = <<s[1][1]>> \o FlattenSeq(w) /\ s[1][1] \in S
<1> DEFINE f == s[1]
           r == FlattenSeq(Tail(s))
           x == f[1]
<1>0. f \in Seq(S) /\ Tail(s) \in Banks(S) /\ FlattenSeq(s) = f \o r /\ r \in Seq(S) /\ f # <<>>
  BY HeadBank, FlattenType
<1>w. w = IF Len(f) = 1 THEN Tail(s) ELSE [s EXCEPT ![1] = Tail(f)]
  OBVIOUS
<1> SUFFICES w \in Banks(S) /\ FlattenSeq(s) = <<x>> \o FlattenSeq(w) /\ x \in S
  OBVIOUS
<1>f. f = s[1]
  OBVIOUS
<1> HIDE DEF f
<1>1. f = <<x>> \o Tail(f) /\ x \in S /\ Tail(f) \in Seq(S) /\ <<x>> \in Seq(S)
  <2>1. Len(f) \in Nat \ {0}
    BY <1>0
  <2>2. SubSeq(f, 1, Len(f)) = <<f[1]>> \o SubSeq(f, 2, Len(f))
    <3>1. 1 \in 1 .. Len(f) /\ Len(f) \in 1 .. Len(f) /\ 1 + 1 = 2
      BY <2>1
    <3> QED BY <1>0, <3>1, SubSeqRecursiveFirst
  <2>3. SubSeq(f, 1, Len(f)) = f /\ SubSeq(f, 2, Len(f)) = Tail(f)
    BY <1>0, SubSeqFull, TailIsSubSeq
  <2> QED BY <1>0, <2>1, <2>2, <2>3
<1> HIDE DEF r, x
<1>2. CASE Len(f) = 1
  <2>1. Tail(f) = <<>>
    <3>1. Len(Tail(f)) = 0
      BY <1>0, <1>2, HeadTailProperties
    <3> QED BY <1>1, <3>1, EmptySeq
  <2>2. <<x>> \o <<>> = <<x>>
    BY <1>1, ConcatEmptySeq
  <2> QED BY <1>0, <1>1, <1>2, <1>w, <2>1, <2>2 DEF r
<1>3. CASE Len(f) # 1
  <2>1. w = [s EXCEPT ![1] = Tail(f)]
    BY <1>3, <1>w
  <2>2. w # <<>> /\ w \in Banks(S) /\ w[1] = Tail(f) /\ Tail(w) = Tail(s)
    <3>1. CASE \E a \in Seq(S) : s = <<a>> /\ FlattenSeq(s) = a
      <4>1. PICK a \in Seq(S) : s = <<a>>
        BY <3>1
      <4>2. [<<a>> EXCEPT ![1] = Tail(f)] = <<Tail(f)>>
        OBVIOUS
      <4>3. w = <<Tail(f)>>
        BY <2>1, <4>1, <4>2, Zenon
      <4>4. Tail(<<Tail(f)>>) = <<>> /\ Tail(<<a>>) = <<>> /\ <<Tail(f)>> \in Banks(S)
        BY <1>1, BanksOf, Zenon
      <4>5. <<Tail(f)>> # <<>> /\ <<Tail(f)>>[1] = Tail(f)
        OBVIOUS
      <4> QED BY <4>1, <4>3, <4>4, <4>5, Zenon
    <3>2. CASE \E a \in Seq(S), b \in Seq(S) : s = <<a, b>> /\ FlattenSeq(s) = a \o b
      <4>1. PICK a \in Seq(S), b \in Seq(S) : s = <<a, b>>
        BY <3>2
      <4>2. [<<a, b>> EXCEPT ![1] = Tail(f)] = <<Tail(f), b>>
        OBVIOUS
      <4>3. w = <<Tail(f), b>>
        BY <2>1, <4>1, <4>2, Zenon
      <4>4. Tail(<<Tail(f), b>>) = <<b>> /\ Tail(<<a, b>>) = <<b>> /\ <<Tail(f), b>> \in Banks(S)
        BY <1>1, TwoBanks
      <4>5. <<Tail(f), b>> # <<>> /\ <<Tail(f), b>>[1] = Tail(f)
        OBVIOUS
      <4> QED BY <4>1, <4>3, <4>4, <4>5, Zenon
    <3> QED BY <3>1, <3>2, BankCases
  <2>3. FlattenSeq(w) = Tail(f) \o r
    BY <2>2, HeadBank DEF r
  <2>4. (<<x>> \o Tail(f)) \o r = <<x>> \o (Tail(f) \o r)
    BY <1>0, <1>1, ConcatAssociative
  <2> QED BY <1>0, <1>1, <2>2, <2>3, <2>4
<1> QED BY <1>2, <1>3

\* Types of the sending side. A bank is filled only while one is free.
TxTypeOK ==
  /\ bank \in Seq(EpByte) /\ rest \in Seq(EpByte) /\ sent \in Banks(EpByte)
  /\ bank # <<>> => Len(sent) < 2
  /\ pipeAt \in {"out", "count", "flush"} => rest = <<>>
  /\ pipeAt = "fill" => room \in 0 .. Len(rest)

\* What has left, what waits in the bank and what USB_Send() still has to send are,
\* in this order, what it was called with.
TxKept == FlattenSeq(sent) \o (bank \o rest) = due

\* The invariants of the two directions.
TxInv == TxTypeOK /\ TxKept

RxInv ==
  /\ peek_buffer \in Seq(EpByte) /\ Len(peek_buffer) <= 1
  /\ got \in Banks(EpByte)
  /\ peek_buffer \o FlattenSeq(got) = unread

\* They are what PipeKeepsBytes says.
LEMMA PipeKept == TxInv /\ RxInv => PipeKeepsBytes
<1> SUFFICES ASSUME TxInv, RxInv PROVE PipeKeepsBytes
  OBVIOUS
<1>1. FlattenSeq(sent) \in Seq(EpByte) /\ bank \in Seq(EpByte) /\ rest \in Seq(EpByte)
  BY FlattenType DEF TxInv, TxTypeOK
<1>2. FlattenSeq(sent) \o bank \o rest = FlattenSeq(sent) \o (bank \o rest)
  BY <1>1, ConcatAssociative
<1> QED BY <1>2 DEF TxInv, TxKept, RxInv, PipeKeepsBytes

LEMMA InitEstablishesPipe == TxInit /\ RxInit => TxInv /\ RxInv
<1>1. <<>> \in Banks(EpByte) /\ <<>> \in Seq(EpByte) /\ FlattenSeq(<<>>) = <<>> /\ Len(<<>>) = 0
  BY BanksOf, FlattenBanks
<1>2. <<>> \o (<<>> \o <<>>) = <<>> /\ <<>> \o <<>> = <<>>
  BY ConcatEmptySeq, <1>1
<1> QED BY <1>1, <1>2 DEF TxInit, RxInit, TxInv, TxTypeOK, TxKept, RxInv

\* A bank that is released goes behind those the host has not read.
LEMMA ReleaseKeeps ==
  ASSUME NEW s \in Banks(EpByte), Len(s) < 2, NEW b \in Seq(EpByte), NEW r \in Seq(EpByte)
  PROVE  /\ Append(s, b) \in Banks(EpByte)
         /\ FlattenSeq(Append(s, b)) \o (<<>> \o r) = FlattenSeq(s) \o (b \o r)
<1>1. Append(s, b) \in Banks(EpByte) /\ FlattenSeq(Append(s, b)) = FlattenSeq(s) \o b
  BY AppendBank
<1>2. <<>> \o r = r
  BY ConcatEmptySeq
<1>3. (FlattenSeq(s) \o b) \o r = FlattenSeq(s) \o (b \o r)
  <2>1. FlattenSeq(s) \in Seq(EpByte)
    BY FlattenType
  <2>2. \A x \in Seq(EpByte) : (x \o b) \o r = x \o (b \o r)
    BY ConcatAssociative
  <2> QED BY <2>1, <2>2, Zenon
<1> QED BY <1>1, <1>2, <1>3, Zenon

\* The steps of USB_Send().
LEMMA WriteCallKeeps ==
  ASSUME TxInv, NEW data \in Seq(EpByte), WriteCall(data)
  PROVE  TxInv'
<1>1. /\ rest' = data /\ due' = due \o data /\ UNCHANGED <<bank, sent>>
      /\ pipeAt = "out" /\ pipeAt' = "space"
  BY DEF WriteCall, Goto
<1>2. bank \o <<>> = bank /\ FlattenSeq(sent) \in Seq(EpByte) /\ bank \in Seq(EpByte)
  BY ConcatEmptySeq, FlattenType DEF TxInv, TxTypeOK
<1>3. due = FlattenSeq(sent) \o bank
  BY <1>1, <1>2 DEF TxInv, TxTypeOK, TxKept
<1>4. (FlattenSeq(sent) \o bank) \o data = FlattenSeq(sent) \o (bank \o data)
  <2>1. FlattenSeq(sent) \in Seq(EpByte) /\ bank \in Seq(EpByte)
    BY <1>2
  <2> QED BY <2>1, ConcatAssociative
<1> QED BY <1>1, <1>3, <1>4 DEF TxInv, TxTypeOK, TxKept

LEMMA SendSpaceKeeps ==
  ASSUME TxInv, SendSpace
  PROVE  TxInv'
<1> DEFINE space == IF ReadWriteAllowed THEN EpSize - Len(bank) ELSE 0
<1>0. /\ bank \in Seq(EpByte) /\ rest \in Seq(EpByte) /\ FlattenSeq(sent) \in Seq(EpByte)
      /\ FlattenSeq(sent) \o (bank \o rest) = due
  BY FlattenType DEF TxInv, TxTypeOK, TxKept
<1>1. pipeAt = "space" /\ UNCHANGED <<bank, sent>>
  BY DEF SendSpace
<1>2. CASE /\ space > 0 /\ room' = IF space > Len(rest) THEN Len(rest) ELSE space
           /\ pipeAt' = "fill" /\ UNCHANGED <<rest, timeout, due, cut>>
  <2>1. space \in Nat /\ Len(rest) \in Nat
    BY <1>0, <1>2, PipeAssumption
  <2>2. room' \in 0 .. Len(rest)
    <3> HIDE DEF space
    <3> QED BY <1>2, <2>1
  <2> QED BY <1>1, <1>2, <2>2 DEF TxInv, TxTypeOK, TxKept
<1>3. CASE timeout' = timeout - 1 /\ UNCHANGED <<pipeAt, rest, room, due, cut>>
  BY <1>1, <1>3 DEF TxInv, TxTypeOK, TxKept
<1>4. CASE /\ pipeAt' = "out" /\ rest' = <<>>
           /\ due' = SubSeq(due, 1, Len(due) - Len(rest))
  <2>1. (FlattenSeq(sent) \o bank) \o rest = due /\ FlattenSeq(sent) \o bank \in Seq(EpByte)
    <3>1. bank \in Seq(EpByte) /\ rest \in Seq(EpByte) /\ FlattenSeq(sent) \in Seq(EpByte)
      BY <1>0
    <3>2. (FlattenSeq(sent) \o bank) \o rest = FlattenSeq(sent) \o (bank \o rest)
      BY <3>1, ConcatAssociative
    <3>3. FlattenSeq(sent) \o bank \in Seq(EpByte)
      BY <3>1
    <3> QED BY <1>0, <3>2, <3>3
  <2>2. due' = FlattenSeq(sent) \o bank
    BY <1>0, <1>4, <2>1, PartsOfConcat
  <2>3. bank \o <<>> = bank
    BY <1>0, ConcatEmptySeq
  <2>4. TxTypeOK'
    BY <1>1, <1>4 DEF TxInv, TxTypeOK
  <2>5. TxKept'
    BY <1>1, <1>4, <2>2, <2>3 DEF TxKept
  <2> QED BY <2>4, <2>5 DEF TxInv
<1> QED BY <1>2, <1>3, <1>4 DEF SendSpace

LEMMA SendFillKeeps ==
  ASSUME TxInv, SendFill
  PROVE  TxInv'
<1>0. /\ bank \in Seq(EpByte) /\ rest \in Seq(EpByte) /\ sent \in Banks(EpByte) /\ FlattenSeq(sent) \in Seq(EpByte)
      /\ FlattenSeq(sent) \o (bank \o rest) = due /\ (bank # <<>> => Len(sent) < 2)
  BY FlattenType DEF TxInv, TxTypeOK, TxKept
<1>1. pipeAt = "fill" /\ pipeAt' = "space" /\ due' = due
  BY DEF SendFill
<1>2. CASE ~ReadWriteAllowed
  <2>1. UNCHANGED <<rest, bank, sent>>
    BY <1>2 DEF SendFill
  <2> QED BY <1>0, <1>1, <2>1 DEF TxInv, TxTypeOK, TxKept
<1>3. CASE ReadWriteAllowed
  <2> DEFINE head == SubSeq(rest, 1, room)
             tail == SubSeq(rest, room + 1, Len(rest))
             filled == bank \o head
  <2>0. room \in 0 .. Len(rest) /\ Len(rest) \in Nat /\ Len(sent) < 2
    BY <1>0, <1>1, <1>3 DEF TxInv, TxTypeOK, ReadWriteAllowed
  <2>1. rest' = tail /\ (\/ sent' = Append(sent, filled) /\ bank' = <<>>
                         \/ bank' = filled /\ sent' = sent)
    BY <1>3 DEF SendFill, Release
  <2>2. head \o tail = rest /\ head \in Seq(EpByte) /\ tail \in Seq(EpByte)
    <3>1. SubSeq(rest, 1, room) \o SubSeq(rest, room + 1, Len(rest)) = SubSeq(rest, 1, Len(rest))
      <4>1. 1 \in 1 .. Len(rest) + 1 /\ room \in 1 - 1 .. Len(rest) /\ Len(rest) \in room .. Len(rest)
        BY <2>0
      <4> QED BY <1>0, <4>1, ConcatAdjacentSubSeq
    <3>2. SubSeq(rest, 1, Len(rest)) = rest
      BY <1>0, SubSeqFull
    <3>3. /\ \A i \in 1 .. room : rest[i] \in EpByte
          /\ \A i \in room + 1 .. Len(rest) : rest[i] \in EpByte
      BY <1>0, <2>0
    <3>4. head \in Seq(EpByte) /\ tail \in Seq(EpByte)
      BY <2>0, <3>3, SubSeqProperties
    <3> QED BY <3>1, <3>2, <3>4
  <2> HIDE DEF head, tail
  <2>3. filled \in Seq(EpByte) /\ filled \o tail = bank \o rest
    <3>1. bank \in Seq(EpByte) /\ head \in Seq(EpByte) /\ tail \in Seq(EpByte)
      BY <1>0, <2>2
    <3>2. (bank \o head) \o tail = bank \o (head \o tail)
      BY <3>1, ConcatAssociative
    <3>3. bank \o head \in Seq(EpByte)
      BY <3>1
    <3> QED BY <2>2, <3>2, <3>3, Zenon
  <2> HIDE DEF filled
  <2>4. CASE sent' = Append(sent, filled) /\ bank' = <<>>
    <3>1. /\ sent' \in Banks(EpByte)
          /\ FlattenSeq(sent') \o (<<>> \o tail) = FlattenSeq(sent) \o (filled \o tail)
      BY <1>0, <2>0, <2>2, <2>3, <2>4, ReleaseKeeps
    <3>2. TxTypeOK'
      BY <1>1, <2>1, <2>2, <2>4, <3>1 DEF TxTypeOK
    <3> QED BY <1>0, <1>1, <2>1, <2>3, <2>4, <3>1, <3>2 DEF TxInv, TxKept
  <2>5. CASE bank' = filled /\ sent' = sent
    <3>1. TxTypeOK'
      BY <1>0, <1>1, <2>0, <2>1, <2>2, <2>3, <2>5 DEF TxTypeOK
    <3> QED BY <1>0, <1>1, <2>1, <2>3, <2>5, <3>1 DEF TxInv, TxKept
  <2> QED BY <2>1, <2>4, <2>5
<1> QED BY <1>2, <1>3

\* The bank is released, as it is, by flush() and at the start of a frame.
LEMMA BankReleased ==
  ASSUME TxInv, Release(bank), Len(sent) < 2, rest' = rest, due' = due, room' = room,
         pipeAt' = pipeAt \/ (pipeAt' = "out" /\ rest = <<>>)
  PROVE  TxInv'
<1>0. /\ bank \in Seq(EpByte) /\ rest \in Seq(EpByte) /\ sent \in Banks(EpByte)
      /\ FlattenSeq(sent) \o (bank \o rest) = due
  BY DEF TxInv, TxTypeOK, TxKept
<1>1. sent' = Append(sent, bank) /\ bank' = <<>>
  BY DEF Release
<1>2. /\ sent' \in Banks(EpByte)
      /\ FlattenSeq(sent') \o (<<>> \o rest) = FlattenSeq(sent) \o (bank \o rest)
  BY <1>0, <1>1, ReleaseKeeps
<1>3. TxTypeOK'
  BY <1>1, <1>2 DEF TxInv, TxTypeOK
<1> QED BY <1>0, <1>1, <1>2, <1>3 DEF TxInv, TxKept

\* The banks are emptied: the program still has what it is sending.
LEMMA BanksEmptied ==
  ASSUME TxInv, bank' = <<>>, sent' = <<>>, due' = rest, pipeAt' = pipeAt, rest' = rest, room' = room
  PROVE  TxInv'
<1>1. <<>> \in Banks(EpByte) /\ <<>> \in Seq(EpByte) /\ FlattenSeq(<<>>) = <<>> /\ rest \in Seq(EpByte)
  BY BanksOf, FlattenBanks DEF TxInv, TxTypeOK
<1>2. <<>> \o (<<>> \o rest) = rest
  BY <1>1, ConcatEmptySeq
<1> QED BY <1>1, <1>2 DEF TxInv, TxTypeOK, TxKept

\* The host takes a bank.
LEMMA HostReadsKeeps ==
  ASSUME TxInv, HostReads
  PROVE  TxInv'
<1>0. /\ bank \in Seq(EpByte) /\ rest \in Seq(EpByte) /\ sent \in Banks(EpByte)
      /\ FlattenSeq(sent) \o (bank \o rest) = due
  BY DEF TxInv, TxTypeOK, TxKept
<1>1. /\ sent # <<>> /\ sent' = Tail(sent) /\ due' = SubSeq(due, Len(sent[1]) + 1, Len(due))
      /\ UNCHANGED <<bank, pipeAt, rest, room>>
  BY DEF HostReads, Send
<1>2. /\ sent[1] \in Seq(EpByte) /\ Tail(sent) \in Banks(EpByte) /\ Len(Tail(sent)) < 2
      /\ FlattenSeq(sent) = sent[1] \o FlattenSeq(Tail(sent)) /\ FlattenSeq(Tail(sent)) \in Seq(EpByte)
  BY <1>0, <1>1, HeadBank, FlattenType
<1> DEFINE more == FlattenSeq(Tail(sent)) \o (bank \o rest)
<1>3. due = sent[1] \o more /\ more \in Seq(EpByte)
  <2>1. bank \o rest \in Seq(EpByte)
    BY <1>0, ConcatProperties
  <2>2. (sent[1] \o FlattenSeq(Tail(sent))) \o (bank \o rest) = sent[1] \o (FlattenSeq(Tail(sent)) \o (bank \o rest))
    <3> DEFINE a == sent[1]
               b == FlattenSeq(Tail(sent))
               c == bank \o rest
    <3>1. a \in Seq(EpByte) /\ b \in Seq(EpByte) /\ c \in Seq(EpByte)
      BY <1>2, <2>1
    <3> HIDE DEF a, b, c
    <3>2. (a \o b) \o c = a \o (b \o c)
      BY <3>1, ThreeParts
    <3> QED BY <3>2 DEF a, b, c
  <2>3. more \in Seq(EpByte)
    BY <1>2, <2>1, ConcatProperties
  <2> QED BY <1>0, <1>2, <2>2, <2>3, Zenon
<1>4. due' = more
  BY <1>1, <1>2, <1>3, PartsOfConcat
<1> QED BY <1>0, <1>1, <1>2, <1>4 DEF TxInv, TxTypeOK, TxKept

LEMMA TxStutter ==
  ASSUME TxInv, bank' = bank, sent' = sent, rest' = rest, due' = due, room' = room,
         \/ pipeAt' = pipeAt
         \/ pipeAt' = "space"
         \/ rest = <<>> /\ pipeAt' \in {"out", "count", "flush"}
  PROVE  TxInv'
BY DEF TxInv, TxTypeOK, TxKept

\* All steps of the sending side.
LEMMA TxNextKeeps ==
  ASSUME TxInv, TxNext
  PROVE  TxInv'
<1>1. ASSUME NEW data \in BoundedSeq(EpByte, MaxWrite), WriteCall(data) PROVE TxInv'
  <2>1. data \in Seq(EpByte)
    BY DEF BoundedSeq, SeqOf
  <2> QED BY <1>1, <2>1, WriteCallKeeps
<1>2. CASE SendSpace \/ SendFill
  BY <1>2, SendSpaceKeeps, SendFillKeeps
<1>3. CASE SendReturn
  BY <1>3, TxStutter DEF SendReturn, Goto, Send
<1>4. CASE FlushCall
  BY <1>4, TxStutter DEF FlushCall, Goto, Send, TxInv, TxTypeOK
<1>5. CASE FlushCount
  <2>1. rest = <<>>
    BY <1>5 DEF FlushCount, TxInv, TxTypeOK
  <2> QED BY <1>5, <2>1, TxStutter DEF FlushCount, Send
<1>6. CASE FlushRelease
  <2>1. rest = <<>> /\ pipeAt' = "out" /\ UNCHANGED <<rest, due, room>>
    BY <1>6 DEF FlushRelease, Goto, Send, TxInv, TxTypeOK
  <2>2. CASE uenum = "tx" /\ Len(sent) < 2
    BY <1>6, <2>1, <2>2, BankReleased DEF FlushRelease
  <2>3. CASE ~(uenum = "tx" /\ Len(sent) < 2)
    BY <1>6, <2>1, <2>3, TxStutter DEF FlushRelease
  <2> QED BY <2>2, <2>3
<1>7. CASE StartOfFrame
  <2>1. rest' = rest /\ due' = due /\ room' = room /\ pipeAt' = pipeAt
    BY <1>7 DEF StartOfFrame, Send
  <2>2. CASE bank # <<>>
    <3>1. Len(sent) < 2
      BY <2>2 DEF TxInv, TxTypeOK
    <3>2. Release(bank)
      BY <1>7, <2>2 DEF StartOfFrame
    <3> QED BY <2>1, <3>1, <3>2, BankReleased
  <2>3. CASE bank = <<>>
    <3>1. bank' = bank /\ sent' = sent
      BY <1>7, <2>3 DEF StartOfFrame
    <3> QED BY <2>1, <3>1, TxStutter
  <2> QED BY <2>2, <2>3
<1>8. CASE Reset
  BY <1>8, BanksEmptied DEF Reset, Send
<1>9. CASE ControlRequest
  <2>1. rest' = rest /\ room' = room /\ pipeAt' = pipeAt
    BY <1>9 DEF ControlRequest, Send
  <2>2. CASE UNCHANGED <<bank, sent, due, last>>
    BY <2>1, <2>2, TxStutter
  <2>3. CASE bank' = <<>> /\ sent' = <<>> /\ due' = rest
    BY <2>1, <2>3, BanksEmptied
  <2> QED BY <1>9, <2>2, <2>3 DEF ControlRequest
<1>10. CASE HostReads
  BY <1>10, HostReadsKeeps
<1> QED BY <1>1, <1>2, <1>3, <1>4, <1>5, <1>6, <1>7, <1>8, <1>9, <1>10 DEF TxNext, TxStep

LEMMA TookByte ==
  ASSUME RxInv, CanRecv, Recv
  PROVE  got' \in Banks(EpByte) /\ FlattenSeq(got) = <<got[1][1]>> \o FlattenSeq(got') /\ got[1][1] \in EpByte
BY TakeByte DEF RxInv, CanRecv, Recv

\* All steps of the receiving side.
LEMMA RxNextKeeps ==
  ASSUME RxInv, RxNext
  PROVE  RxInv'
<1>0. /\ peek_buffer \in Seq(EpByte) /\ got \in Banks(EpByte) /\ FlattenSeq(got) \in Seq(EpByte)
      /\ Len(peek_buffer) \in {0, 1} /\ peek_buffer \o FlattenSeq(got) = unread
  <2>1. peek_buffer \in Seq(EpByte) /\ got \in Banks(EpByte) /\ peek_buffer \o FlattenSeq(got) = unread
    BY DEF RxInv
  <2>2. FlattenSeq(got) \in Seq(EpByte)
    BY <2>1, FlattenType
  <2>3. Len(peek_buffer) \in Nat /\ Len(peek_buffer) <= 1
    BY <2>1, LenProperties DEF RxInv
  <2>4. Len(peek_buffer) \in {0, 1}
    BY <2>3
  <2> QED BY <2>1, <2>2, <2>4
<1>1. CASE Peek
  <2>1. peek_buffer = <<>> /\ CanRecv /\ Recv /\ peek_buffer' = <<got[1][1]>> /\ unread' = unread
    BY <1>1 DEF Peek
  <2>2. got' \in Banks(EpByte) /\ FlattenSeq(got) = <<got[1][1]>> \o FlattenSeq(got') /\ got[1][1] \in EpByte
    BY <2>1, TookByte
  <2>3. unread = FlattenSeq(got)
    BY <1>0, <2>1, ConcatEmptySeq
  <2>4. peek_buffer' \in Seq(EpByte) /\ Len(peek_buffer') = 1
    BY <2>1, <2>2
  <2> QED BY <2>1, <2>2, <2>3, <2>4 DEF RxInv
<1>2. CASE Read /\ peek_buffer # <<>>
  <2>1. peek_buffer' = <<>> /\ got' = got /\ unread' = Tail(unread)
    BY <1>2 DEF Read
  <2>2. Len(peek_buffer) = 1
    BY <1>0, <1>2
  <2>3. Tail(unread) = FlattenSeq(got)
    <3>1. SubSeq(unread, Len(peek_buffer) + 1, Len(unread)) = FlattenSeq(got)
      BY <1>0, PartsOfConcat
    <3>2. unread \in Seq(EpByte) /\ unread # <<>>
      <4>1. unread \in Seq(EpByte) /\ Len(unread) = Len(peek_buffer) + Len(FlattenSeq(got))
        BY <1>0, ConcatProperties
      <4>2. Len(FlattenSeq(got)) \in Nat
        BY <1>0, LenProperties
      <4>3. Len(unread) # 0
        BY <2>2, <4>1, <4>2
      <4> QED BY <4>1, <4>3
    <3> QED BY <2>2, <3>1, <3>2, TailIsSubSeq
  <2>4. <<>> \o FlattenSeq(got) = FlattenSeq(got) /\ <<>> \in Seq(EpByte) /\ Len(<<>>) = 0
    BY <1>0, ConcatEmptySeq
  <2> QED BY <1>0, <2>1, <2>3, <2>4 DEF RxInv
<1>3. CASE Read /\ peek_buffer = <<>>
  <2>1. CanRecv /\ Recv /\ peek_buffer' = <<>> /\ unread' = Tail(unread)
    BY <1>3 DEF Read
  <2>2. got' \in Banks(EpByte) /\ FlattenSeq(got) = <<got[1][1]>> \o FlattenSeq(got') /\ got[1][1] \in EpByte
    BY <2>1, TookByte
  <2>3. unread = FlattenSeq(got) /\ <<got[1][1]>> \in Seq(EpByte) /\ Len(<<got[1][1]>>) = 1
    BY <1>0, <1>3, <2>2, ConcatEmptySeq
  <2>4. FlattenSeq(got') \in Seq(EpByte)
    BY <2>2, FlattenType
  <2>5. Tail(unread) = FlattenSeq(got')
    <3>1. SubSeq(unread, 1 + 1, Len(unread)) = FlattenSeq(got')
      BY <2>2, <2>3, <2>4, PartsOfConcat
    <3>2. unread \in Seq(EpByte) /\ unread # <<>>
      BY <2>2, <2>3, <2>4, ConcatProperties
    <3> QED BY <3>1, <3>2, TailIsSubSeq
  <2>6. <<>> \o FlattenSeq(got') = FlattenSeq(got') /\ <<>> \in Seq(EpByte) /\ Len(<<>>) = 0
    BY <2>4, ConcatEmptySeq
  <2> QED BY <2>1, <2>2, <2>5, <2>6 DEF RxInv
<1>4. CASE UsbBegin
  <2>1. SubSeq(unread, Len(peek_buffer) + 1, Len(unread)) = FlattenSeq(got)
    BY <1>0, PartsOfConcat
  <2>2. <<>> \o FlattenSeq(got) = FlattenSeq(got) /\ <<>> \in Seq(EpByte) /\ Len(<<>>) = 0
    BY <1>0, ConcatEmptySeq
  <2> QED BY <1>0, <1>4, <2>1, <2>2 DEF UsbBegin, RxInv
<1>5. ASSUME NEW packet \in BoundedSeq(EpByte, EpSize), HostSends(packet) PROVE RxInv'
  <2>1. packet \in Seq(EpByte)
    BY DEF BoundedSeq, SeqOf
  <2>2. got' = Append(got, packet) /\ unread' = unread \o packet /\ peek_buffer' = peek_buffer /\ Len(got) < 2
    BY <1>5 DEF HostSends
  <2>3. got' \in Banks(EpByte) /\ FlattenSeq(got') = FlattenSeq(got) \o packet
    BY <1>0, <2>1, <2>2, AppendBank
  <2>4. (peek_buffer \o FlattenSeq(got)) \o packet = peek_buffer \o (FlattenSeq(got) \o packet)
    <3>1. peek_buffer \in Seq(EpByte) /\ FlattenSeq(got) \in Seq(EpByte)
      BY <1>0
    <3> QED BY <2>1, <3>1, ThreeParts
  <2> QED BY <1>0, <2>2, <2>3, <2>4 DEF RxInv
<1> QED BY <1>1, <1>2, <1>3, <1>4, <1>5 DEF RxNext, Read

\* What the banks hold and a call of USB_Send() has left are the promised bytes, each once
\* and in order, although the start of a frame releases banks between two turns of its
\* loop, calls time out and the bus is reset; and peek() loses no byte and swaps none.
\* For every size of a bank, every number of tries and every set of bytes.
THEOREM PipesKeepBytes == PipeSpec => []PipeKeepsBytes
<1>1. TxInv /\ RxInv /\ [PipeNext]_<<txVars, rxVars>>
        => (TxInv /\ RxInv)'
  <2> SUFFICES ASSUME TxInv, RxInv,
                      [PipeNext]_<<txVars, rxVars>>
               PROVE  (TxInv /\ RxInv)'
    OBVIOUS
  <2>1. UNCHANGED txVars => TxInv'
    BY DEF txVars, TxInv, TxTypeOK, TxKept
  <2>2. UNCHANGED rxVars => RxInv'
    BY DEF rxVars, RxInv
  <2> QED BY <2>1, <2>2, TxNextKeeps, RxNextKeeps DEF PipeNext
<1> QED BY <1>1, InitEstablishesPipe, PipeKept, PTL DEF PipeSpec

(***************************************************************************)
(* The searches of Stream: find(), findUntil() and findMulti(). findMulti()*)
(* keeps for each target how much of it the text ends with, and steps that *)
(* back on a character that does not follow. It never steps back too far:  *)
(* whatever the targets are, a search ends at the first character with     *)
(* which one of them is complete, and returns that one.                    *)
(***************************************************************************)

\* The first n characters of w end the first k characters of t.
EndsAt(w, n, v, k) == n <= k /\ \A j \in 1 .. n : w[j] = v[k - n + j]

\* Reversed, a suffix is a prefix.
LEMMA SuffixIs ==
  ASSUME NEW S, NEW w \in Seq(S), NEW s \in Seq(S)
  PROVE  IsSuffix(w, s) <=> EndsAt(w, Len(w), s, Len(s))
<1> DEFINE n == Len(w)
           k == Len(s)
           v == Reverse(w)
           u == Reverse(s)
<1>1. n \in Nat /\ k \in Nat /\ (\A j \in 1 .. n : w[j] \in S) /\ (\A j \in 1 .. k : s[j] \in S)
  OBVIOUS
<1>2. v \in Seq(S) /\ Len(v) = n /\ \A j \in 1 .. n : v[j] = w[n - j + 1]
  BY <1>1 DEF Reverse
<1>3. u \in Seq(S) /\ Len(u) = k /\ \A j \in 1 .. k : u[j] = s[k - j + 1]
  BY <1>1 DEF Reverse
<1> HIDE DEF v, u
<1>4. IsSuffix(w, s) <=> Len(v) <= Len(u) /\ SubSeq(v, 1, Len(v)) = SubSeq(u, 1, Len(v))
  BY DEF IsSuffix, IsPrefix, v, u
<1>5. SubSeq(v, 1, Len(v)) = v
  BY <1>2, SubSeqFull
<1>6. CASE n <= k
  <2>1. SubSeq(u, 1, n) \in Seq(S) /\ Len(SubSeq(u, 1, n)) = n /\ \A j \in 1 .. n : SubSeq(u, 1, n)[j] = u[j]
    BY <1>1, <1>3, <1>6
  <2>2. v = SubSeq(u, 1, n) <=> \A j \in 1 .. n : v[j] = u[j]
    BY <2>1, <1>2, SeqEqual
  <2>3. (\A j \in 1 .. n : v[j] = u[j]) <=> (\A j \in 1 .. n : w[j] = s[k - n + j])
    <3>1. ASSUME \A j \in 1 .. n : v[j] = u[j], NEW j \in 1 .. n PROVE w[j] = s[k - n + j]
      <4>1. n - j + 1 \in 1 .. n /\ n - (n - j + 1) + 1 = j /\ k - (n - j + 1) + 1 = k - n + j
        BY <1>1
      <4>2. v[n - j + 1] = u[n - j + 1]
        BY <4>1, <3>1
      <4>3. v[n - j + 1] = w[j]
        BY <4>1, <1>2
      <4>4. u[n - j + 1] = s[k - n + j]
        <5>1. n - j + 1 \in 1 .. k
          BY <4>1, <1>1, <1>6
        <5> QED BY <5>1, <4>1, <1>3
      <4> QED BY <4>2, <4>3, <4>4
    <3>2. ASSUME \A j \in 1 .. n : w[j] = s[k - n + j], NEW j \in 1 .. n PROVE v[j] = u[j]
      <4>1. n - j + 1 \in 1 .. n /\ k - n + (n - j + 1) = k - j + 1
        BY <1>1
      <4>2. w[n - j + 1] = s[k - j + 1]
        BY <4>1, <3>2
      <4>3. j \in 1 .. k
        BY <1>1, <1>6
      <4> QED BY <4>2, <4>3, <1>2, <1>3
    <3> QED BY <3>1, <3>2
  <2> QED BY <1>4, <1>5, <1>2, <1>3, <1>6, <2>2, <2>3 DEF EndsAt
<1>7. CASE ~(n <= k)
  BY <1>7, <1>4, <1>2, <1>3 DEF EndsAt
<1> QED BY <1>6, <1>7

\* The same for parts of both.
LEMMA PartEnds ==
  ASSUME NEW S, NEW w \in Seq(S), NEW s \in Seq(S), NEW n \in 0 .. Len(w), NEW k \in 0 .. Len(s)
  PROVE  IsSuffix(SubSeq(w, 1, n), SubSeq(s, 1, k)) <=> EndsAt(w, n, s, k)
<1> DEFINE v == SubSeq(w, 1, n)
           u == SubSeq(s, 1, k)
<1>1. v \in Seq(S) /\ Len(v) = n /\ \A j \in 1 .. n : v[j] = w[j]
  OBVIOUS
<1>2. u \in Seq(S) /\ Len(u) = k /\ \A j \in 1 .. k : u[j] = s[j]
  OBVIOUS
<1> HIDE DEF v, u
<1>3. IsSuffix(v, u) <=> EndsAt(v, Len(v), u, Len(u))
  BY <1>1, <1>2, SuffixIs
<1>4. EndsAt(v, n, u, k) <=> EndsAt(w, n, s, k)
  BY <1>1, <1>2 DEF EndsAt
<1> QED BY <1>1, <1>2, <1>3, <1>4 DEF v, u

LEMMA WholeEnds ==
  ASSUME NEW S, NEW w \in Seq(S), NEW v \in Seq(S)
  PROVE  /\ \A k \in 0 .. Len(v) : IsSuffix(w, SubSeq(v, 1, k)) <=> EndsAt(w, Len(w), v, k)
         /\ \A n \in 0 .. Len(w) : IsSuffix(SubSeq(w, 1, n), v) <=> EndsAt(w, n, v, Len(v))
<1>1. SubSeq(w, 1, Len(w)) = w /\ SubSeq(v, 1, Len(v)) = v
  BY SubSeqFull
<1>2. Len(w) \in 0 .. Len(w) /\ Len(v) \in 0 .. Len(v)
  OBVIOUS
<1>3. ASSUME NEW k \in 0 .. Len(v) PROVE IsSuffix(w, SubSeq(v, 1, k)) <=> EndsAt(w, Len(w), v, k)
  <2>1. IsSuffix(SubSeq(w, 1, Len(w)), SubSeq(v, 1, k)) <=> EndsAt(w, Len(w), v, k)
    BY <1>2, PartEnds
  <2> QED BY <2>1, <1>1
<1>4. ASSUME NEW n \in 0 .. Len(w) PROVE IsSuffix(SubSeq(w, 1, n), v) <=> EndsAt(w, n, v, Len(v))
  <2>1. IsSuffix(SubSeq(w, 1, n), SubSeq(v, 1, Len(v))) <=> EndsAt(w, n, v, Len(v))
    BY <1>2, PartEnds
  <2> QED BY <2>1, <1>1
<1> QED BY <1>3, <1>4

\* A part that ends behind c is one that ended before c, and c.
LEMMA EndsBehind ==
  ASSUME NEW w, NEW v, NEW u, NEW k \in Nat, NEW n \in Nat \ {0}, NEW c,
         u[k + 1] = c, \A j \in 1 .. k : u[j] = v[j]
  PROVE  EndsAt(w, n, u, k + 1) <=> w[n] = c /\ EndsAt(w, n - 1, v, k)
<1>1. k \in Nat /\ n \in Nat /\ n > 0 /\ u[k + 1] = c /\ \A j \in 1 .. k : u[j] = v[j]
  OBVIOUS
<1>2. ASSUME EndsAt(w, n, u, k + 1) PROVE w[n] = c /\ EndsAt(w, n - 1, v, k)
  <2>1. n <= k + 1 /\ \A j \in 1 .. n : w[j] = u[(k + 1) - n + j]
    BY <1>2 DEF EndsAt
  <2>2. w[n] = c
    <3>1. n \in 1 .. n /\ (k + 1) - n + n = k + 1
      BY <1>1
    <3> QED BY <3>1, <2>1, <1>1
  <2>3. ASSUME NEW j \in 1 .. n - 1 PROVE w[j] = v[k - (n - 1) + j]
    <3>1. j \in 1 .. n /\ (k + 1) - n + j \in 1 .. k /\ k - (n - 1) + j = (k + 1) - n + j
      BY <1>1, <2>1
    <3> QED BY <3>1, <2>1, <1>1
  <2>4. n - 1 <= k
    BY <2>1, <1>1
  <2> QED BY <2>2, <2>3, <2>4 DEF EndsAt
<1>3. ASSUME w[n] = c, EndsAt(w, n - 1, v, k) PROVE EndsAt(w, n, u, k + 1)
  <2>1. n - 1 <= k /\ \A j \in 1 .. n - 1 : w[j] = v[k - (n - 1) + j]
    BY <1>3 DEF EndsAt
  <2>2. ASSUME NEW j \in 1 .. n PROVE w[j] = u[(k + 1) - n + j]
    <3>1. CASE j = n
      <4>1. (k + 1) - n + j = k + 1
        BY <3>1, <1>1
      <4> QED BY <4>1, <3>1, <1>1, <1>3
    <3>2. CASE j # n
      <4>1. j \in 1 .. n - 1 /\ (k + 1) - n + j \in 1 .. k /\ k - (n - 1) + j = (k + 1) - n + j
        BY <3>2, <2>1, <1>1
      <4> QED BY <4>1, <2>1, <1>1
    <3> QED BY <3>1, <3>2
  <2>3. n <= k + 1
    BY <2>1, <1>1
  <2> QED BY <2>2, <2>3, Zenon DEF EndsAt
<1> QED BY <1>2, <1>3

\* A shorter part ends where a longer one does if it ends the longer one.
LEMMA EndsWithin ==
  ASSUME NEW w, NEW v, NEW k \in Nat, NEW i \in Nat, EndsAt(w, i, v, k), NEW j \in 0 .. i
  PROVE  EndsAt(w, j, v, k) <=> \A e \in 1 .. j : w[e] = w[e + i - j]
<1>1. i <= k /\ \A e \in 1 .. i : w[e] = v[k - i + e]
  BY DEF EndsAt
<1>2. ASSUME NEW e \in 1 .. j PROVE w[e + i - j] = v[k - j + e]
  <2>1. e + i - j \in 1 .. i /\ k - i + (e + i - j) = k - j + e
    OBVIOUS
  <2> QED BY <2>1, <1>1
<1>3. j <= k
  BY <1>1
<1> QED BY <1>2, <1>3 DEF EndsAt

\* As much of w is matched as the text ends with, the whole word included.
Longest(w, n, v, a) ==
  /\ a \in 0 .. n /\ EndsAt(w, a, v, Len(v))
  /\ \A j \in 0 .. n : EndsAt(w, j, v, Len(v)) => j <= a

LEMMA AdvanceFollows ==
  ASSUME NEW S, NEW w \in Seq(S), NEW v \in Seq(S), NEW c \in S, NEW i,
         Len(w) > 0, Longest(w, Len(w) - 1, v, i)
  PROVE  Longest(w, Len(w), Append(v, c), Advance(w, i, c))
<1> DEFINE k == Len(v)
           u == Append(v, c)
           a == Advance(w, i, c)
           l == Len(w)
<1>1. /\ l \in Nat /\ i \in 0 .. l - 1 /\ EndsAt(w, i, v, k) /\ k \in Nat /\ Len(u) = k + 1
      /\ \A e \in 0 .. l - 1 : EndsAt(w, e, v, k) => e <= i
  BY DEF Longest
<1>2. \A n \in 1 .. l : EndsAt(w, n, u, k + 1) <=> w[n] = c /\ EndsAt(w, n - 1, v, k)
  <2>1. u[k + 1] = c /\ (\A j \in 1 .. k : u[j] = v[j]) /\ k \in Nat /\ \A n \in 1 .. l : n \in Nat \ {0}
    OBVIOUS
  <2> HIDE DEF u, k, l
  <2> QED BY <2>1, EndsBehind
<1>3. EndsAt(w, 0, u, k + 1)
  BY <1>1 DEF EndsAt
<1> HIDE DEF u, k, l
<1>4. CASE c = w[i + 1]
  <2>1. a = i + 1
    BY <1>4 DEF Advance
  <2>2. i + 1 \in 1 .. l /\ i + 1 - 1 = i
    BY <1>1
  <2>3. EndsAt(w, a, u, k + 1)
    BY <2>1, <2>2, <1>2, <1>1, <1>4
  <2>4. ASSUME NEW e \in 0 .. l, EndsAt(w, e, u, k + 1) PROVE e <= a
    <3>1. CASE e = 0 BY <3>1, <2>1, <1>1
    <3>2. CASE e # 0
      <4>1. e \in 1 .. l /\ e - 1 \in 0 .. l - 1
        BY <3>2, <1>1
      <4>2. e - 1 <= i
        BY <4>1, <2>4, <1>2, <1>1
      <4> QED BY <4>2, <4>1, <2>1, <1>1
    <3> QED BY <3>1, <3>2
  <2>5. a \in 0 .. l
    BY <2>1, <1>1
  <2> QED BY <2>3, <2>4, <2>5, <1>1 DEF Longest, l, u
<1>5. CASE c # w[i + 1]
  <2> DEFINE B == {j \in 0 .. i - 1 : c = w[j + 1] /\ \A e \in 1 .. j : w[e] = w[e + i - j]}
             T == {0} \cup {j + 1 : j \in B}
  <2>1. a = Max(T)
    BY <1>5 DEF Advance
  <2>2. \A j \in B : j \in 0 .. i - 1 /\ EndsAt(w, j + 1, u, k + 1)
    <3> SUFFICES ASSUME NEW j \in B PROVE j \in 0 .. i - 1 /\ EndsAt(w, j + 1, u, k + 1)
      OBVIOUS
    <3>1. j \in 0 .. i - 1 /\ c = w[j + 1] /\ \A e \in 1 .. j : w[e] = w[e + i - j]
      OBVIOUS
    <3>2. j \in 0 .. i /\ i \in Nat /\ j + 1 \in 1 .. l /\ j + 1 - 1 = j
      BY <3>1, <1>1
    <3>3. EndsAt(w, j, v, k)
      BY <3>1, <3>2, <1>1, EndsWithin
    <3> QED BY <3>1, <3>2, <3>3, <1>2
  <2>3. ASSUME NEW e \in 0 .. l, EndsAt(w, e, u, k + 1) PROVE e \in T
    <3>1. CASE e = 0 BY <3>1
    <3>2. CASE e # 0
      <4> DEFINE j == e - 1
      <4>1. e \in 1 .. l /\ j \in 0 .. l - 1 /\ j + 1 = e
        BY <3>2, <1>1
      <4>2. w[e] = c /\ EndsAt(w, j, v, k)
        BY <4>1, <2>3, <1>2
      <4>3. j <= i
        BY <4>1, <4>2, <1>1
      <4>4. j # i
        BY <4>1, <4>2, <1>5
      <4>5. j \in 0 .. i - 1 /\ j \in 0 .. i /\ i \in Nat
        BY <4>1, <4>3, <4>4, <1>1
      <4>6. \A n \in 1 .. j : w[n] = w[n + i - j]
        <5> HIDE DEF j
        <5> QED BY <4>2, <4>5, <1>1, EndsWithin
      <4> HIDE DEF j
      <4>7. j \in B
        BY <4>1, <4>2, <4>5, <4>6
      <4> HIDE DEF B
      <4> QED BY <4>1, <4>7
    <3> QED BY <3>1, <3>2
  <2> HIDE DEF B
  <2>4. T \in SUBSET Nat /\ T # {} /\ \A x \in T : x <= i /\ EndsAt(w, x, u, k + 1)
    <3>1. \A j \in B : j + 1 \in Nat /\ j + 1 <= i /\ EndsAt(w, j + 1, u, k + 1)
      BY <2>2, <1>1
    <3> QED BY <3>1, <1>1, <1>3
  <2> HIDE DEF T
  <2>5. i \in Nat
    BY <1>1
  <2>6. a \in T /\ \A x \in T : x <= a
    <3>1. Max(T) \in T /\ \A x \in T : x <= Max(T)
      BY <2>4, <2>5, MaxFinds
    <3> QED BY <3>1, <2>1
  <2>7. a \in 0 .. l
    <3>1. a \in Nat /\ a <= i
      BY <2>4, <2>6
    <3> QED BY <3>1, <1>1
  <2> QED BY <2>3, <2>4, <2>6, <2>7, <1>1 DEF Longest, l, u
<1> QED BY <1>4, <1>5

\* No word has ended up to the k-th character taken.
NoneUpTo(n) ==
  \A w \in DOMAIN targets, k \in 0 .. n : ~EndsAt(targets[w], Len(targets[w]), taken, k)

\* The words that end with what has been taken.
Ended == {w \in DOMAIN targets : EndsAt(targets[w], Len(targets[w]), taken, Len(taken))}

\* The invariant of findMulti().
SearchInv ==
  /\ call = "none" => taken = <<>>
  /\ call \in {"find", "found"} => targets \in Seq(Seq(Letter)) /\ taken \in Seq(Letter)
  /\ call = "find" =>
       /\ NoneUpTo(Len(taken))
       /\ \A w \in DOMAIN targets : Longest(targets[w], Len(targets[w]) - 1, taken, index[w])
  /\ call = "found" =>
       /\ NoneUpTo(Len(taken) - 1)
       /\ found = IF Ended = {} THEN -1 ELSE Min(Ended) - 1

\* It says what FoundFirst says.
LEMMA SearchMeans == SearchInv => FoundFirst
<1> SUFFICES ASSUME SearchInv PROVE FoundFirst
  OBVIOUS
<1> DEFINE Upto(k) == SubSeq(taken, 1, k)
           Complete(k) == {v \in DOMAIN targets : Ends(targets[v], Upto(k))}
<1>1. ASSUME call \in {"find", "found"}, NEW k \in 0 .. Len(taken)
      PROVE  Complete(k) = {v \in DOMAIN targets : EndsAt(targets[v], Len(targets[v]), taken, k)}
  <2>1. targets \in Seq(Seq(Letter)) /\ taken \in Seq(Letter)
    BY <1>1 DEF SearchInv
  <2>2. \A v \in DOMAIN targets : targets[v] \in Seq(Letter)
    BY <2>1
  <2>3. \A v \in DOMAIN targets : IsSuffix(targets[v], SubSeq(taken, 1, k)) <=> EndsAt(targets[v], Len(targets[v]), taken, k)
    BY <2>1, <2>2, <1>1, WholeEnds
  <2> QED BY <2>3 DEF Ends
<1>2. CASE call = "find"
  <2>1. /\ targets \in Seq(Seq(Letter)) /\ taken \in Seq(Letter) /\ NoneUpTo(Len(taken))
        /\ \A v \in DOMAIN targets : Longest(targets[v], Len(targets[v]) - 1, taken, index[v])
    BY <1>2 DEF SearchInv
  <2>2. ASSUME NEW v \in DOMAIN targets
        PROVE  /\ ~\E k \in 0 .. Len(taken) : v \in Complete(k)
               /\ index[v] = Max({n \in 0 .. Len(targets[v]) - 1 :
                                    n <= Len(taken) /\ Ends(SubSeq(targets[v], 1, n), taken)})
    <3> DEFINE w == targets[v]
               T == {n \in 0 .. Len(w) - 1 : n <= Len(taken) /\ Ends(SubSeq(w, 1, n), taken)}
    <3>1. w \in Seq(Letter) /\ Longest(w, Len(w) - 1, taken, index[v])
      BY <2>1
    <3>2. \A k \in 0 .. Len(taken) : ~EndsAt(w, Len(w), taken, k)
      BY <2>1 DEF NoneUpTo
    <3>3. ~\E k \in 0 .. Len(taken) : v \in Complete(k)
      <4> SUFFICES ASSUME NEW k \in 0 .. Len(taken) PROVE v \notin Complete(k)
        OBVIOUS
      <4>1. Complete(k) = {u \in DOMAIN targets : EndsAt(targets[u], Len(targets[u]), taken, k)}
        BY <1>1, <1>2
      <4>2. ~EndsAt(w, Len(w), taken, k)
        BY <3>2
      <4> HIDE DEF Complete
      <4> QED BY <4>1, <4>2
    <3> HIDE DEF w
    <3>4. T = {n \in 0 .. Len(w) - 1 : EndsAt(w, n, taken, Len(taken))}
      <4>1. \A n \in 0 .. Len(w) - 1 : n \in 0 .. Len(w)
        BY <3>1
      <4>2. \A n \in 0 .. Len(w) - 1 : IsSuffix(SubSeq(w, 1, n), taken) <=> EndsAt(w, n, taken, Len(taken))
        BY <4>1, <3>1, <2>1, WholeEnds
      <4>3. \A n \in 0 .. Len(w) - 1 : EndsAt(w, n, taken, Len(taken)) => n <= Len(taken)
        BY DEF EndsAt
      <4> QED BY <4>2, <4>3 DEF Ends
    <3> HIDE DEF T
    <3>5. index[v] \in T /\ (\A n \in T : n <= index[v]) /\ T \in SUBSET Nat
      BY <3>1, <3>4 DEF Longest
    <3>6. Max(T) = index[v]
      BY <3>5, MaxIs
    <3> QED BY <3>3, <3>6 DEF T, w
  <2> QED BY <2>2, <1>2 DEF FoundFirst
<1>3. CASE call = "found"
  <2>1. /\ targets \in Seq(Seq(Letter)) /\ taken \in Seq(Letter) /\ NoneUpTo(Len(taken) - 1)
        /\ found = IF Ended = {} THEN -1 ELSE Min(Ended) - 1
    BY <1>3 DEF SearchInv
  <2>2. ASSUME NEW k \in 0 .. Len(taken) - 1 PROVE Complete(k) = {}
    <3>1. k \in 0 .. Len(taken)
      BY <2>1
    <3>2. Complete(k) = {v \in DOMAIN targets : EndsAt(targets[v], Len(targets[v]), taken, k)}
      BY <3>1, <1>1, <1>3
    <3>3. \A v \in DOMAIN targets : ~EndsAt(targets[v], Len(targets[v]), taken, k)
      BY <2>1 DEF NoneUpTo
    <3> HIDE DEF Complete
    <3> QED BY <3>2, <3>3
  <2>3. Complete(Len(taken)) = Ended
    <3>1. Len(taken) \in 0 .. Len(taken)
      BY <2>1
    <3> QED BY <3>1, <1>1, <1>3 DEF Ended
  <2> QED BY <2>1, <2>2, <2>3, <1>3 DEF FoundFirst
<1> QED BY <1>2, <1>3 DEF FoundFirst

\* A call for some words begins.
LEMMA FindMultiKeeps ==
  ASSUME SearchInv, NEW ts \in Targets, FindMulti(ts)
  PROVE  SearchInv'
<1>1. ts \in Seq(Seq(Letter)) /\ taken = <<>> /\ taken' = <<>> /\ targets' = ts
  BY TargetsAssumption DEF SearchInv, FindMulti, Begin
<1>2. index' = [v \in DOMAIN ts |-> 0]
  BY DEF FindMulti, Begin
<1> DEFINE E == {v \in DOMAIN ts : ts[v] = <<>>}
<1>3. IF E = {} THEN call' = "find" ELSE call' = "found" /\ found' = Min(E) - 1
  BY DEF FindMulti
<1>4. \A v \in DOMAIN ts : ts[v] \in Seq(Letter)
  BY <1>1
<1>5. Len(taken') = 0 /\ taken' \in Seq(Letter)
  BY <1>1
<1>6. \A v \in DOMAIN ts : EndsAt(ts[v], Len(ts[v]), taken', 0) <=> ts[v] = <<>>
  <2>1. \A w \in Seq(Letter) : EndsAt(w, Len(w), taken', 0) <=> Len(w) = 0
    BY DEF EndsAt
  <2>2. \A w \in Seq(Letter) : Len(w) = 0 <=> w = <<>>
    OBVIOUS
  <2> QED BY <2>1, <2>2, <1>4
<1>7. Ended' = E
  BY <1>1, <1>5, <1>6 DEF Ended
<1> HIDE DEF E
<1>8. CASE E = {}
  <2>1. call' = "find"
    BY <1>3, <1>8
  <2>2. NoneUpTo(Len(taken))'
    <3>1. \A v \in DOMAIN ts : ~EndsAt(ts[v], Len(ts[v]), taken', 0)
      BY <1>6, <1>8 DEF E
    <3>2. 0 .. Len(taken') = {0}
      BY <1>5
    <3> QED BY <3>1, <3>2, <1>1 DEF NoneUpTo
  <2>3. ASSUME NEW v \in DOMAIN ts PROVE Longest(ts[v], Len(ts[v]) - 1, taken', index'[v])
    <3>1. index'[v] = 0
      BY <1>2
    <3>2. Len(ts[v]) \in Nat \ {0}
      BY <1>4, <1>8 DEF E
    <3>3. \A j \in 0 .. Len(ts[v]) - 1 : EndsAt(ts[v], j, taken', Len(taken')) => j <= 0
      BY <1>5 DEF EndsAt
    <3>4. EndsAt(ts[v], 0, taken', Len(taken'))
      BY <1>5 DEF EndsAt
    <3> QED BY <3>1, <3>2, <3>3, <3>4 DEF Longest
  <2> QED BY <1>1, <1>5, <2>1, <2>2, <2>3 DEF SearchInv
<1>9. CASE E # {}
  <2>1. call' = "found" /\ found' = Min(E) - 1
    BY <1>3, <1>9
  <2>2. NoneUpTo(Len(taken) - 1)'
    <3>1. 0 .. Len(taken') - 1 = {}
      BY <1>5
    <3> QED BY <3>1 DEF NoneUpTo
  <2> QED BY <1>1, <1>5, <1>7, <1>9, <2>1, <2>2 DEF SearchInv
<1> QED BY <1>8, <1>9

\* A character comes.
LEMMA FindCharKeeps ==
  ASSUME SearchInv, NEW c \in Letter, FindChar(c)
  PROVE  SearchInv'
<1> DEFINE moved == [w \in DOMAIN targets |-> Advance(targets[w], index[w], c)]
           done == {w \in DOMAIN targets : moved[w] = Len(targets[w])}
           seen == IF done = {} THEN DOMAIN targets ELSE 1 .. Min(done)
<1>1. /\ call = "find" /\ taken' = Append(taken, c) /\ targets' = targets
      /\ index' = [w \in DOMAIN targets |-> IF w \in seen THEN moved[w] ELSE index[w]]
      /\ IF done = {} THEN call' = call ELSE call' = "found" /\ found' = Min(done) - 1
  BY DEF FindChar
<1>2. /\ targets \in Seq(Seq(Letter)) /\ taken \in Seq(Letter)
      /\ NoneUpTo(Len(taken))
      /\ \A w \in DOMAIN targets : Longest(targets[w], Len(targets[w]) - 1, taken, index[w])
  BY <1>1 DEF SearchInv
<1>3. /\ taken' \in Seq(Letter) /\ Len(taken') = Len(taken) + 1 /\ Len(taken) \in Nat
      /\ \A k \in 1 .. Len(taken) : taken'[k] = taken[k]
  BY <1>1, <1>2
<1>4. \A w \in DOMAIN targets : targets[w] \in Seq(Letter) /\ Len(targets[w]) \in Nat \ {0}
  <2>1. \A w \in DOMAIN targets : targets[w] \in Seq(Letter)
    BY <1>2
  <2>2. ASSUME NEW w \in DOMAIN targets, Len(targets[w]) = 0 PROVE FALSE
    <3>1. EndsAt(targets[w], 0, taken, 0)
      BY DEF EndsAt
    <3>2. 0 \in 0 .. Len(taken)
      BY <1>3
    <3> QED BY <3>1, <3>2, <2>2, <1>2 DEF NoneUpTo
  <2> QED BY <2>1, <2>2
<1>5. ASSUME NEW w \in DOMAIN targets PROVE Longest(targets[w], Len(targets[w]), taken', moved[w])
  <2>1. Longest(targets[w], Len(targets[w]) - 1, taken, index[w])
    BY <1>2
  <2>2. targets[w] \in Seq(Letter) /\ Len(targets[w]) > 0
    BY <1>4
  <2>3. Longest(targets[w], Len(targets[w]), Append(taken, c), Advance(targets[w], index[w], c))
    BY <2>1, <2>2, <1>2, AdvanceFollows
  <2> QED BY <2>3, <1>1
<1> HIDE DEF moved
<1>6. \A w \in DOMAIN targets : w \in done <=> EndsAt(targets[w], Len(targets[w]), taken', Len(taken'))
  <2> SUFFICES ASSUME NEW w \in DOMAIN targets
               PROVE  moved[w] = Len(targets[w]) <=> EndsAt(targets[w], Len(targets[w]), taken', Len(taken'))
    OBVIOUS
  <2> DEFINE l == Len(targets[w])
  <2>1. /\ moved[w] \in 0 .. l /\ EndsAt(targets[w], moved[w], taken', Len(taken'))
        /\ \A i \in 0 .. l : EndsAt(targets[w], i, taken', Len(taken')) => i <= moved[w]
    BY <1>5 DEF Longest
  <2>2. l \in 0 .. l
    BY <1>4
  <2>3. EndsAt(targets[w], l, taken', Len(taken')) => l <= moved[w]
    BY <2>1, <2>2
  <2> HIDE DEF l
  <2>4. (l <= moved[w] => moved[w] = l)
    BY <2>1, <2>2
  <2>5. moved[w] = l <=> EndsAt(targets[w], l, taken', Len(taken'))
    BY <2>1, <2>3, <2>4, Zenon
  <2> QED BY <2>5 DEF l
<1>7. Ended' = done
  BY <1>1, <1>6 DEF Ended
<1>8. \A w \in DOMAIN targets, k \in 0 .. Len(taken) : ~EndsAt(targets[w], Len(targets[w]), taken', k)
  <2> SUFFICES ASSUME NEW w \in DOMAIN targets, NEW k \in 0 .. Len(taken),
                      EndsAt(targets[w], Len(targets[w]), taken', k)
               PROVE  FALSE
    OBVIOUS
  <2> DEFINE l == Len(targets[w])
  <2>1. l <= k /\ \A j \in 1 .. l : targets[w][j] = taken'[k - l + j]
    BY DEF EndsAt
  <2>2. l \in Nat
    BY <1>4
  <2> HIDE DEF l
  <2>3. \A j \in 1 .. l : k - l + j \in 1 .. Len(taken)
    BY <2>1, <2>2, <1>3
  <2>4. \A j \in 1 .. l : targets[w][j] = taken[k - l + j]
    BY <2>1, <2>3, <1>3
  <2>5. EndsAt(targets[w], l, taken, k)
    BY <2>1, <2>4 DEF EndsAt
  <2> QED BY <2>5, <1>2 DEF NoneUpTo, l
<1>9. CASE done = {}
  <2>1. call' = "find" /\ \A w \in DOMAIN targets : index'[w] = moved[w]
    BY <1>1, <1>9
  <2>2. NoneUpTo(Len(taken))'
    <3> SUFFICES ASSUME NEW w \in DOMAIN targets, NEW k \in 0 .. Len(taken')
                 PROVE  ~EndsAt(targets[w], Len(targets[w]), taken', k)
      BY <1>1 DEF NoneUpTo
    <3>1. CASE k = Len(taken')
      BY <3>1, <1>6, <1>9
    <3>2. CASE k # Len(taken')
      <4>1. k \in 0 .. Len(taken)
        BY <3>2, <1>3
      <4> QED BY <4>1, <1>8
    <3> QED BY <3>1, <3>2
  <2>3. ASSUME NEW w \in DOMAIN targets PROVE Longest(targets[w], Len(targets[w]) - 1, taken', index'[w])
    <3>1. moved[w] # Len(targets[w])
      BY <1>9
    <3>2. Longest(targets[w], Len(targets[w]), taken', moved[w])
      BY <1>5
    <3>3. Len(targets[w]) \in Nat \ {0}
      BY <1>4
    <3>4. moved[w] \in 0 .. Len(targets[w]) - 1
      BY <3>1, <3>2, <3>3 DEF Longest
    <3>5. \A i \in 0 .. Len(targets[w]) - 1 : i \in 0 .. Len(targets[w])
      BY <3>3
    <3>6. index'[w] = moved[w]
      BY <2>1
    <3> QED BY <3>2, <3>4, <3>5, <3>6 DEF Longest
  <2> QED BY <1>1, <1>2, <1>3, <2>1, <2>2, <2>3 DEF SearchInv
<1>10. CASE done # {}
  <2>1. call' = "found" /\ found' = Min(done) - 1
    BY <1>1, <1>10
  <2>2. NoneUpTo(Len(taken) - 1)'
    <3>1. Len(taken') - 1 = Len(taken)
      BY <1>3
    <3> QED BY <3>1, <1>1, <1>8 DEF NoneUpTo
  <2>3. found' = IF Ended' = {} THEN -1 ELSE Min(Ended') - 1
    BY <2>1, <1>7, <1>10
  <2> QED BY <1>1, <1>2, <1>3, <2>1, <2>2, <2>3 DEF SearchInv
<1> QED BY <1>9, <1>10

LEMMA FindSilentKeeps ==
  ASSUME SearchInv, FindSilent
  PROVE  SearchInv'
<1>1. call = "find" /\ call' = "found" /\ found' = -1 /\ taken' = taken /\ targets' = targets
  BY DEF FindSilent
<1>2. targets \in Seq(Seq(Letter)) /\ taken \in Seq(Letter) /\ NoneUpTo(Len(taken))
  BY <1>1 DEF SearchInv
<1>3. Ended' = {}
  <2>1. Len(taken) \in 0 .. Len(taken)
    BY <1>2
  <2> QED BY <2>1, <1>1, <1>2 DEF NoneUpTo, Ended
<1>4. NoneUpTo(Len(taken) - 1)'
  <2>1. \A k \in 0 .. Len(taken) - 1 : k \in 0 .. Len(taken)
    BY <1>2
  <2> QED BY <2>1, <1>1, <1>2 DEF NoneUpTo
<1> QED BY <1>1, <1>2, <1>3, <1>4 DEF SearchInv

\* What the call of another function does is no search.
LEMMA OtherCallKeeps ==
  ASSUME SearchInv, call' \notin {"none", "find", "found"} \/ (call' = "none" /\ taken' = <<>>)
  PROVE  SearchInv'
BY DEF SearchInv

LEMMA SearchStays ==
  ASSUME SearchInv, UNCHANGED streamVars
  PROVE  SearchInv'
<1>1. UNCHANGED <<call, taken, targets, index, found>>
  BY DEF streamVars
<1>2. NoneUpTo(Len(taken))' <=> NoneUpTo(Len(taken))
  BY <1>1 DEF NoneUpTo
<1>3. NoneUpTo(Len(taken) - 1)' <=> NoneUpTo(Len(taken) - 1)
  BY <1>1 DEF NoneUpTo
<1>4. Ended' = Ended
  BY <1>1 DEF Ended
<1> QED BY <1>1, <1>2, <1>3, <1>4 DEF SearchInv

LEMMA SearchStep == SearchInv /\ [StreamNext]_streamVars => SearchInv'
<1> SUFFICES ASSUME SearchInv, [StreamNext]_streamVars PROVE SearchInv'
  OBVIOUS
<1>1. ASSUME NEW ts \in Targets, FindMulti(ts) PROVE SearchInv'
  BY <1>1, FindMultiKeeps
<1>2. ASSUME NEW j, Number(j) PROVE SearchInv'
  <2>1. call' = "skip"
    BY <1>2 DEF Number
  <2> QED BY <2>1, OtherCallKeeps
<1>3. ASSUME NEW l, Bytes(l) PROVE SearchInv'
  <2>1. call' \in {"filled", "bytes"}
    BY <1>3 DEF Bytes
  <2> QED BY <2>1, OtherCallKeeps
<1>4. CASE FindSilent
  BY <1>4, FindSilentKeeps
<1>5. CASE NumberSilent \/ BytesSilent
  <2>1. call' \in {"parsed", "filled"}
    BY <1>5 DEF NumberSilent, BytesSilent
  <2> QED BY <2>1, OtherCallKeeps
<1>6. CASE Done
  <2>1. call' = "none" /\ taken' = <<>>
    BY <1>6 DEF Done
  <2> QED BY <2>1, OtherCallKeeps
<1>7. ASSUME NEW c \in Letter, FindChar(c) PROVE SearchInv'
  BY <1>7, FindCharKeeps
<1>8. ASSUME NEW c, BytesChar(c) PROVE SearchInv'
  <2>1. call' \in {"filled", "bytes"}
    BY <1>8 DEF BytesChar
  <2> QED BY <2>1, OtherCallKeeps
<1>9. ASSUME NEW c, SkipChar(c) PROVE SearchInv'
  <2>1. call' \in {"skip", "number", "parsed"}
    BY <1>9 DEF SkipChar
  <2> QED BY <2>1, OtherCallKeeps
<1>10. ASSUME NEW c, NumberNext(c) PROVE SearchInv'
  <2>1. call' \in {"number", "parsed"}
    BY <1>10 DEF NumberNext
  <2> QED BY <2>1, OtherCallKeeps
<1>11. CASE UNCHANGED streamVars
  BY <1>11, SearchStays
<1> QED BY <1>1, <1>2, <1>3, <1>4, <1>5, <1>6, <1>7, <1>8, <1>9, <1>10, <1>11 DEF StreamNext

\* findMulti() stops at the first word that is complete in what it has read, for every list of
\* words: walking back in a word by the part that fits loses no match, although no
\* character is read twice.
THEOREM SearchFindsFirst == StreamSpec => []FoundFirst
<1>1. StreamInit => SearchInv
  BY DEF StreamInit, SearchInv
<1> QED BY <1>1, SearchStep, SearchMeans, PTL DEF StreamSpec

(***************************************************************************)
(* The descriptors of USB. A first pass counts the bytes, a second sends   *)
(* them in packets of endpoint 0, with the modules in the order of their   *)
(* list. The host gets what it asked for or what there is, with a shorter  *)
(* packet at the end, unless it stops reading.                             *)
(***************************************************************************)

\* How Total() adds up.
LEMMA TotalSteps ==
  ASSUME NEW s \in Seq(Nat)
  PROVE  \E h \in [0 .. Len(s) -> Nat] :
           /\ h[0] = 0 /\ Total(s) = h[Len(s)]
           /\ \A i \in 1 .. Len(s) : h[i] = h[i - 1] + s[i]
<1> DEFINE n == Len(s)
           F == [i \in 1 .. n |-> [v \in Nat |-> v + s[i]]]
           Body(g) == [w \in SUBSET DOMAIN s |-> IF w = {} THEN 0 ELSE g[w \ {Max(w)}] + s[Max(w)]]
           it == CHOOSE g : g = Body(g)
<1>1. Total(s) = it[DOMAIN s]
  BY DEF Total, FoldLeft, MapThenFoldSet
<1>2. n \in Nat /\ DOMAIN s = 1 .. n /\ \A i \in 1 .. n : s[i] \in Nat
  OBVIOUS
<1>3. \A v \in Nat, i \in 1 .. n : F[i][v] = v + s[i] /\ v + s[i] \in Nat
  BY <1>2
<1> HIDE DEF n, F
<1>4. PICK g \in [SUBSET (1 .. n) -> Nat] : SolvesFold(g, F, 0, n)
  <2>1. 0 \in Nat /\ \A v \in Nat, i \in 1 .. n : F[i][v] \in Nat
    BY <1>3
  <2> QED BY <2>1, <1>2, FoldExists
<1>5. g = Body(g)
  <2>1. \A w \in SUBSET (1 .. n) : g[w] = IF w = {} THEN 0 ELSE g[w \ {Max(w)}] + s[Max(w)]
    <3> SUFFICES ASSUME NEW w \in SUBSET (1 .. n)
                 PROVE  g[w] = IF w = {} THEN 0 ELSE g[w \ {Max(w)}] + s[Max(w)]
      OBVIOUS
    <3>1. g[w] = IF w = {} THEN 0 ELSE F[Max(w)][g[w \ {Max(w)}]]
      BY <1>4 DEF SolvesFold
    <3>2. w # {} => Max(w) \in 1 .. n /\ g[w \ {Max(w)}] \in Nat
      <4>1. w # {} => Max(w) \in 1 .. n
        BY <1>2, GreatestIsIn
      <4>2. w \ {Max(w)} \in SUBSET (1 .. n)
        OBVIOUS
      <4> QED BY <4>1, <4>2, <1>4
    <3> QED BY <3>1, <3>2, <1>3
  <2>2. g = [w \in SUBSET (1 .. n) |-> g[w]]
    BY <1>4
  <2> QED BY <2>1, <2>2, <1>2
<1> HIDE DEF Body
<1>6. it = Body(it)
  BY <1>5, Zenon
<1> DEFINE h == [i \in 0 .. n |-> it[1 .. i]]
<1>7. \A w \in SUBSET (1 .. n) : it[w] = IF w = {} THEN 0 ELSE it[w \ {Max(w)}] + s[Max(w)]
  BY <1>2, <1>6 DEF Body
<1> HIDE DEF it
<1>8. h[0] = 0
  <2>1. 1 .. 0 = {} /\ 0 \in 0 .. n /\ {} \in SUBSET (1 .. n)
    BY <1>2
  <2> QED BY <2>1, <1>7
<1>9. ASSUME NEW i \in 1 .. n PROVE h[i] = h[i - 1] + s[i]
  <2>1. 1 .. i \in SUBSET (1 .. n) /\ 1 .. i \in SUBSET Nat /\ i \in 1 .. i /\ \A y \in 1 .. i : y <= i
    BY <1>2
  <2>2. Max(1 .. i) = i
    BY <2>1, MaxIs
  <2>3. (1 .. i) \ {i} = 1 .. i - 1 /\ 1 .. i # {}
    BY <2>1
  <2>4. it[1 .. i] = it[(1 .. i) \ {Max(1 .. i)}] + s[Max(1 .. i)]
    BY <2>1, <2>3, <1>7
  <2>5. i \in 0 .. n /\ i - 1 \in 0 .. n
    BY <1>2
  <2> QED BY <2>2, <2>3, <2>4, <2>5
<1>10. h[n] = Total(s)
  <2>1. n \in 0 .. n
    BY <1>2
  <2> QED BY <2>1, <1>1, <1>2
<1>11. h = [i \in 0 .. n |-> h[i]]
  OBVIOUS
<1> HIDE DEF h
<1>12. \A i \in 0 .. n : h[i] \in Nat
  <2> DEFINE G == {i \in 0 .. n : h[i] \in Nat}
  <2>1. 0 \in G
    BY <1>2, <1>8
  <2>2. \A k \in 0 .. n : k < n /\ k \in G => k + 1 \in G
    <3> SUFFICES ASSUME NEW k \in 0 .. n, k < n, k \in G PROVE k + 1 \in G
      OBVIOUS
    <3>1. k + 1 \in 1 .. n /\ k + 1 - 1 = k
      BY <1>2
    <3>2. h[k + 1] = h[k] + s[k + 1]
      BY <3>1, <1>9
    <3>3. h[k] \in Nat /\ s[k + 1] \in Nat
      BY <3>1, <1>2
    <3>4. h[k + 1] \in Nat
      BY <3>2, <3>3
    <3> QED BY <3>1, <3>4
  <2> HIDE DEF G
  <2>3. \A k \in 0 .. n : k \in G
    BY <1>2, <2>1, <2>2, CountUp
  <2> QED BY <2>3 DEF G
<1>13. h \in [0 .. n -> Nat]
  BY <1>11, <1>12
<1> QED BY <1>8, <1>9, <1>10, <1>13 DEF n

\* The total of packets that are full but for the last one.
LEMMA TotalOfPackets ==
  ASSUME NEW s \in Seq(Nat), Len(s) > 0, \A i \in 1 .. Len(s) - 1 : s[i] = Packet
  PROVE  Total(s) = Packet * (Len(s) - 1) + s[Len(s)]
<1> DEFINE n == Len(s)
<1>1. PICK h \in [0 .. n -> Nat] :
        /\ h[0] = 0 /\ Total(s) = h[n]
        /\ \A i \in 1 .. n : h[i] = h[i - 1] + s[i]
  BY TotalSteps
<1>2. n \in Nat /\ n > 0 /\ Packet \in Nat
  BY ControlAssumption
<1>3. \A i \in 1 .. n - 1 : s[i] = Packet
  OBVIOUS
<1> HIDE DEF n
<1> DEFINE G == {i \in 0 .. n - 1 : h[i] = Packet * i}
<1>4. 0 \in G
  <2>1. Packet * 0 = 0
    BY <1>2
  <2> QED BY <2>1, <1>1, <1>2
<1>5. \A k \in 0 .. n - 1 : k < n - 1 /\ k \in G => k + 1 \in G
  <2> SUFFICES ASSUME NEW k \in 0 .. n - 1, k < n - 1, k \in G PROVE k + 1 \in G
    OBVIOUS
  <2>1. k + 1 \in 1 .. n - 1 /\ k + 1 \in 1 .. n /\ k + 1 - 1 = k /\ k \in Nat
    BY <1>2
  <2>2. h[k + 1] = h[k] + Packet
    BY <2>1, <1>1, <1>3
  <2>3. h[k] = Packet * k
    OBVIOUS
  <2>4. Packet * (k + 1) = Packet * k + Packet
    BY <1>2, <2>1, Z3
  <2> QED BY <2>1, <2>2, <2>3, <2>4
<1> HIDE DEF G
<1>6. n - 1 \in Nat /\ n - 1 \in 0 .. n - 1 /\ n \in 1 .. n
  BY <1>2
<1>7. n - 1 \in G
  BY <1>4, <1>5, <1>6, CountUp
<1>8. h[n - 1] = Packet * (n - 1)
  BY <1>7 DEF G
<1> QED BY <1>1, <1>6, <1>8 DEF n

\* What is known of a transfer to the host.
Control == [mark : Nat, end : Nat, fifo : Nat, packets : Seq(Nat), stop : Nat]

\* A transfer that has taken k bytes, of which it may send e: as long as the host reads, the
\* packets are full and hold, with the bank, the bytes up to the end.
Sent(c, e, s, k) ==
  /\ c \in Control /\ c.end = e /\ c.stop = s
  /\ e = 0 => c.packets = <<>>
  /\ Len(c.packets) < s =>
       /\ c.mark = k /\ c.fifo < Packet
       /\ Packet * Len(c.packets) + c.fifo = IF k < e THEN k ELSE e
       /\ \A i \in 1 .. Len(c.packets) : c.packets[i] = Packet

\* A further byte goes into the bank, or ends a packet, or is only counted.
LEMMA SendControlIs ==
  ASSUME NEW c \in Control
  PROVE  /\ SendControl(c) \in Control
         /\ SendControl(c).end = c.end /\ SendControl(c).stop = c.stop
         /\ ~(c.mark < c.end) =>
              /\ SendControl(c).mark = c.mark + 1 /\ SendControl(c).fifo = c.fifo
              /\ SendControl(c).packets = c.packets
         /\ c.mark < c.end /\ Len(c.packets) >= c.stop => SendControl(c) = c
         /\ c.mark < c.end /\ Len(c.packets) < c.stop =>
              /\ SendControl(c).mark = c.mark + 1
              /\ (c.mark + 1) % Packet = 0 =>
                   SendControl(c).fifo = 0 /\ SendControl(c).packets = Append(c.packets, c.fifo + 1)
              /\ (c.mark + 1) % Packet # 0 =>
                   SendControl(c).fifo = c.fifo + 1 /\ SendControl(c).packets = c.packets
<1> DEFINE d == SendControl(c)
<1>1. /\ c.mark \in Nat /\ c.end \in Nat /\ c.fifo \in Nat /\ c.packets \in Seq(Nat) /\ c.stop \in Nat
      /\ c.mark + 1 \in Nat /\ c.fifo + 1 \in Nat /\ 0 \in Nat
  BY DEF Control
<1>2. Append(c.packets, c.fifo + 1) \in Seq(Nat)
  BY <1>1
<1>3. Len(c.packets) \in Nat
  BY <1>1
<1>4. CASE ~(c.mark < c.end)
  <2>1. d = [c EXCEPT !.mark = @ + 1]
    BY <1>4 DEF SendControl
  <2> HIDE DEF d
  <2>2. d \in Control /\ d.end = c.end /\ d.stop = c.stop /\ d.mark = c.mark + 1 /\ d.fifo = c.fifo /\ d.packets = c.packets
    BY <2>1, <1>1 DEF Control
  <2> QED BY <2>2, <1>4 DEF d
<1>5. CASE c.mark < c.end /\ Len(c.packets) >= c.stop
  <2>1. d = c
    BY <1>5 DEF SendControl
  <2>2. ~(Len(c.packets) < c.stop)
    BY <1>5, <1>3, <1>1
  <2> QED BY <2>1, <2>2, <1>5
<1>6. CASE c.mark < c.end /\ ~(Len(c.packets) >= c.stop) /\ (c.mark + 1) % Packet = 0
  <2>1. d = [c EXCEPT !.mark = @ + 1, !.fifo = 0, !.packets = Append(@, c.fifo + 1)]
    BY <1>6 DEF SendControl
  <2> HIDE DEF d
  <2>2. /\ d \in Control /\ d.end = c.end /\ d.stop = c.stop
        /\ d.mark = c.mark + 1 /\ d.fifo = 0 /\ d.packets = Append(c.packets, c.fifo + 1)
    BY <2>1, <1>1, <1>2 DEF Control
  <2> QED BY <2>2, <1>6 DEF d
<1>7. CASE c.mark < c.end /\ ~(Len(c.packets) >= c.stop) /\ (c.mark + 1) % Packet # 0
  <2>1. d = [c EXCEPT !.mark = @ + 1, !.fifo = @ + 1]
    BY <1>7 DEF SendControl
  <2> HIDE DEF d
  <2>2. /\ d \in Control /\ d.end = c.end /\ d.stop = c.stop
        /\ d.mark = c.mark + 1 /\ d.fifo = c.fifo + 1 /\ d.packets = c.packets
    BY <2>1, <1>1 DEF Control
  <2> QED BY <2>2, <1>7 DEF d
<1> QED BY <1>4, <1>5, <1>6, <1>7

\* So a transfer goes on as it should.
LEMMA SentStep ==
  ASSUME NEW c, NEW e \in Nat, NEW s \in Nat, NEW k \in Nat, Sent(c, e, s, k)
  PROVE  Sent(SendControl(c), e, s, k + 1)
<1> DEFINE d == SendControl(c)
           n == Len(c.packets)
<1>1. /\ c \in Control /\ c.end = e /\ c.stop = s
      /\ e = 0 => c.packets = <<>>
      /\ n < s => /\ c.mark = k /\ c.fifo < Packet
                  /\ Packet * n + c.fifo = IF k < e THEN k ELSE e
                  /\ \A i \in 1 .. n : c.packets[i] = Packet
  BY DEF Sent
<1>2. /\ c.mark \in Nat /\ c.fifo \in Nat /\ c.packets \in Seq(Nat) /\ n \in Nat
      /\ Packet \in Nat \ {0}
  BY <1>1, ControlAssumption DEF Control
<1>3. d \in Control /\ d.end = e /\ d.stop = s
  BY <1>1, SendControlIs
<1>0. e = 0 => d.packets = <<>>
  <2>1. e = 0 => ~(c.mark < c.end)
    BY <1>1, <1>2
  <2> QED BY <2>1, <1>1, SendControlIs
<1>4. CASE ~(n < s)
  <2>1. d.packets = c.packets
    BY <1>1, <1>2, <1>4, SendControlIs
  <2> HIDE DEF d
  <2> QED BY <1>0, <1>3, <1>4, <2>1 DEF Sent, d
<1>5. CASE n < s /\ ~(k < e)
  <2>1. d.packets = c.packets /\ d.mark = k + 1 /\ d.fifo = c.fifo
    BY <1>1, <1>5, SendControlIs
  <2>2. ~(k + 1 < e)
    BY <1>5
  <2> HIDE DEF d
  <2>3. Sent(d, e, s, k + 1)
    BY <1>0, <1>1, <1>3, <1>5, <2>1, <2>2 DEF Sent
  <2> QED BY <2>3 DEF d
<1>6. CASE n < s /\ k < e
  <2>1. c.mark = k /\ c.fifo < Packet /\ Packet * n + c.fifo = k
    BY <1>1, <1>6
  <2>2. c.mark < c.end /\ ~(n >= s)
    BY <1>1, <1>2, <1>6, <2>1
  <2>3. (IF k + 1 < e THEN k + 1 ELSE e) = k + 1
    BY <1>6
  <2>4. CASE c.fifo + 1 < Packet
    <3> DEFINE f == c.fifo + 1
    <3>1. f \in 0 .. Packet - 1 /\ f # 0
      BY <1>2, <2>4
    <3>2. k + 1 = Packet * n + f
      <4> DEFINE p == Packet * n
      <4>1. p \in Nat
        BY <1>2, ProductBounds
      <4>2. p + c.fifo = k /\ c.fifo \in Nat
        BY <2>1, <1>2
      <4> HIDE DEF p
      <4>3. k + 1 = p + (c.fifo + 1)
        BY ONLY <4>1, <4>2
      <4> QED BY <4>3 DEF p
    <3>3. (k + 1) % Packet = f
      <4> HIDE DEF f
      <4>1. n \in Int /\ Packet \in Nat \ {0} /\ f \in 0 .. Packet - 1
        BY <1>2, <3>1
      <4> HIDE DEF n
      <4>2. (Packet * n + f) % Packet = f
        BY ONLY <4>1, DivUnique
      <4> QED BY ONLY <4>2, <3>2
    <3>4. d.mark = k + 1 /\ d.fifo = c.fifo + 1 /\ d.packets = c.packets
      BY <1>1, <1>6, <2>1, <2>2, <3>1, <3>3, SendControlIs
    <3> HIDE DEF d
    <3>5. Sent(d, e, s, k + 1)
      BY <1>0, <1>1, <1>3, <1>6, <2>3, <2>4, <3>2, <3>4 DEF Sent
    <3> QED BY <3>5 DEF d
  <2>5. CASE ~(c.fifo + 1 < Packet)
    <3>1. c.fifo + 1 = Packet
      BY <1>2, <2>1, <2>5
    <3>2. k + 1 = Packet * (n + 1) /\ Packet * (n + 1) = Packet * (n + 1) + 0
      <4>1. Packet * (n + 1) = Packet * n + Packet /\ Packet * n \in Nat
        BY <1>2, Z3
      <4> DEFINE p == Packet * n
                 q == Packet * (n + 1)
      <4>2. p \in Nat /\ p + c.fifo = k /\ q = p + Packet
        BY <4>1, <2>1
      <4> HIDE DEF p, q
      <4>3. k + 1 = q /\ q = q + 0
        BY <4>2, <3>1, <1>2
      <4> QED BY <4>3 DEF q
    <3>3. (k + 1) % Packet = 0
      <4>1. 0 \in 0 .. Packet - 1 /\ n + 1 \in Int
        BY <1>2
      <4>2. (Packet * (n + 1) + 0) % Packet = 0
        BY <1>2, <4>1, DivUnique
      <4> QED BY <4>2, <3>2
    <3>4. d.mark = k + 1 /\ d.fifo = 0 /\ d.packets = Append(c.packets, c.fifo + 1)
      BY <1>1, <1>6, <2>1, <2>2, <3>3, SendControlIs
    <3> HIDE DEF d
    <3>5. Len(d.packets) = n + 1 /\ \A i \in 1 .. n + 1 : d.packets[i] = Packet
      <4>1. Len(d.packets) = n + 1
        BY <1>2, <3>4
      <4>2. \A i \in 1 .. n : d.packets[i] = c.packets[i]
        BY <1>2, <3>4
      <4>3. d.packets[n + 1] = Packet
        BY <1>2, <3>1, <3>4
      <4>4. \A i \in 1 .. n : d.packets[i] = Packet
        BY <1>1, <1>6, <4>2
      <4>5. \A i \in 1 .. n + 1 : i = n + 1 \/ i \in 1 .. n
        BY <1>2
      <4> HIDE DEF n
      <4> QED BY ONLY <4>1, <4>3, <4>4, <4>5
    <3>6. d.fifo < Packet /\ Packet * Len(d.packets) + d.fifo = k + 1
      BY <1>2, <3>2, <3>4, <3>5
    <3> HIDE DEF n
    <3>7. Sent(d, e, s, k + 1)
      BY <1>0, <1>3, <2>3, <3>4, <3>5, <3>6 DEF Sent
    <3> QED BY <3>7 DEF d
  <2> QED BY <2>4, <2>5
<1> QED BY <1>4, <1>5, <1>6

\* How USB_SendControl() goes on byte by byte.
LEMMA AfterSteps ==
  ASSUME NEW c \in Control, NEW len \in Nat
  PROVE  \E h \in [0 .. len -> Control] :
           /\ h[0] = c /\ USB_SendControl(c, len) = h[len]
           /\ \A i \in 1 .. len : h[i] = SendControl(h[i - 1])
<1> DEFINE F == [i \in 1 .. len |-> [v \in Control |-> SendControl(v)]]
           Body(g) == [i \in 0 .. len |-> IF i = 0 THEN c ELSE SendControl(g[i - 1])]
           it == CHOOSE g : g = Body(g)
<1>1. USB_SendControl(c, len) = it[len]
  BY DEF USB_SendControl
<1>2. \A v \in Control, i \in 1 .. len : F[i][v] = SendControl(v) /\ SendControl(v) \in Control
  BY SendControlIs
<1> HIDE DEF F
<1>3. PICK g \in [SUBSET (1 .. len) -> Control] : SolvesFold(g, F, c, len)
  <2>1. \A v \in Control, i \in 1 .. len : F[i][v] \in Control
    BY <1>2
  <2> QED BY <2>1, FoldExists
<1> DEFINE h == [i \in 0 .. len |-> g[1 .. i]]
<1>4. \A i \in 0 .. len : h[i] = g[1 .. i] /\ h[i] \in Control
  <2> SUFFICES ASSUME NEW i \in 0 .. len PROVE h[i] = g[1 .. i] /\ h[i] \in Control
    OBVIOUS
  <2>1. 1 .. i \in SUBSET (1 .. len)
    OBVIOUS
  <2> QED BY <2>1, <1>3
<1>5. h[0] = c /\ \A i \in 1 .. len : h[i] = SendControl(h[i - 1])
  <2>1. g[1 .. 0] = c /\ \A i \in 1 .. len : g[1 .. i] = F[i][g[1 .. i - 1]]
    BY <1>3, FoldSteps
  <2>2. 0 \in 0 .. len
    OBVIOUS
  <2>3. ASSUME NEW i \in 1 .. len PROVE h[i] = SendControl(h[i - 1])
    <3>1. i \in 0 .. len /\ i - 1 \in 0 .. len
      OBVIOUS
    <3>2. h[i] = g[1 .. i] /\ h[i - 1] = g[1 .. i - 1] /\ h[i - 1] \in Control
      BY <3>1, <1>4
    <3> HIDE DEF h
    <3> QED BY <2>1, <3>2, <1>2
  <2>4. h[0] = c
    BY <2>1, <2>2, <1>4
  <2> QED BY <2>3, <2>4
<1>6. h = Body(h)
  <2>1. \A i \in 0 .. len : h[i] = IF i = 0 THEN c ELSE SendControl(h[i - 1])
    <3>1. \A i \in 0 .. len : i = 0 \/ i \in 1 .. len
      OBVIOUS
    <3> HIDE DEF h
    <3> QED BY <3>1, <1>5
  <2>2. h = [i \in 0 .. len |-> h[i]]
    OBVIOUS
  <2> HIDE DEF h
  <2> QED BY <2>1, <2>2
<1> HIDE DEF Body, h
<1>7. it = Body(it)
  BY <1>6, Zenon
<1> HIDE DEF it
<1>8. it = [i \in 0 .. len |-> it[i]]
  BY <1>7 DEF Body
<1>11. it[0] = c /\ \A i \in 1 .. len : it[i] = SendControl(it[i - 1])
  <2>1. \A i \in 0 .. len : it[i] = IF i = 0 THEN c ELSE SendControl(it[i - 1])
    BY <1>7 DEF Body
  <2>2. 0 \in 0 .. len /\ \A i \in 1 .. len : i \in 0 .. len /\ i # 0
    OBVIOUS
  <2>3. it[0] = c
    BY ONLY <2>1, <2>2, Zenon
  <2>4. \A i \in 1 .. len : it[i] = SendControl(it[i - 1])
    BY ONLY <2>1, <2>2, Zenon
  <2> QED BY <2>3, <2>4
<1>9. \A i \in 0 .. len : it[i] \in Control
  <2> DEFINE G == {i \in 0 .. len : it[i] \in Control}
  <2>1. 0 \in G
    BY <1>11
  <2>2. \A k \in 0 .. len : k < len /\ k \in G => k + 1 \in G
    <3> SUFFICES ASSUME NEW k \in 0 .. len, k < len, k \in G PROVE k + 1 \in G
      OBVIOUS
    <3>1. k + 1 \in 1 .. len /\ k + 1 \in 0 .. len /\ k + 1 - 1 = k
      OBVIOUS
    <3>2. it[k + 1] = SendControl(it[k])
      BY <3>1, <1>11
    <3>3. it[k + 1] \in Control
      BY <3>2, SendControlIs
    <3> QED BY <3>1, <3>3
  <2> HIDE DEF G
  <2>3. \A i \in 0 .. len : i \in G
    BY <2>1, <2>2, CountUp
  <2> QED BY <2>3 DEF G
<1>10. it \in [0 .. len -> Control]
  BY <1>8, <1>9
<1> QED BY <1>1, <1>10, <1>11

\* So len bytes more are sent or counted.
LEMMA SentAll ==
  ASSUME NEW c, NEW e \in Nat, NEW s \in Nat, NEW k \in Nat, NEW len \in Nat, Sent(c, e, s, k)
  PROVE  Sent(USB_SendControl(c, len), e, s, k + len)
<1>1. c \in Control
  BY DEF Sent
<1>2. PICK h \in [0 .. len -> Control] :
        /\ h[0] = c /\ USB_SendControl(c, len) = h[len]
        /\ \A i \in 1 .. len : h[i] = SendControl(h[i - 1])
  BY <1>1, AfterSteps
<1> DEFINE G == {i \in 0 .. len : Sent(h[i], e, s, k + i)}
<1>3. 0 \in G
  <2>1. k + 0 = k /\ 0 \in 0 .. len
    OBVIOUS
  <2> QED BY <2>1, <1>2
<1>4. \A i \in 0 .. len : i < len /\ i \in G => i + 1 \in G
  <2> SUFFICES ASSUME NEW i \in 0 .. len, i < len, i \in G PROVE i + 1 \in G
    OBVIOUS
  <2>1. i + 1 \in 1 .. len /\ i + 1 \in 0 .. len /\ i + 1 - 1 = i /\ k + i \in Nat /\ k + i + 1 = k + (i + 1)
    OBVIOUS
  <2>2. h[i + 1] = SendControl(h[i])
    BY <2>1, <1>2
  <2>3. Sent(SendControl(h[i]), e, s, k + i + 1)
    BY <2>1, SentStep
  <2> QED BY <2>1, <2>2, <2>3
<1> HIDE DEF G
<1>5. len \in G
  <2>1. len \in 0 .. len
    OBVIOUS
  <2> QED BY <2>1, <1>3, <1>4, CountUp
<1> QED BY <1>2, <1>5 DEF G

\* The modules of the list have a size.
LEMMA PluggedSize ==
  ASSUME plugged \in Seq(PluggedModule)
  PROVE  /\ Len(plugged) \in Nat /\ DOMAIN plugged = 1 .. Len(plugged)
         /\ \A i \in 1 .. Len(plugged) : plugged[i].module.size \in Nat
<1>1. /\ Len(plugged) \in Nat /\ DOMAIN plugged = 1 .. Len(plugged)
      /\ \A i \in 1 .. Len(plugged) : plugged[i] \in PluggedModule
  OBVIOUS
<1>2. \A p \in PluggedModule : p.module \in UsbModule
  BY DEF PluggedModule
<1>3. \A d \in UsbModule : d.size \in Nat
  BY TransferAssumption
<1> QED BY ONLY <1>1, <1>2, <1>3

\* How the modules of the list send their descriptors, one after the other.
LEMMA PluggedSteps ==
  ASSUME plugged \in Seq(PluggedModule), NEW c \in Control
  PROVE  \E h \in [0 .. Len(plugged) -> Control] :
           /\ h[0] = c /\ SendPlugged(c) = h[Len(plugged)]
           /\ \A i \in 1 .. Len(plugged) : h[i] = USB_SendControl(h[i - 1], plugged[i].module.size)
<1> DEFINE n == Len(plugged)
           F == [i \in 1 .. n |-> [v \in Control |-> USB_SendControl(v, plugged[i].module.size)]]
           Body(g) == [w \in SUBSET DOMAIN plugged |->
                         IF w = {} THEN c ELSE USB_SendControl(g[w \ {Max(w)}], plugged[Max(w)].module.size)]
           it == CHOOSE g : g = Body(g)
<1>1. SendPlugged(c) = it[DOMAIN plugged]
  BY DEF SendPlugged, FoldLeft, MapThenFoldSet
<1>2. n \in Nat /\ DOMAIN plugged = 1 .. n /\ \A i \in 1 .. n : plugged[i].module.size \in Nat
  BY PluggedSize
<1>3. \A v \in Control, i \in 1 .. n :
        /\ F[i][v] = USB_SendControl(v, plugged[i].module.size)
        /\ USB_SendControl(v, plugged[i].module.size) \in Control
  <2> SUFFICES ASSUME NEW v \in Control, NEW i \in 1 .. n
               PROVE  /\ F[i][v] = USB_SendControl(v, plugged[i].module.size)
                      /\ USB_SendControl(v, plugged[i].module.size) \in Control
    OBVIOUS
  <2>1. plugged[i].module.size \in Nat
    BY <1>2
  <2>2. USB_SendControl(v, plugged[i].module.size) \in Control
    <3> DEFINE l == plugged[i].module.size
    <3>1. l \in Nat
      BY <2>1
    <3> HIDE DEF l
    <3>2. PICK h \in [0 .. l -> Control] : USB_SendControl(v, l) = h[l]
      BY <3>1, AfterSteps
    <3>3. l \in 0 .. l
      BY <3>1
    <3> QED BY <3>2, <3>3 DEF l
  <2> QED BY <2>2
<1> HIDE DEF n, F
<1>4. PICK g \in [SUBSET (1 .. n) -> Control] : SolvesFold(g, F, c, n)
  <2>1. \A v \in Control, i \in 1 .. n : F[i][v] \in Control
    BY <1>3
  <2> QED BY <2>1, <1>2, FoldExists
<1>5. g = Body(g)
  <2>1. \A w \in SUBSET (1 .. n) :
          g[w] = IF w = {} THEN c ELSE USB_SendControl(g[w \ {Max(w)}], plugged[Max(w)].module.size)
    <3> SUFFICES ASSUME NEW w \in SUBSET (1 .. n)
                 PROVE  g[w] = IF w = {} THEN c
                               ELSE USB_SendControl(g[w \ {Max(w)}], plugged[Max(w)].module.size)
      OBVIOUS
    <3>1. g[w] = IF w = {} THEN c ELSE F[Max(w)][g[w \ {Max(w)}]]
      BY <1>4 DEF SolvesFold
    <3>2. w # {} => Max(w) \in 1 .. n /\ g[w \ {Max(w)}] \in Control
      <4>1. w # {} => Max(w) \in 1 .. n
        BY <1>2, GreatestIsIn
      <4>2. w \ {Max(w)} \in SUBSET (1 .. n)
        OBVIOUS
      <4> QED BY <4>1, <4>2, <1>4
    <3> QED BY <3>1, <3>2, <1>3
  <2>2. g = [w \in SUBSET (1 .. n) |-> g[w]]
    BY <1>4
  <2> QED BY <2>1, <2>2, <1>2
<1> HIDE DEF Body
<1>6. it = Body(it)
  BY <1>5, Zenon
<1> DEFINE h == [i \in 0 .. n |-> it[1 .. i]]
<1>7. \A w \in SUBSET (1 .. n) :
        it[w] = IF w = {} THEN c ELSE USB_SendControl(it[w \ {Max(w)}], plugged[Max(w)].module.size)
  BY <1>2, <1>6 DEF Body
<1> HIDE DEF it
<1>8. h[0] = c
  <2>1. 1 .. 0 = {} /\ 0 \in 0 .. n /\ {} \in SUBSET (1 .. n)
    BY <1>2
  <2>2. h[0] = it[1 .. 0]
    BY <2>1
  <2>3. it[{}] = c
    BY ONLY <2>1, <1>7, Zenon
  <2> QED BY ONLY <2>1, <2>2, <2>3
<1>9. ASSUME NEW i \in 1 .. n PROVE h[i] = USB_SendControl(h[i - 1], plugged[i].module.size)
  <2>1. 1 .. i \in SUBSET (1 .. n) /\ 1 .. i \in SUBSET Nat /\ i \in 1 .. i /\ \A y \in 1 .. i : y <= i
    BY <1>2
  <2>2. Max(1 .. i) = i
    BY <2>1, MaxIs
  <2>3. (1 .. i) \ {i} = 1 .. i - 1 /\ 1 .. i # {}
    BY <2>1
  <2>4. it[1 .. i] = USB_SendControl(it[(1 .. i) \ {Max(1 .. i)}], plugged[Max(1 .. i)].module.size)
    BY ONLY <2>1, <2>3, <1>7, Zenon
  <2>5. i \in 0 .. n /\ i - 1 \in 0 .. n
    BY <1>2
  <2>6. h[i] = it[1 .. i] /\ h[i - 1] = it[1 .. i - 1]
    BY <2>5
  <2> QED BY ONLY <2>2, <2>3, <2>4, <2>6
<1>10. SendPlugged(c) = h[n]
  <2>1. n \in 0 .. n
    BY <1>2
  <2> QED BY <2>1, <1>1, <1>2
<1>11. h = [i \in 0 .. n |-> h[i]]
  OBVIOUS
<1> HIDE DEF h
<1>12. \A i \in 0 .. n : h[i] \in Control
  <2> DEFINE G == {i \in 0 .. n : h[i] \in Control}
  <2>1. 0 \in G
    BY <1>2, <1>8
  <2>2. \A k \in 0 .. n : k < n /\ k \in G => k + 1 \in G
    <3> SUFFICES ASSUME NEW k \in 0 .. n, k < n, k \in G PROVE k + 1 \in G
      OBVIOUS
    <3>1. k + 1 \in 1 .. n /\ k + 1 \in 0 .. n /\ k + 1 - 1 = k
      BY <1>2
    <3>2. h[k + 1] = USB_SendControl(h[k], plugged[k + 1].module.size)
      BY <3>1, <1>9
    <3>3. h[k + 1] \in Control
      BY <3>1, <3>2, <1>3
    <3> QED BY <3>1, <3>3
  <2> HIDE DEF G
  <2>3. \A k \in 0 .. n : k \in G
    BY <1>2, <2>1, <2>2, CountUp
  <2> QED BY <2>3 DEF G
<1>13. h \in [0 .. n -> Control]
  BY <1>11, <1>12
<1> QED BY <1>8, <1>9, <1>10, <1>13 DEF n

\* All modules together send a certain number of bytes, the same in both passes.
LEMMA SentPlugged ==
  ASSUME plugged \in Seq(PluggedModule)
  PROVE  \E v \in Nat : \A c : \A e \in Nat, s \in Nat, k \in Nat :
           Sent(c, e, s, k) => Sent(SendPlugged(c), e, s, k + v)
<1> DEFINE n == Len(plugged)
           sizes == [i \in 1 .. n |-> plugged[i].module.size]
<1>1. n \in Nat /\ \A i \in 1 .. n : plugged[i].module.size \in Nat
  BY PluggedSize
<1>2. sizes \in Seq(Nat) /\ Len(sizes) = n /\ \A i \in 1 .. n : sizes[i] = plugged[i].module.size
  BY <1>1
<1> HIDE DEF sizes
<1>3. PICK w \in [0 .. n -> Nat] : w[0] = 0 /\ \A i \in 1 .. n : w[i] = w[i - 1] + sizes[i]
  BY <1>2, TotalSteps
<1>4. n \in 0 .. n /\ w[n] \in Nat
  BY <1>1, <1>3
<1>5. ASSUME NEW c, NEW e \in Nat, NEW s \in Nat, NEW k \in Nat, Sent(c, e, s, k)
      PROVE  Sent(SendPlugged(c), e, s, k + w[n])
  <2>1. c \in Control
    BY <1>5 DEF Sent
  <2>2. PICK h \in [0 .. n -> Control] :
          /\ h[0] = c /\ SendPlugged(c) = h[n]
          /\ \A i \in 1 .. n : h[i] = USB_SendControl(h[i - 1], plugged[i].module.size)
    BY <2>1, PluggedSteps
  <2> HIDE DEF n
  <2> DEFINE G == {i \in 0 .. n : Sent(h[i], e, s, k + w[i])}
  <2>3. 0 \in G
    <3>1. 0 \in 0 .. n /\ k + w[0] = k
      BY <1>1, <1>3
    <3> QED BY <3>1, <2>2, <1>5
  <2>4. \A i \in 0 .. n : i < n /\ i \in G => i + 1 \in G
    <3> SUFFICES ASSUME NEW i \in 0 .. n, i < n, i \in G PROVE i + 1 \in G
      OBVIOUS
    <3>1. i + 1 \in 1 .. n /\ i + 1 \in 0 .. n /\ i + 1 - 1 = i
      BY <1>1
    <3> DEFINE l == plugged[i + 1].module.size
               q == k + w[i]
    <3>2. l \in Nat /\ q \in Nat /\ k + w[i + 1] = q + l
      <4>1. w[i] \in Nat /\ l \in Nat /\ w[i + 1] = w[i] + l
        <5>1. w[i] \in Nat
          BY <1>3
        <5>2. l \in Nat
          BY <3>1, <1>1
        <5>3. sizes[i + 1] = l
          BY <3>1, <1>2
        <5>4. w[i + 1] = w[i] + sizes[i + 1]
          BY <3>1, <1>3
        <5> QED BY ONLY <5>1, <5>2, <5>3, <5>4
      <4> HIDE DEF l
      <4> QED BY ONLY <4>1, k \in Nat
    <3>3. h[i + 1] = USB_SendControl(h[i], l)
      BY <3>1, <2>2
    <3>4. Sent(h[i], e, s, q)
      OBVIOUS
    <3> HIDE DEF l, q
    <3>5. Sent(USB_SendControl(h[i], l), e, s, q + l)
      BY <3>2, <3>4, SentAll
    <3>6. Sent(h[i + 1], e, s, k + w[i + 1])
      BY <3>2, <3>3, <3>5
    <3> QED BY <3>1, <3>6
  <2> HIDE DEF G
  <2>5. n \in G
    BY <1>1, <1>4, <2>3, <2>4, CountUp
  <2> QED BY <2>2, <2>5 DEF G
<1> QED BY <1>4, <1>5

\* A transfer starts with nothing.
LEMMA SentNothing ==
  ASSUME NEW e \in Nat, NEW s \in Nat
  PROVE  Sent(InitControl(e, s), e, s, 0)
<1> DEFINE c == InitControl(e, s)
<1>1. /\ c.mark = 0 /\ c.end = e /\ c.fifo = 0 /\ c.packets = <<>> /\ c.stop = s
  BY DEF InitControl
<1>2. c \in Control
  BY DEF InitControl, Control
<1>3. Len(<<>>) = 0 /\ Packet * 0 + 0 = 0 /\ 0 < Packet /\ (IF 0 < e THEN 0 ELSE e) = 0
  BY ControlAssumption
<1> HIDE DEF c
<1>4. Sent(c, e, s, 0)
  BY <1>1, <1>2, <1>3 DEF Sent
<1> QED BY <1>4 DEF c

\* What goes out with the last packet is whole, if the descriptor states what was counted.
LEMMA AnswerIsWhole ==
  ASSUME NEW asked \in Nat, NEW s \in Nat, NEW total \in Nat, NEW c, NEW states,
         Sent(c, asked, s, total), s > 0 => states = total, Answer(asked, c, states)
  PROVE  DescriptorIsWhole'
<1> DEFINE n  == Len(c.packets)
           ps == Append(c.packets, c.fifo)
<1>1. /\ c.packets \in Seq(Nat) /\ c.fifo \in Nat /\ c.stop = s /\ n \in Nat /\ Packet \in Nat \ {0}
      /\ n < s => /\ c.fifo < Packet
                  /\ Packet * n + c.fifo = IF total < asked THEN total ELSE asked
                  /\ \A i \in 1 .. n : c.packets[i] = Packet
  BY ControlAssumption DEF Sent, Control
<1>2. /\ transfer'.asked = asked /\ transfer'.states = states /\ transfer'.packets = ps
      /\ transfer'.aborted = (n >= s)
  BY <1>1 DEF Answer
<1>3. ps \in Seq(Nat) /\ Len(ps) = n + 1 /\ ps[n + 1] = c.fifo /\ \A i \in 1 .. n : ps[i] = c.packets[i]
  BY <1>1
<1> HIDE DEF ps
<1>4. CASE n >= s
  BY <1>2, <1>4 DEF DescriptorIsWhole
<1>5. CASE ~(n >= s)
  <2>1. n < s /\ states = total
    BY <1>1, <1>5
  <2>2. \A i \in 1 .. n : ps[i] = Packet
    BY <1>1, <1>3, <2>1
  <2>3. Len(ps) > 0 /\ Len(ps) - 1 = n
    BY <1>1, <1>3
  <2>4. Total(ps) = Packet * n + c.fifo
    <3>1. Total(ps) = Packet * (Len(ps) - 1) + ps[Len(ps)]
      BY <1>3, <2>2, <2>3, TotalOfPackets
    <3> QED BY ONLY <3>1, <2>3, <1>3
  <2> HIDE DEF n
  <2>5. Packet * n + c.fifo = IF total < asked THEN total ELSE asked
    BY <1>1, <2>1
  <2>6. (IF total < asked THEN total ELSE asked) = (IF asked < total THEN asked ELSE total)
    OBVIOUS
  <2>7. Total(ps) = IF asked < states THEN asked ELSE states
    BY ONLY <2>1, <2>4, <2>5, <2>6
  <2>8. ps[Len(ps)] < Packet
    BY <1>1, <1>3, <2>1
  <2>9. \A i \in 1 .. Len(ps) - 1 : ps[i] = Packet
    BY <2>2, <2>3
  <2> QED BY ONLY <1>2, <2>7, <2>8, <2>9 DEF DescriptorIsWhole
<1> QED BY <1>4, <1>5

\* The first pass over the descriptors counts as many bytes as the second sends.
LEMMA ConfigurationIsWhole ==
  ASSUME plugged \in Seq(PluggedModule), NEW asked \in Asked, NEW stop \in Stop,
         GetConfiguration(asked, stop)
  PROVE  DescriptorIsWhole'
<1>1. asked \in Nat /\ stop \in Nat /\ ConfigSize \in Nat /\ CdcSize \in Nat /\ 0 \in Nat
  BY TransferAssumption
<1>2. PICK w \in Nat : \A c : \A e \in Nat, s \in Nat, k \in Nat :
        Sent(c, e, s, k) => Sent(SendPlugged(c), e, s, k + w)
  BY SentPlugged
<1> DEFINE first  == SendInterfaces(InitControl(0, stop))
           second == SendInterfaces(USB_SendControl(InitControl(asked, stop), ConfigSize))
<1>3. Sent(first, 0, stop, CdcSize + w)
  <2>1. Sent(InitControl(0, stop), 0, stop, 0)
    BY <1>1, SentNothing
  <2>2. Sent(USB_SendControl(InitControl(0, stop), CdcSize), 0, stop, 0 + CdcSize)
    BY ONLY <1>1, <2>1, SentAll
  <2>3. 0 + CdcSize = CdcSize
    BY <1>1
  <2>4. Sent(USB_SendControl(InitControl(0, stop), CdcSize), 0, stop, CdcSize)
    BY ONLY <2>2, <2>3, Zenon
  <2> QED BY ONLY <1>1, <1>2, <2>4, Zenon DEF SendInterfaces
<1>4. Sent(second, asked, stop, ConfigSize + CdcSize + w)
  <2> DEFINE a == USB_SendControl(InitControl(asked, stop), ConfigSize)
             b == USB_SendControl(a, CdcSize)
  <2>1. Sent(InitControl(asked, stop), asked, stop, 0)
    BY <1>1, SentNothing
  <2>2. Sent(a, asked, stop, 0 + ConfigSize)
    BY ONLY <1>1, <2>1, SentAll
  <2>3. 0 + ConfigSize = ConfigSize /\ ConfigSize + CdcSize \in Nat
    BY <1>1
  <2> HIDE DEF a
  <2>4. Sent(a, asked, stop, ConfigSize)
    BY ONLY <2>2, <2>3, Zenon
  <2>5. Sent(b, asked, stop, ConfigSize + CdcSize)
    BY ONLY <1>1, <2>4, SentAll
  <2> HIDE DEF b
  <2>6. Sent(SendPlugged(b), asked, stop, ConfigSize + CdcSize + w)
    BY ONLY <1>1, <1>2, <2>3, <2>5, Zenon
  <2>7. second = SendPlugged(b)
    BY DEF SendInterfaces, a, b
  <2> QED BY ONLY <2>6, <2>7, Zenon
<1>5. Answer(asked, second, first.mark + ConfigSize)
  BY DEF GetConfiguration
<1> HIDE DEF first, second
<1>6. stop > 0 => first.mark + ConfigSize = ConfigSize + CdcSize + w
  <2>1. first.packets = <<>> /\ (Len(first.packets) < stop => first.mark = CdcSize + w)
    BY <1>3 DEF Sent
  <2>2. stop > 0 => first.mark = CdcSize + w
    <3>1. Len(<<>>) = 0
      OBVIOUS
    <3> QED BY <2>1, <3>1
  <2> QED BY <2>2, <1>1, <1>2
<1>7. ConfigSize + CdcSize + w \in Nat
  BY <1>1, <1>2
<1> DEFINE total  == ConfigSize + CdcSize + w
           states == first.mark + ConfigSize
<1>8. total \in Nat /\ Sent(second, asked, stop, total) /\ (stop > 0 => states = total)
      /\ Answer(asked, second, states)
  BY <1>4, <1>5, <1>6, <1>7
<1> HIDE DEF total, states
<1> QED BY ONLY <1>1, <1>8, AnswerIsWhole

\* A string states its length in a byte.
LEMMA StringIsWhole ==
  ASSUME NEW asked \in Asked, NEW stop \in Stop, NEW length \in StringSize,
         GetString(asked, stop, length)
  PROVE  DescriptorIsWhole'
<1> DEFINE l == 2 + 2 * length
           c == USB_SendControl(InitControl(asked, stop), l)
<1>1. asked \in Nat /\ stop \in Nat /\ l \in Nat /\ l < 256 /\ 0 \in Nat
  BY TransferAssumption
<1>2. Answer(asked, c, l % 256)
  BY DEF GetString
<1> HIDE DEF l
<1>3. l % 256 = l /\ 0 + l = l
  BY <1>1
<1>4. Sent(InitControl(asked, stop), asked, stop, 0)
  BY <1>1, SentNothing
<1>5. Sent(c, asked, stop, 0 + l)
  BY ONLY <1>1, <1>4, SentAll
<1> HIDE DEF c
<1>6. Sent(c, asked, stop, l) /\ Answer(asked, c, l)
  BY ONLY <1>2, <1>3, <1>5
<1>7. stop > 0 => l = l
  OBVIOUS
<1> QED BY ONLY <1>1, <1>6, <1>7, AnswerIsWhole

\* What descriptors rest on: the list of modules is one.
DescriptorInv ==
  /\ plugged \in Seq(PluggedModule) /\ lastEp \in Nat /\ lastIf \in Nat
  /\ DescriptorIsWhole

LEMMA InitEstablishesDescriptor == ControlInit => DescriptorInv
<1> SUFFICES ASSUME ControlInit PROVE DescriptorInv
  OBVIOUS
<1>1. transfer.aborted = TRUE /\ plugged = <<>> /\ lastEp = 4 /\ lastIf = 2
  BY DEF ControlInit
<1>2. DescriptorIsWhole
  BY <1>1 DEF DescriptorIsWhole
<1>3. plugged \in Seq(PluggedModule) /\ lastEp \in Nat /\ lastIf \in Nat
  BY ONLY <1>1
<1> QED BY <1>2, <1>3 DEF DescriptorInv

\* Requests for a descriptor answer in whole, everything else leaves the answer alone.
LEMMA DescriptorStep ==
  ASSUME DescriptorInv, [PlugNext \/ LineNext]_controlVars
  PROVE  DescriptorInv'
<1>0. ASSUME UNCHANGED <<plugged, lastEp, lastIf, transfer>> PROVE DescriptorInv'
  BY <1>0 DEF DescriptorInv, DescriptorIsWhole
<1>1. ASSUME NEW d \in UsbModule, Plug(d) PROVE DescriptorInv'
  <2>1. /\ plugged' = Append(plugged, [module |-> d, ep |-> lastEp, if |-> lastIf])
        /\ lastIf' = lastIf + d.interfaces /\ lastEp' = lastEp + d.endpoints /\ transfer' = transfer
    BY <1>1 DEF Plug
  <2>2. d.endpoints \in Nat /\ d.interfaces \in Nat
    BY ControlAssumption
  <2>3. plugged \in Seq(PluggedModule) /\ lastEp \in Nat /\ lastIf \in Nat
    BY DEF DescriptorInv
  <2>4. [module |-> d, ep |-> lastEp, if |-> lastIf] \in PluggedModule
    BY <2>3 DEF PluggedModule
  <2>5. plugged' \in Seq(PluggedModule) /\ lastEp' \in Nat /\ lastIf' \in Nat
    <3>1. plugged' \in Seq(PluggedModule)
      <4> DEFINE new == [module |-> d, ep |-> lastEp, if |-> lastIf]
      <4>1. new \in PluggedModule /\ plugged' = Append(plugged, new) /\ plugged \in Seq(PluggedModule)
        BY <2>1, <2>3, <2>4
      <4> HIDE DEF new
      <4> QED BY ONLY <4>1
    <3>2. lastEp' \in Nat
      BY ONLY <2>1, <2>2, <2>3
    <3>3. lastIf' \in Nat
      BY ONLY <2>1, <2>2, <2>3
    <3> QED BY <3>1, <3>2, <3>3
  <2>6. DescriptorIsWhole'
    BY <2>1 DEF DescriptorInv, DescriptorIsWhole
  <2> QED BY <2>5, <2>6 DEF DescriptorInv
<1>2. ASSUME NEW value, SetConfiguration(value) PROVE DescriptorInv'
  BY <1>0, <1>2 DEF SetConfiguration
<1>3. ASSUME EndOfReset PROVE DescriptorInv'
  BY <1>0, <1>3 DEF EndOfReset
<1>4. ASSUME NEW asked \in Asked, NEW stop \in Stop, GetConfiguration(asked, stop)
      PROVE  DescriptorInv'
  <2>1. DescriptorIsWhole'
    BY <1>4, ConfigurationIsWhole DEF DescriptorInv
  <2> QED BY <1>4, <2>1 DEF GetConfiguration, DescriptorInv, plugVars
<1>5. ASSUME NEW asked \in Asked, NEW stop \in Stop, NEW length \in StringSize,
             GetString(asked, stop, length)
      PROVE  DescriptorInv'
  <2>1. DescriptorIsWhole'
    BY <1>5, StringIsWhole
  <2> QED BY <1>5, <2>1 DEF GetString, DescriptorInv, plugVars
<1>6. ASSUME LineNext PROVE DescriptorInv'
  <2>1. PlugRest
    BY <1>6, LineKeepsPlugs
  <2> QED BY <1>0, <2>1 DEF PlugRest, plugVars
<1>7. ASSUME UNCHANGED controlVars PROVE DescriptorInv'
  BY <1>0, <1>7 DEF controlVars, plugVars
<1> QED BY <1>1, <1>2, <1>3, <1>4, <1>5, <1>6, <1>7 DEF PlugNext

\* The host gets as many bytes as the descriptor says it has, or as it asked for, in full
\* packets but for the last one, for every set of modules in whatever order they are plugged,
\* also after the host has configured the device, and every size of the packets.
THEOREM DescriptorStaysWhole == ControlSpec => []DescriptorIsWhole
<1>1. DescriptorInv /\ [PlugNext \/ LineNext]_controlVars => DescriptorInv'
  BY DescriptorStep
<1>2. DescriptorInv => DescriptorIsWhole
  BY DEF DescriptorInv
<1> QED BY <1>1, <1>2, InitEstablishesDescriptor, PTL DEF ControlSpec

(***************************************************************************)
(* The numbers of Stream: parseInt() and parseFloat(). They skip what no   *)
(* number starts with, take a sign, digits and one point, pass over the    *)
(* character to ignore, and keep a value and a count of the digits behind  *)
(* the point. After every character these are what the characters taken    *)
(* say, written as a sum of digits times powers of ten.                    *)
(***************************************************************************)

\* What is written with a one and so many zeros.
LEMMA Powers ==
  /\ PowerOfTen \in [Nat -> Nat] /\ PowerOfTen[0] = 1
  /\ \A n \in Nat : PowerOfTen[n + 1] = 10 * PowerOfTen[n]
<1> DEFINE Body(g) == [n \in Nat |-> IF n = 0 THEN 1 ELSE 10 * g[n - 1]]
           F == [v \in Nat |-> 10 * v]
           it == CHOOSE g : g = Body(g)
<1>1. PICK h \in [Nat -> Nat] : h[0] = 1 /\ \A n \in Nat : h[n + 1] = F[h[n]]
  <2> DEFINE V == Nat
             b == 1
  <2>1. b \in V /\ \A v \in V : F[v] \in V
    OBVIOUS
  <2> HIDE DEF F, V, b
  <2>2. \E h \in [Nat -> V] : h[0] = b /\ \A n \in Nat : h[n + 1] = F[h[n]]
    BY ONLY <2>1, NatRecursion
  <2> QED BY <2>2 DEF V, b
<1>2. h = Body(h)
  <2>1. ASSUME NEW n \in Nat PROVE h[n] = IF n = 0 THEN 1 ELSE 10 * h[n - 1]
    <3>1. CASE n = 0
      BY <1>1, <3>1
    <3>2. CASE n # 0
      <4>1. n - 1 \in Nat /\ n - 1 + 1 = n
        BY <3>2
      <4>2. h[n] = F[h[n - 1]] /\ h[n - 1] \in Nat
        BY <4>1, <1>1
      <4> QED BY <4>2, <3>2
    <3> QED BY <3>1, <3>2
  <2>2. h = [n \in Nat |-> h[n]]
    OBVIOUS
  <2> QED BY <2>1, <2>2
<1>3. PowerOfTen = it
  BY DEF PowerOfTen
<1> HIDE DEF Body
<1>4. it = Body(it)
  BY <1>2, Zenon
<1> HIDE DEF it
<1>10. PowerOfTen = [n \in Nat |-> PowerOfTen[n]]
  BY <1>3, <1>4 DEF Body
<1>5. \A n \in Nat : PowerOfTen[n] = IF n = 0 THEN 1 ELSE 10 * PowerOfTen[n - 1]
  BY <1>3, <1>4 DEF Body
<1>6. PowerOfTen[0] = 1
  BY <1>5
<1>7. ASSUME NEW n \in Nat PROVE PowerOfTen[n + 1] = 10 * PowerOfTen[n]
  <2> DEFINE k == n + 1
  <2>1. k \in Nat /\ k # 0 /\ k - 1 = n
    OBVIOUS
  <2> HIDE DEF k
  <2>2. PowerOfTen[k] = 10 * PowerOfTen[n]
    BY ONLY <2>1, <1>5
  <2> QED BY <2>2 DEF k
<1>8. ASSUME NEW n \in Nat PROVE PowerOfTen[n] \in Nat
  <2> DEFINE G == {k \in 0 .. n : PowerOfTen[k] \in Nat}
  <2>1. 0 \in G
    BY <1>6
  <2>2. \A k \in 0 .. n : k < n /\ k \in G => k + 1 \in G
    BY <1>7
  <2> HIDE DEF G
  <2>3. n \in 0 .. n
    OBVIOUS
  <2>4. n \in G
    BY ONLY <2>1, <2>2, <2>3, n \in Nat, CountUp
  <2> QED BY <2>4 DEF G
<1>9. PowerOfTen \in [Nat -> Nat]
  BY <1>8, <1>10
<1> QED BY <1>6, <1>7, <1>9

\* The places of a text that hold one of some characters.
Marks(w, S) == {i \in DOMAIN w : w[i] \in S}
Weights(w, S) ==
  [i \in Marks(w, S) |-> Digit[w[i]] * PowerOfTen[Cardinality({j \in Marks(w, S) : j > i})]]
\* The marks behind a place.
Later(w, S, i) == {j \in Marks(w, S) : j > i}
\* The number that the digits of a text make.
NumberOf(w, S) == MapThenSumSet(LAMBDA i : Weights(w, S)[i], Marks(w, S))

\* One more character is one more place, or none.
LEMMA MarksGrow ==
  ASSUME NEW X, NEW w \in Seq(X), NEW c \in X, NEW S
  PROVE  /\ Marks(w, S) \subseteq 1 .. Len(w) /\ IsFiniteSet(Marks(w, S))
         /\ c \in S => Marks(Append(w, c), S) = Marks(w, S) \cup {Len(w) + 1}
         /\ c \notin S => Marks(Append(w, c), S) = Marks(w, S)
<1> DEFINE n == Len(w)
           u == Append(w, c)
<1>1. /\ n \in Nat /\ DOMAIN w = 1 .. n /\ DOMAIN u = 1 .. n + 1 /\ u[n + 1] = c
      /\ \A i \in 1 .. n : u[i] = w[i]
  OBVIOUS
<1>2. Marks(w, S) \subseteq 1 .. n
  BY <1>1 DEF Marks
<1>3. IsFiniteSet(Marks(w, S))
  <2>1. IsFiniteSet(1 .. n)
    BY <1>1, FS_Interval
  <2> QED BY ONLY <1>2, <2>1, FS_Subset
<1> HIDE DEF u
<1>4. \A i \in 1 .. n + 1 : i = n + 1 \/ i \in 1 .. n
  BY <1>1
<1>5. 1 .. n \subseteq 1 .. n + 1 /\ n + 1 \in 1 .. n + 1
  BY <1>1
<1> HIDE DEF n
<1>6. c \in S => Marks(u, S) = Marks(w, S) \cup {n + 1}
  BY ONLY <1>1, <1>4, <1>5 DEF Marks
<1>7. c \notin S => Marks(u, S) = Marks(w, S)
  BY ONLY <1>1, <1>4, <1>5 DEF Marks
<1> QED BY <1>2, <1>3, <1>6, <1>7 DEF n, u

\* The weight of a digit is a number.
LEMMA WeightsAre ==
  ASSUME NEW X, NEW w \in Seq(X), NEW S \in SUBSET DOMAIN Digit, NEW i \in Marks(w, S)
  PROVE  /\ IsFiniteSet(Later(w, S, i))
         /\ Weights(w, S)[i] \in Nat
         /\ Weights(w, S)[i] = Digit[w[i]] * PowerOfTen[Cardinality(Later(w, S, i))]
<1> DEFINE later == Later(w, S, i)
           p == PowerOfTen[Cardinality(later)]
           d == Digit[w[i]]
<1>1. IsFiniteSet(Marks(w, S))
  <2>1. Marks(w, S) \subseteq 1 .. Len(w)
    BY DEF Marks
  <2> QED BY <2>1, FS_Interval, FS_Subset
<1>2. IsFiniteSet(later)
  BY <1>1, FS_Subset DEF Later
<1>3. p \in Nat
  <2>1. Cardinality(later) \in Nat
    BY <1>2, FS_CardinalityType
  <2> QED BY <2>1, Powers
<1>4. d \in Nat
  <2>1. w[i] \in DOMAIN Digit
    BY DEF Marks
  <2> QED BY <2>1, DigitAssumption
<1>5. Weights(w, S)[i] = d * p
  BY DEF Weights, Later
<1> HIDE DEF d, p
<1>6. d * p \in Nat
  BY <1>3, <1>4, ProductBounds
<1> QED BY <1>2, <1>5, <1>6 DEF d, p

\* One more digit moves the others one place up.
LEMMA NumberGrows ==
  ASSUME NEW X, NEW w \in Seq(X), NEW c \in X, NEW S \in SUBSET DOMAIN Digit
  PROVE  /\ NumberOf(w, S) \in Nat
         /\ c \in S => NumberOf(Append(w, c), S) = NumberOf(w, S) * 10 + Digit[c]
         /\ c \notin S => NumberOf(Append(w, c), S) = NumberOf(w, S)
<1> DEFINE n == Len(w)
           u == Append(w, c)
           M == Marks(w, S)
           f == Weights(w, S)
           h == Weights(u, S)
<1>0. \A i \in M : /\ IsFiniteSet(Later(w, S, i)) /\ f[i] \in Nat
                   /\ f[i] = Digit[w[i]] * PowerOfTen[Cardinality(Later(w, S, i))]
  BY WeightsAre
<1>1. /\ n \in Nat /\ u \in Seq(X) /\ u[n + 1] = c /\ M \subseteq 1 .. n /\ IsFiniteSet(M)
      /\ \A i \in M : u[i] = w[i]
  BY MarksGrow DEF Marks
<1>2. NumberOf(w, S) = SumOf(f, M) /\ NumberOf(u, S) = SumOf(h, Marks(u, S))
  BY DEF NumberOf, SumOf
<1>3. \A i \in M : f[i] \in Nat
  BY WeightsAre
<1>4. SumOf(f, M) \in Nat
  BY <1>1, <1>3, SumBounds
<1>5. ASSUME c \notin S PROVE NumberOf(u, S) = NumberOf(w, S)
  <2>1. Marks(u, S) = M
    BY <1>5, MarksGrow
  <2>2. h = f
    BY <1>1, <2>1 DEF Weights
  <2> QED BY <1>2, <2>1, <2>2
<1>6. ASSUME c \in S PROVE NumberOf(u, S) = NumberOf(w, S) * 10 + Digit[c]
  <2> DEFINE N == M \cup {n + 1}
  <2>1. Marks(u, S) = N
    BY <1>6, MarksGrow
  <2>0. \A i \in Marks(u, S) :
          /\ h[i] \in Nat
          /\ h[i] = Digit[u[i]] * PowerOfTen[Cardinality(Later(u, S, i))]
    <3>1. u \in Seq(X)
      BY <1>1
    <3> HIDE DEF u
    <3> QED BY ONLY <3>1, S \in SUBSET DOMAIN Digit, WeightsAre
  <2>2. \A i \in N : h[i] \in Nat
    BY ONLY <2>0, <2>1, Zenon
  <2>3. \A i \in N : h[i] = Digit[u[i]] * PowerOfTen[Cardinality({j \in N : j > i})]
    <3> HIDE DEF h, u
    <3> QED BY <2>0, <2>1 DEF Later
  <2>4. IsFiniteSet(N) /\ n + 1 \in N /\ N \ {n + 1} = M
    <3>1. n + 1 \notin M
      BY <1>1
    <3>2. IsFiniteSet(N)
      BY <1>1, FS_AddElement
    <3> QED BY <3>1, <3>2
  <2>5. h[n + 1] = Digit[c]
    <3>1. {j \in N : j > n + 1} = {}
      BY <1>1
    <3>2. PowerOfTen[Cardinality({j \in N : j > n + 1})] = 1
      BY <3>1, FS_EmptySet, Powers
    <3>3. Digit[c] \in Nat
      BY <1>6, DigitAssumption
    <3>4. h[n + 1] = Digit[c] * 1
      <4>1. h[n + 1] = Digit[u[n + 1]] * PowerOfTen[Cardinality({j \in N : j > n + 1})]
        BY ONLY <2>3, <2>4, Zenon
      <4> QED BY ONLY <4>1, <3>2, <1>1
    <3> QED BY <3>3, <3>4
  <2>6. \A i \in M : h[i] = 10 * f[i]
    <3> SUFFICES ASSUME NEW i \in M PROVE h[i] = 10 * f[i]
      OBVIOUS
    <3> DEFINE A == {j \in M : j > i}
               B == {j \in N : j > i}
               k == Cardinality(A)
               d == Digit[w[i]]
               p == PowerOfTen[k]
    <3>1. B = A \cup {n + 1} /\ n + 1 \notin A
      BY <1>1
    <3>2. IsFiniteSet(A) /\ f[i] = d * p /\ f[i] \in Nat
      BY <1>0 DEF Later
    <3>3. Cardinality(B) = k + 1 /\ k \in Nat
      BY <3>1, <3>2, FS_AddElement, FS_CardinalityType
    <3>4. PowerOfTen[Cardinality(B)] = 10 * p /\ p \in Nat
      <4> HIDE DEF k, B
      <4> QED BY <3>3, Powers
    <3>5. u[i] = w[i] /\ h[i] = Digit[u[i]] * PowerOfTen[Cardinality(B)]
      BY <1>1, <2>3
    <3>6. h[i] = d * (10 * p)
      <4> HIDE DEF h, B, p
      <4> QED BY ONLY <3>4, <3>5
    <3>7. d \in Nat
      <4>1. w[i] \in DOMAIN Digit
        BY DEF Marks
      <4> QED BY <4>1, DigitAssumption
    <3> HIDE DEF d, p, h, f
    <3>8. d * (10 * p) = 10 * (d * p)
      BY ONLY <3>4, <3>7, Z3
    <3> QED BY ONLY <3>2, <3>6, <3>8
  <2> HIDE DEF h, f, M, N
  <2>7. SumOf(h, N) = h[n + 1] + SumOf(h, N \ {n + 1})
    BY <2>2, <2>4, SumPick
  <2>8. SumOf(h, M) = 10 * SumOf(f, M)
    BY <1>1, <1>3, <2>6, SumTenfold
  <2>9. NumberOf(u, S) = Digit[c] + 10 * NumberOf(w, S)
    BY ONLY <1>2, <2>1, <2>4, <2>5, <2>7, <2>8
  <2>10. Digit[c] \in Nat /\ NumberOf(w, S) \in Nat
    BY <1>2, <1>4, <1>6, DigitAssumption
  <2> QED BY ONLY <2>9, <2>10
<1> QED BY <1>2, <1>4, <1>5, <1>6

\* The digits, signs and points of a text that count for a number, and the digits
\* behind the point.
Digits(e) == DOMAIN Digit \ {e.ignore}
Signs(w, e) == Marks(w, {Sign} \ {e.ignore})
Points(w, e) == IF e.float THEN Marks(w, {Point} \ {e.ignore}) ELSE {}
Behind(w, e) == {i \in Marks(w, Digits(e)) : \E j \in Points(w, e) : j < i}

Num == [neg : BOOLEAN, frac : BOOLEAN, value : Nat, scale : Nat, from : Nat]

\* The number n is what the text t says.
Says(w, n, j) ==
  /\ Signs(w, j) \subseteq {1} /\ Cardinality(Points(w, j)) <= 1
  /\ n.neg <=> Signs(w, j) # {}
  /\ n.frac <=> Points(w, j) # {}
  /\ n.value = NumberOf(w, Digits(j))
  /\ n.scale = Cardinality(Behind(w, j))

\* A character that is none of the three changes nothing.
LEMMA NoneOfThem ==
  ASSUME NEW X, NEW w \in Seq(X), NEW c \in X, NEW j,
         c \notin Digits(j), c \notin {Sign} \ {j.ignore},
         j.float => c \notin {Point} \ {j.ignore}
  PROVE  LET u == Append(w, c) IN
         /\ Signs(u, j) = Signs(w, j) /\ Points(u, j) = Points(w, j)
         /\ Behind(u, j) = Behind(w, j) /\ NumberOf(u, Digits(j)) = NumberOf(w, Digits(j))
<1> DEFINE u == Append(w, c)
<1>1. Signs(u, j) = Signs(w, j)
  BY MarksGrow DEF Signs
<1>2. Points(u, j) = Points(w, j)
  BY MarksGrow DEF Points
<1>3. Marks(u, Digits(j)) = Marks(w, Digits(j))
  BY MarksGrow
<1>4. NumberOf(u, Digits(j)) = NumberOf(w, Digits(j))
  <2>1. Digits(j) \in SUBSET DOMAIN Digit
    BY DEF Digits
  <2> QED BY <2>1, NumberGrows
<1>5. Behind(u, j) = Behind(w, j)
  BY <1>2, <1>3 DEF Behind
<1> QED BY <1>1, <1>2, <1>4, <1>5

\* A point is behind no digit, and there was none.
LEMMA PointGrows ==
  ASSUME NEW X, NEW w \in Seq(X), NEW c \in X, NEW j, NEW n,
         Says(w, n, j), ~n.frac, c = Point, c # j.ignore, j.float
  PROVE  LET u == Append(w, c) IN
         /\ Signs(u, j) = Signs(w, j) /\ Points(u, j) = {Len(w) + 1}
         /\ Behind(w, j) = {} /\ Behind(u, j) = {}
         /\ NumberOf(u, Digits(j)) = NumberOf(w, Digits(j))
<1> DEFINE u == Append(w, c)
<1>0. c \notin Digits(j) /\ c \notin {Sign} \ {j.ignore} /\ c \in {Point} \ {j.ignore}
  BY DigitAssumption DEF Digits
<1>1. Signs(u, j) = Signs(w, j)
  BY <1>0, MarksGrow DEF Signs
<1>2. Points(w, j) = {}
  BY DEF Says
<1>3. Points(u, j) = {Len(w) + 1}
  <2>1. Marks(u, {Point} \ {j.ignore}) = Marks(w, {Point} \ {j.ignore}) \cup {Len(w) + 1}
    BY <1>0, MarksGrow
  <2>2. /\ Points(u, j) = Marks(u, {Point} \ {j.ignore})
        /\ Points(w, j) = Marks(w, {Point} \ {j.ignore})
    BY DEF Points
  <2> HIDE DEF u
  <2> QED BY ONLY <1>2, <2>1, <2>2
<1>4. Marks(u, Digits(j)) = Marks(w, Digits(j)) /\ Marks(w, Digits(j)) \subseteq 1 .. Len(w)
  BY <1>0, MarksGrow
<1>5. NumberOf(u, Digits(j)) = NumberOf(w, Digits(j))
  <2>1. Digits(j) \in SUBSET DOMAIN Digit
    BY DEF Digits
  <2> QED BY <1>0, <2>1, NumberGrows
<1>6. Behind(w, j) = {}
  BY <1>2 DEF Behind
<1>7. Behind(u, j) = {}
  <2>1. Len(w) \in Nat
    OBVIOUS
  <2> HIDE DEF u
  <2> QED BY <1>3, <1>4, <2>1 DEF Behind
<1> QED BY <1>1, <1>3, <1>5, <1>6, <1>7

\* A digit is behind the point if there is one.
LEMMA DigitGrows ==
  ASSUME NEW X, NEW w \in Seq(X), NEW c \in X, NEW j, c \in Digits(j)
  PROVE  LET u == Append(w, c) IN
         /\ Signs(u, j) = Signs(w, j) /\ Points(u, j) = Points(w, j)
         /\ Cardinality(Behind(w, j)) \in Nat
         /\ Cardinality(Behind(u, j)) =
              IF Points(w, j) # {} THEN Cardinality(Behind(w, j)) + 1 ELSE Cardinality(Behind(w, j))
         /\ NumberOf(u, Digits(j)) = NumberOf(w, Digits(j)) * 10 + Digit[c]
<1> DEFINE u == Append(w, c)
           n == Len(w)
<1>0. c \notin {Sign} \ {j.ignore} /\ c \notin {Point} \ {j.ignore}
  BY DigitAssumption DEF Digits
<1>1. Signs(u, j) = Signs(w, j)
  BY <1>0, MarksGrow DEF Signs
<1>2. Points(u, j) = Points(w, j) /\ Points(w, j) \subseteq 1 .. n
  BY <1>0, MarksGrow DEF Points
<1>3. /\ Marks(u, Digits(j)) = Marks(w, Digits(j)) \cup {n + 1}
      /\ Marks(w, Digits(j)) \subseteq 1 .. n /\ IsFiniteSet(Marks(w, Digits(j)))
  BY MarksGrow
<1>4. NumberOf(u, Digits(j)) = NumberOf(w, Digits(j)) * 10 + Digit[c]
  <2>1. Digits(j) \in SUBSET DOMAIN Digit
    BY DEF Digits
  <2> QED BY <2>1, NumberGrows
<1>5. n \in Nat
  OBVIOUS
<1>6. IsFiniteSet(Behind(w, j)) /\ Behind(w, j) \subseteq 1 .. n
  <2>1. Behind(w, j) \subseteq Marks(w, Digits(j))
    BY DEF Behind
  <2> QED BY <1>3, <2>1, FS_Subset
<1> HIDE DEF u, n
<1>7. Points(w, j) # {} => Behind(u, j) = Behind(w, j) \cup {n + 1}
  BY <1>2, <1>3, <1>5 DEF Behind
<1>8. Points(w, j) = {} => Behind(u, j) = Behind(w, j)
  BY <1>2, <1>3 DEF Behind
<1>9. n + 1 \notin Behind(w, j)
  BY <1>5, <1>6
<1>10. Cardinality(Behind(w, j)) \in Nat
  BY <1>6, FS_CardinalityType
<1>11. Cardinality(Behind(w, j) \cup {n + 1}) = Cardinality(Behind(w, j)) + 1
  BY <1>6, <1>9, FS_AddElement
<1> QED BY <1>1, <1>2, <1>4, <1>7, <1>8, <1>10, <1>11 DEF u

\* No text says nothing.
LEMMA NoneHere == 
  ASSUME NEW j
  PROVE  Says(<<>>, Zero, j)
<1> DEFINE v == <<>>
<1>1. \A S : Marks(v, S) = {}
  BY DEF Marks
<1>2. Points(v, j) = {} /\ Signs(v, j) = {} /\ Behind(v, j) = {}
  BY <1>1 DEF Points, Signs, Behind
<1>3. Cardinality({}) = 0
  BY FS_EmptySet
<1>4. NumberOf(v, Digits(j)) = 0
  <2>1. NumberOf(v, Digits(j)) = SumOf(Weights(v, Digits(j)), {})
    BY <1>1 DEF NumberOf, SumOf
  <2> DEFINE w == Weights(v, Digits(j))
  <2>2. IsFiniteSet({})
    BY FS_EmptySet
  <2> HIDE DEF w
  <2>3. SumOf(w, {}) = 0
    BY ONLY <2>2, SumBounds
  <2> QED BY ONLY <2>1, <2>3 DEF w
<1> HIDE DEF v
<1> QED
  <2>1. Signs(v, j) \subseteq {1} /\ Cardinality(Points(v, j)) <= 1
    BY <1>2, <1>3
  <2>2. /\ ~Zero.neg /\ ~Zero.frac
        /\ Zero.value = 0 /\ Zero.scale = 0
    BY DEF Zero
  <2>3. Cardinality(Behind(v, j)) = 0
    BY ONLY <1>2, <1>3
  <2>4. Says(v, Zero, j)
    BY ONLY <1>2, <1>4, <2>1, <2>2, <2>3 DEF Says
  <2> QED BY <2>4 DEF v

\* What the loop does with a character is what the character says.
LEMMA AcceptKeeps ==
  ASSUME NEW X, NEW w \in Seq(X), NEW c \in X, NEW n \in Num, mode.float \in BOOLEAN,
         Says(w, n, mode),
         c = Sign /\ c # mode.ignore => w = <<>>,
         mode.float /\ c = Point /\ c # mode.ignore => ~n.frac
  PROVE  Accept(n, c) \in Num /\ Says(Append(w, c), Accept(n, c), mode)
<1> DEFINE j == mode
           u == Append(w, c)
           v == Accept(n, c)
<1>0. /\ n.neg \in BOOLEAN /\ n.frac \in BOOLEAN /\ n.value \in Nat /\ n.scale \in Nat
      /\ n.from \in Nat /\ Len(w) \in Nat
  BY DEF Num
<1>1. CASE v = n /\ c \notin Digits(j) /\ c \notin {Sign} \ {j.ignore}
           /\ (j.float => c \notin {Point} \ {j.ignore})
  <2>1. /\ Signs(u, j) = Signs(w, j) /\ Points(u, j) = Points(w, j)
        /\ Behind(u, j) = Behind(w, j) /\ NumberOf(u, Digits(j)) = NumberOf(w, Digits(j))
    BY <1>1, NoneOfThem
  <2> HIDE DEF u, v, j
  <2>2. Says(u, n, j)
    BY ONLY <2>1, Says(w, n, mode) DEF Says, j
  <2> QED BY <1>1, <2>2 DEF u, v, j
<1>2. CASE c # j.ignore /\ c = Sign
  <2>1. c \notin Digits(j) /\ c \notin {Point} \ {j.ignore} /\ c \in {Sign} \ {j.ignore}
    BY <1>2, DigitAssumption DEF Digits
  <2>2. v = [n EXCEPT !.neg = TRUE]
    BY <1>2 DEF Accept
  <2>3. /\ v \in Num /\ v.neg = TRUE /\ v.frac = n.frac
        /\ v.value = n.value /\ v.scale = n.scale
    BY <2>2 DEF Num
  <2>4. Signs(u, j) = {1}
    <3>1. w = <<>> /\ Len(w) = 0
      BY <1>2
    <3>2. Signs(u, j) = Signs(w, j) \cup {Len(w) + 1}
      BY <2>1, MarksGrow DEF Signs
    <3>3. Signs(w, j) \subseteq 1 .. Len(w)
      BY MarksGrow DEF Signs
    <3> HIDE DEF u, j
    <3> QED BY ONLY <3>1, <3>2, <3>3
  <2>5. Marks(u, Digits(j)) = Marks(w, Digits(j))
    BY <2>1, MarksGrow
  <2>6. NumberOf(u, Digits(j)) = NumberOf(w, Digits(j))
    <3>1. Digits(j) \in SUBSET DOMAIN Digit
      BY DEF Digits
    <3> QED BY <2>1, <3>1, NumberGrows
  <2>7. Points(u, j) = Points(w, j)
    BY <2>1, MarksGrow DEF Points
  <2>8. Behind(u, j) = Behind(w, j)
    BY <2>5, <2>7 DEF Behind
  <2> HIDE DEF u, v, j
  <2>9. v.neg <=> Signs(u, j) # {}
    BY ONLY <2>3, <2>4
  <2>10. v.frac <=> Points(u, j) # {}
    BY ONLY <2>3, <2>7, Says(w, n, mode) DEF Says, j
  <2>11. /\ v.value = NumberOf(u, Digits(j)) /\ v.scale = Cardinality(Behind(u, j))
         /\ Signs(u, j) \subseteq {1} /\ Cardinality(Points(u, j)) <= 1
    BY ONLY <2>3, <2>4, <2>6, <2>7, <2>8, Says(w, n, mode) DEF Says, j
  <2>12. Says(u, v, j)
    BY ONLY <2>9, <2>10, <2>11 DEF Says
  <2> QED BY <2>3, <2>12 DEF u, v, j
<1>3. CASE c # j.ignore /\ c = Point /\ j.float
  <2>1. c # Sign /\ ~n.frac
    BY <1>3, DigitAssumption
  <2>2. v = [n EXCEPT !.frac = TRUE]
    BY <1>3, <2>1 DEF Accept
  <2>3. /\ v \in Num /\ v.neg = n.neg /\ v.frac = TRUE
        /\ v.value = n.value /\ v.scale = n.scale
    BY <2>2 DEF Num
  <2>4. /\ Signs(u, j) = Signs(w, j) /\ Points(u, j) = {Len(w) + 1}
        /\ Behind(w, j) = {} /\ Behind(u, j) = {}
        /\ NumberOf(u, Digits(j)) = NumberOf(w, Digits(j))
    BY <1>3, <2>1, PointGrows
  <2>5. Cardinality({Len(w) + 1}) = 1
    BY FS_Singleton
  <2> HIDE DEF u, v, j
  <2>6. v.neg <=> Signs(u, j) # {}
    BY ONLY <2>3, <2>4, Says(w, n, mode) DEF Says, j
  <2>7. v.frac <=> Points(u, j) # {}
    BY ONLY <2>3, <2>4
  <2>8. /\ v.value = NumberOf(u, Digits(j)) /\ v.scale = Cardinality(Behind(u, j))
        /\ Signs(u, j) \subseteq {1}
    BY ONLY <2>3, <2>4, Says(w, n, mode) DEF Says, j
  <2>9. Cardinality(Points(u, j)) <= 1
    BY ONLY <2>4, <2>5
  <2>10. Says(u, v, j)
    BY ONLY <2>6, <2>7, <2>8, <2>9 DEF Says
  <2> QED BY <2>3, <2>10 DEF u, v, j
<1>4. CASE c # j.ignore /\ c \in DOMAIN Digit
  <2>1. c # Sign /\ c # Point /\ c \in Digits(j) /\ Digit[c] \in Nat
    BY <1>4, DigitAssumption DEF Digits
  <2>2. v = [n EXCEPT !.value = @ * 10 + Digit[c], !.scale = IF n.frac THEN @ + 1 ELSE @]
    BY <1>4, <2>1 DEF Accept
  <2>3. /\ v \in Num /\ v.neg = n.neg /\ v.frac = n.frac
        /\ v.value = n.value * 10 + Digit[c] /\ v.scale = IF n.frac THEN n.scale + 1 ELSE n.scale
    <3> DEFINE val == n.value * 10 + Digit[c]
               sc == IF n.frac THEN n.scale + 1 ELSE n.scale
    <3>1. val \in Nat /\ sc \in Nat
      BY <1>0, <2>1
    <3>2. v = [n EXCEPT !.value = val, !.scale = sc]
      BY <2>2
    <3> HIDE DEF val, sc, v
    <3>3. v \in Num /\ v.neg = n.neg /\ v.frac = n.frac /\ v.value = val /\ v.scale = sc
      BY <3>1, <3>2 DEF Num
    <3> QED BY ONLY <3>3 DEF val, sc
  <2>4. /\ Signs(u, j) = Signs(w, j) /\ Points(u, j) = Points(w, j)
        /\ Cardinality(Behind(u, j)) =
             IF Points(w, j) # {} THEN Cardinality(Behind(w, j)) + 1 ELSE Cardinality(Behind(w, j))
        /\ NumberOf(u, Digits(j)) = NumberOf(w, Digits(j)) * 10 + Digit[c]
    BY <2>1, DigitGrows
  <2> HIDE DEF u, v, j
  <2>5. v.neg <=> Signs(u, j) # {}
    BY ONLY <2>3, <2>4, Says(w, n, mode) DEF Says, j
  <2>6. v.frac <=> Points(u, j) # {}
    BY ONLY <2>3, <2>4, Says(w, n, mode) DEF Says, j
  <2>7. v.value = NumberOf(u, Digits(j))
    BY ONLY <2>3, <2>4, Says(w, n, mode) DEF Says, j
  <2>8. n.frac <=> Points(w, j) # {}
    BY ONLY Says(w, n, mode) DEF Says, j
  <2>9. v.scale = Cardinality(Behind(u, j))
    BY ONLY <2>3, <2>4, <2>8, Says(w, n, mode) DEF Says, j
  <2>10. Signs(u, j) \subseteq {1} /\ Cardinality(Points(u, j)) <= 1
    BY ONLY <2>4, Says(w, n, mode) DEF Says, j
  <2>11. Says(u, v, j)
    BY ONLY <2>5, <2>6, <2>7, <2>9, <2>10 DEF Says
  <2> QED BY <2>3, <2>11 DEF u, v, j
<1>5. CASE c = j.ignore
  <2>1. v = n
    BY <1>5 DEF Accept
  <2>2. c \notin Digits(j) /\ c \notin {Sign} \ {j.ignore} /\ c \notin {Point} \ {j.ignore}
    BY <1>5 DEF Digits
  <2> HIDE DEF u, v
  <2> QED BY ONLY <2>1, <2>2, <1>1
<1>6. CASE c # j.ignore /\ c # Sign /\ ~(c = Point /\ j.float) /\ c \notin DOMAIN Digit
  <2>1. v = n
    BY <1>6 DEF Accept
  <2>2. /\ c \notin Digits(j) /\ c \notin {Sign} \ {j.ignore}
        /\ j.float => c \notin {Point} \ {j.ignore}
    BY <1>6 DEF Digits
  <2> HIDE DEF u, v
  <2> QED BY ONLY <2>1, <2>2, <1>1
<1> HIDE DEF u, v
<1> QED BY ONLY <1>2, <1>3, <1>4, <1>5, <1>6, Zenon

\* The last part of a text grows with the text.
LEMMA PartGrows ==
  ASSUME NEW X, NEW s \in Seq(X), NEW c \in X, NEW f \in 1 .. Len(s) + 1
  PROVE  SubSeq(Append(s, c), f, Len(s) + 1) = Append(SubSeq(s, f, Len(s)), c)
<1> DEFINE k == Len(s)
           a == SubSeq(Append(s, c), f, k + 1)
           b == Append(SubSeq(s, f, k), c)
<1>1. k \in Nat /\ f \in 1 .. k + 1
  OBVIOUS
<1>2. \A i \in 1 .. k + 2 - f : a[i] = Append(s, c)[i + f - 1]
  <2> DEFINE z == Append(s, c)
  <2>1. /\ z \in Seq(X) /\ Len(z) = k + 1 /\ f \in 1 .. Len(z) + 1 /\ k + 1 \in f - 1 .. Len(z)
        /\ (k + 1) - f + 1 = k + 2 - f /\ \A i \in 1 .. k + 2 - f : i + f - 1 = f + i - 1
    BY <1>1
  <2> HIDE DEF z, k
  <2>2. \A i \in 1 .. (k + 1) - f + 1 : SubSeq(z, f, k + 1)[i] = z[f + i - 1]
    BY ONLY <2>1, SubSeqProperties
  <2> QED BY ONLY <2>1, <2>2 DEF z
<1>3. SubSeq(s, f, k) = [i \in 1 .. k + 1 - f |-> s[i + f - 1]]
  BY <1>1
<1>4. SubSeq(s, f, k) \in Seq(X) /\ Len(SubSeq(s, f, k)) = k + 1 - f
  BY <1>1
<1>5. b \in Seq(X) /\ Len(b) = k + 2 - f /\ b[k + 2 - f] = c
      /\ \A i \in 1 .. k + 1 - f : b[i] = s[i + f - 1]
  BY <1>1, <1>3, <1>4
<1>6. Append(s, c) \in Seq(X)
  OBVIOUS
<1>7. a \in Seq(X) /\ Len(a) = k + 2 - f
  BY <1>1, <1>6
<1>8. \A i \in 1 .. k + 2 - f : a[i] = b[i]
  <2> SUFFICES ASSUME NEW i \in 1 .. k + 2 - f PROVE a[i] = b[i]
    OBVIOUS
  <2>1. a[i] = Append(s, c)[i + f - 1]
    BY <1>2
  <2>2. CASE i = k + 2 - f
    <3>1. i + f - 1 = k + 1
      BY <1>1, <2>2
    <3>2. Append(s, c)[k + 1] = c
      OBVIOUS
    <3> QED BY <1>5, <2>1, <2>2, <3>1, <3>2
  <2>3. CASE i \in 1 .. k + 1 - f
    <3>1. i + f - 1 \in 1 .. k
      BY <1>1, <2>3
    <3>2. Append(s, c)[i + f - 1] = s[i + f - 1]
      BY <3>1
    <3> QED BY <1>5, <2>1, <2>3, <3>2
  <2> QED BY <1>1, <2>2, <2>3
<1> HIDE DEF a, b
<1>9. a = b
  BY ONLY <1>5, <1>7, <1>8
<1> QED BY <1>9 DEF a, b

\* What Starts() says in the mode m.
Begins(j, c) == c \in DOMAIN Digit \cup {Sign} \/ (j.float /\ c = Point)

Chars == Letter \cup NumberChar

\* What holds of the characters taken for a number.
NumberSaid ==
  IF num.from = 0
  THEN num = Zero /\ (mode.lookahead = "SKIP_NONE" => taken = <<>>)
  ELSE /\ num.from <= Len(taken)
       /\ \A i \in 1 .. num.from - 1 : ~Begins(mode, taken[i])
       /\ mode.lookahead = "SKIP_NONE" => num.from = 1
       /\ Says(SubSeq(taken, num.from, Len(taken)), num, mode)

ParseInv ==
  /\ taken \in Seq(Chars) /\ num \in Num /\ mode.float \in BOOLEAN
  /\ call = "none" => taken = <<>> /\ num = Zero
  /\ call = "skip" =>
       /\ num = Zero /\ \A i \in 1 .. Len(taken) : ~Begins(mode, taken[i])
       /\ mode.lookahead = "SKIP_NONE" => taken = <<>>
  /\ call = "number" => num.from # 0
  /\ call \in {"number", "parsed"} => NumberSaid

LEMMA ParseStart == StreamInit => ParseInv
<1> SUFFICES ASSUME StreamInit PROVE ParseInv
  OBVIOUS
<1>1. Zero \in Num
  BY DEF Zero, Num
<1>2. mode.float \in BOOLEAN
  BY DEF StreamInit, NoMode
<1> QED BY <1>1, <1>2 DEF StreamInit, ParseInv

\* The first character of a number.
LEMMA SkipKeeps ==
  ASSUME ParseInv, NEW c \in NumberChar, SkipChar(c)
  PROVE  ParseInv'
<1>1. /\ mode' = mode /\ taken \in Seq(Chars) /\ num = Zero /\ Zero \in Num /\ mode.float \in BOOLEAN
      /\ c \in Chars /\ Zero.from = 0
  BY DEF ParseInv, SkipChar, ParseRest, Chars, Zero, Num
<1>2. /\ \A i \in 1 .. Len(taken) : ~Begins(mode, taken[i])
      /\ Starts(c) <=> Begins(mode, c)
      /\ mode.lookahead = "SKIP_NONE" => taken = <<>>
  BY DEF ParseInv, SkipChar, Starts, Begins
<1>4. CASE /\ Starts(c) /\ call' = "number"
           /\ num' = [Accept(num, c) EXCEPT !.from = Len(taken) + 1]
           /\ taken' = Append(taken, c)
  <2> DEFINE v == Accept(Zero, c)
             n == Len(taken) + 1
             w == [v EXCEPT !.from = n]
  <2>1. v \in Num /\ Says(Append(<<>>, c), v, mode)
    <3>1. <<>> \in Seq(Chars) /\ ~Zero.frac
      BY DEF Zero
    <3> QED BY <1>1, <3>1, NoneHere, AcceptKeeps
  <2>2. n \in Nat /\ n # 0 /\ n \in 1 .. n
    BY <1>1
  <2> HIDE DEF v, n
  <2>3. /\ w \in Num /\ w.neg = v.neg /\ w.frac = v.frac /\ w.value = v.value /\ w.scale = v.scale
        /\ w.from = n
    BY <2>1, <2>2 DEF Num
  <2>4. Says(Append(<<>>, c), w, mode)
    <3> HIDE DEF w
    <3> QED BY ONLY <2>1, <2>3 DEF Says
  <2>5. num' = w /\ taken' \in Seq(Chars) /\ Len(taken') = n
    BY <1>1, <1>4 DEF v, n
  <2>6. SubSeq(taken', n, n) = Append(<<>>, c)
    <3>1. Append(taken, c) \in Seq(Chars) /\ Len(taken) \in Nat /\ n \in 1 .. Len(taken) + 1
      BY <1>1 DEF n
    <3>2. SubSeq(taken, n, Len(taken)) = <<>>
      BY <1>1, <3>1 DEF n
    <3>3. SubSeq(Append(taken, c), n, Len(taken) + 1) = Append(SubSeq(taken, n, Len(taken)), c)
      BY ONLY <1>1, <3>1, PartGrows
    <3> QED BY <1>4, <3>2, <3>3 DEF n
  <2>7. \A i \in 1 .. n - 1 : ~Begins(mode, taken'[i])
    BY <1>1, <1>2, <1>4 DEF n
  <2>8. mode.lookahead = "SKIP_NONE" => n = 1
    BY <1>2 DEF n
  <2> HIDE DEF w
  <2>9. NumberSaid'
    <3>1. num'.from = n /\ ~(n = 0) /\ n <= n
      BY ONLY <2>2, <2>3, <2>5
    <3>2. \A i \in 1 .. num'.from - 1 : ~Begins(mode', taken'[i])
      BY ONLY <1>1, <2>7, <3>1
    <3>3. Says(SubSeq(taken', num'.from, Len(taken')), num', mode')
      BY ONLY <1>1, <2>4, <2>5, <2>6, <3>1
    <3>4. mode'.lookahead = "SKIP_NONE" => num'.from = 1
      BY ONLY <1>1, <2>8, <3>1
    <3>5. Len(taken') = n /\ num'.from # 0
      BY ONLY <2>5, <3>1
    <3> QED BY ONLY <3>1, <3>2, <3>3, <3>4, <3>5 DEF NumberSaid
  <2> QED BY <1>1, <1>4, <2>2, <2>3, <2>5, <2>9 DEF ParseInv
<1>5. CASE /\ ~Starts(c) /\ call' = call /\ num' = num
           /\ mode.lookahead = "SKIP_ALL" \/ (mode.lookahead = "SKIP_WHITESPACE" /\ c \in White)
           /\ taken' = Append(taken, c)
  <2>1. taken' \in Seq(Chars) /\ Len(taken') = Len(taken) + 1 /\ Len(taken) \in Nat
    BY <1>1, <1>5
  <2>2. \A i \in 1 .. Len(taken') : ~Begins(mode, taken'[i])
    BY <1>1, <1>2, <1>5
  <2>3. mode.lookahead # "SKIP_NONE" /\ call' = "skip"
    BY <1>5 DEF SkipChar
  <2>4. \A i \in 1 .. Len(taken') : ~Begins(mode', taken'[i])
    BY <1>1, <2>2
  <2> QED BY <1>1, <1>5, <2>1, <2>3, <2>4 DEF ParseInv
<1>6. CASE call' = "parsed" /\ taken' = taken /\ num' = num
  <2>1. NumberSaid'
    BY <1>1, <1>2, <1>6 DEF NumberSaid
  <2> QED BY <1>1, <1>6, <2>1 DEF ParseInv
<1> QED BY <1>4, <1>5, <1>6 DEF SkipChar

\* One more character of a number.
LEMMA NextKeeps ==
  ASSUME ParseInv, NEW c \in NumberChar, NumberNext(c)
  PROVE  ParseInv'
<1>1. /\ mode' = mode /\ taken \in Seq(Chars) /\ num \in Num /\ mode.float \in BOOLEAN
      /\ c \in Chars /\ num.from # 0 /\ NumberSaid
  BY DEF ParseInv, NumberNext, ParseRest, Chars
<1>4. CASE call' = "parsed" /\ taken' = taken /\ num' = num
  <2>1. NumberSaid'
    BY <1>1, <1>4 DEF NumberSaid
  <2> QED BY <1>1, <1>4, <2>1 DEF ParseInv
<1>5. CASE /\ taken' = Append(taken, c) /\ num' = Accept(num, c) /\ call' = call
           /\ \/ c \in DOMAIN Digit \cup {mode.ignore}
              \/ mode.float /\ c = Point /\ ~num.frac
  <2> DEFINE f == num.from
             k == Len(taken)
             w == SubSeq(taken, f, k)
             v == Accept(num, c)
  <2>1. f \in 1 .. k /\ k \in Nat
    BY <1>1 DEF NumberSaid, Num
  <2>2. w \in Seq(Chars)
    BY <1>1, <2>1
  <2>3. Says(w, num, mode)
    BY <1>1 DEF NumberSaid
  <2>4. c = Sign => c = mode.ignore
    BY <1>5, DigitAssumption
  <2>5. mode.float /\ c = Point /\ c # mode.ignore => ~num.frac
    BY <1>5, DigitAssumption
  <2> HIDE DEF w, v
  <2>6. v \in Num /\ Says(Append(w, c), v, mode)
    BY ONLY <1>1, <2>2, <2>3, <2>4, <2>5, AcceptKeeps DEF v
  <2>7. v.from = f
    BY <1>1 DEF v, Accept, Num
  <2>8. taken' \in Seq(Chars) /\ Len(taken') = k + 1
    BY <1>1, <1>5
  <2>9. SubSeq(taken', f, k + 1) = Append(w, c)
    <3>1. f \in 1 .. k + 1
      BY <2>1
    <3>2. SubSeq(Append(taken, c), f, k + 1) = Append(SubSeq(taken, f, k), c)
      BY ONLY <1>1, <3>1, PartGrows
    <3> QED BY <1>5, <3>2 DEF w
  <2>10. \A i \in 1 .. f - 1 : ~Begins(mode, taken'[i])
    BY <1>1, <1>5, <2>1 DEF NumberSaid
  <2>11. num' = v
    BY <1>5 DEF v
  <2>12. mode.lookahead = "SKIP_NONE" => f = 1
    BY <1>1 DEF NumberSaid
  <2>13. NumberSaid'
    <3>1. num'.from = f /\ f # 0 /\ f <= k + 1
      BY <2>1, <2>7, <2>11
    <3>2. \A i \in 1 .. num'.from - 1 : ~Begins(mode', taken'[i])
      BY ONLY <1>1, <2>10, <3>1
    <3>3. Says(SubSeq(taken', num'.from, Len(taken')), num', mode')
      BY ONLY <1>1, <2>6, <2>8, <2>9, <2>11, <3>1
    <3>4. mode'.lookahead = "SKIP_NONE" => num'.from = 1
      BY ONLY <1>1, <2>12, <3>1
    <3>5. Len(taken') = k + 1 /\ num'.from # 0 /\ num'.from <= k + 1
      BY ONLY <2>8, <3>1
    <3> HIDE DEF f, k
    <3> QED BY ONLY <3>2, <3>3, <3>4, <3>5 DEF NumberSaid
  <2>14. call' = "number" /\ v.from # 0
    BY <1>1, <1>5, <2>7 DEF NumberNext
  <2> QED BY <1>1, <2>6, <2>8, <2>11, <2>13, <2>14 DEF ParseInv
<1> QED BY <1>4, <1>5 DEF NumberNext

LEMMA ParseStep == ParseInv /\ [StreamNext]_streamVars => ParseInv'
<1> SUFFICES ASSUME ParseInv, [StreamNext]_streamVars PROVE ParseInv'
  OBVIOUS
<1>0. /\ taken \in Seq(Chars) /\ num \in Num /\ mode.float \in BOOLEAN
  BY DEF ParseInv
<1>1. ASSUME NEW ts \in Targets, FindMulti(ts) PROVE ParseInv'
  <2>1. taken' = taken /\ num' = num /\ mode'.float = FALSE /\ call' \in {"find", "found"}
    BY <1>1 DEF FindMulti, Begin, NoMode
  <2> QED BY <1>0, <2>1 DEF ParseInv
<1>2. ASSUME NEW j \in Mode, Number(j) PROVE ParseInv'
  <2>1. taken' = taken /\ num' = num /\ mode' = j /\ call' = "skip" /\ call = "none"
    BY <1>2 DEF Number, Begin
  <2>2. j.float \in BOOLEAN
    BY DEF Mode
  <2>3. taken = <<>> /\ num = Zero
    BY <2>1 DEF ParseInv
  <2>4. \A i \in 1 .. Len(taken') : FALSE
    BY <2>1, <2>3
  <2> QED BY <1>0, <2>1, <2>2, <2>3, <2>4 DEF ParseInv
<1>3. ASSUME NEW l \in Limit, Bytes(l) PROVE ParseInv'
  <2>1. taken' = taken /\ num' = num /\ mode'.float = FALSE /\ call' \in {"filled", "bytes"}
    BY <1>3 DEF Bytes, Begin, NoMode
  <2> QED BY <1>0, <2>1 DEF ParseInv
<1>4. CASE FindSilent
  <2>1. taken' = taken /\ num' = num /\ mode' = mode /\ call' = "found"
    BY <1>4 DEF FindSilent
  <2> QED BY <1>0, <2>1 DEF ParseInv
<1>5. CASE NumberSilent
  <2>1. taken' = taken /\ num' = num /\ mode' = mode /\ call' = "parsed" /\ call \in {"skip", "number"}
    BY <1>5 DEF NumberSilent, ParseRest
  <2>2. NumberSaid
    BY <2>1 DEF ParseInv, NumberSaid, Zero
  <2>4. NumberSaid'
    BY <2>1, <2>2 DEF NumberSaid
  <2> QED BY <1>0, <2>1, <2>4 DEF ParseInv
<1>6. CASE BytesSilent
  <2>1. taken' = taken /\ num' = num /\ mode' = mode /\ call' = "filled"
    BY <1>6 DEF BytesSilent
  <2> QED BY <1>0, <2>1 DEF ParseInv
<1>7. CASE Done
  <2>1. taken' = <<>> /\ num' = Zero /\ mode'.float = FALSE /\ call' = "none" /\ Zero \in Num
    BY <1>7 DEF Done, NoMode, Zero, Num
  <2>2. <<>> \in Seq(Chars)
    OBVIOUS
  <2>3. taken' \in Seq(Chars) /\ num' \in Num /\ mode'.float \in BOOLEAN
    BY ONLY <2>1, <2>2
  <2> QED BY ONLY <2>1, <2>3 DEF ParseInv
<1>8. ASSUME NEW c \in Letter, FindChar(c) \/ BytesChar(c) PROVE ParseInv'
  <2>1. taken' = Append(taken, c) /\ num' = num /\ mode' = mode /\ call' \in {call, "found", "filled"}
        /\ call \in {"find", "bytes"}
    BY <1>8 DEF FindChar, BytesChar
  <2>2. taken' \in Seq(Chars)
    BY <1>0, <2>1 DEF Chars
  <2> QED BY <1>0, <2>1, <2>2 DEF ParseInv
<1>9. ASSUME NEW c \in NumberChar, SkipChar(c) \/ NumberNext(c) PROVE ParseInv'
  BY <1>9, SkipKeeps, NextKeeps
<1>10. CASE UNCHANGED streamVars
  <2>1. taken' = taken /\ num' = num /\ mode' = mode /\ call' = call
    BY <1>10 DEF streamVars
  <2>2. NumberSaid' <=> NumberSaid
    BY <2>1 DEF NumberSaid
  <2> QED BY <2>1, <2>2 DEF ParseInv
<1> QED BY <1>1, <1>2, <1>3, <1>4, <1>5, <1>6, <1>7, <1>8, <1>9, <1>10 DEF StreamNext

LEMMA ParseImplies == ParseInv => ParsedNumber
<1> SUFFICES ASSUME ParseInv, call \in {"number", "parsed"}, num.from # 0
             PROVE  ParsedNumber
  BY DEF ParseInv, NumberSaid, ParsedNumber
<1>0. \A c : Starts(c) <=> Begins(mode, c)
  BY DEF Starts, Begins
<1> DEFINE v == SubSeq(taken, num.from, Len(taken))
           At(S) == {i \in DOMAIN v : v[i] \in S \ {mode.ignore}}
           points == IF mode.float THEN At({Point}) ELSE {}
           D == DOMAIN Digit
           weight == [i \in At(D) |-> Digit[v[i]] * PowerOfTen[Cardinality({j \in At(D) : j > i})]]
<1>1. NumberSaid
  BY DEF ParseInv
<1>2. /\ \A i \in 1 .. num.from - 1 : ~Begins(mode, taken[i])
      /\ mode.lookahead = "SKIP_NONE" => num.from = 1
      /\ Says(v, num, mode)
  BY <1>1 DEF NumberSaid
<1>3. \A S : At(S) = Marks(v, S \ {mode.ignore})
  BY DEF Marks
<1>4. At(D) = Marks(v, Digits(mode)) /\ At({Sign}) = Signs(v, mode)
  BY <1>3 DEF Digits, Signs
<1>5. points = Points(v, mode)
  BY <1>3 DEF Points
<1>6. {i \in At(D) : \E j \in points : j < i} = Behind(v, mode)
  BY <1>4, <1>5 DEF Behind
<1>7. weight = Weights(v, Digits(mode))
  BY <1>4 DEF Weights
<1>8. MapThenSumSet(LAMBDA i : weight[i], At(D)) = NumberOf(v, Digits(mode))
  <2> DEFINE w == Weights(v, Digits(mode))
             M == Marks(v, Digits(mode))
  <2>1. NumberOf(v, Digits(mode)) = MapThenSumSet(LAMBDA i : w[i], M)
    BY DEF NumberOf
  <2> HIDE DEF weight, At, w, M
  <2>2. weight = w /\ At(D) = M
    BY <1>4, <1>7 DEF w, M
  <2> QED BY ONLY <2>1, <2>2
<1> QED
  <2>1. At({Sign}) \subseteq {1} /\ Cardinality(points) <= 1
    BY <1>2, <1>4, <1>5 DEF Says
  <2>2. num.neg <=> At({Sign}) # {}
    BY <1>2, <1>4 DEF Says
  <2>3. num.value = MapThenSumSet(LAMBDA i : weight[i], At(D))
    BY <1>2, <1>8 DEF Says
  <2>4. num.scale = Cardinality({i \in At(D) : \E j \in points : j < i})
    BY <1>2, <1>6 DEF Says
  <2> QED BY <1>0, <1>2, <2>1, <2>2, <2>3, <2>4 DEF ParsedNumber

\* A number that parseInt() or parseFloat() returns is what the characters it took
\* say (Stream.cpp:100-185), whatever came and whenever it stopped coming.
THEOREM NumberIsParsed == StreamSpec => []ParsedNumber
<1>1. ParseInv /\ [StreamNext]_streamVars => ParseInv'
  BY ParseStep
<1>2. StreamInit => ParseInv
  BY ParseStart
<1>3. ParseInv => ParsedNumber
  BY ParseImplies
<1> QED BY <1>1, <1>2, <1>3, PTL DEF StreamSpec

\* The largest long of the controller.
LongMax == 2147483647

\* A long has room for nine places.
LEMMA NinePlaces == \A n \in 0 .. 9 : PowerOfTen[n] <= LongMax
<1> DEFINE p(n) == PowerOfTen[n]
<1>1. /\ p(0) = 1 /\ p(0 + 1) = 10 * p(0) /\ p(1 + 1) = 10 * p(1) /\ p(2 + 1) = 10 * p(2)
      /\ p(3 + 1) = 10 * p(3) /\ p(4 + 1) = 10 * p(4) /\ p(5 + 1) = 10 * p(5)
      /\ p(6 + 1) = 10 * p(6) /\ p(7 + 1) = 10 * p(7) /\ p(8 + 1) = 10 * p(8)
  BY Powers
<1>2. p(1) = 10 /\ p(2) = 100 /\ p(3) = 1000
  BY <1>1
<1>3. p(4) = 10000 /\ p(5) = 100000 /\ p(6) = 1000000
  BY <1>1, <1>2, SMT
<1>4. p(7) = 10000000 /\ p(8) = 100000000 /\ p(9) = 1000000000
  BY <1>1, <1>3, SMT
<1>5. \A n \in 0 .. 9 : n \in {0, 1, 2, 3, 4, 5, 6, 7, 8, 9}
  OBVIOUS
<1> QED BY <1>1, <1>2, <1>3, <1>4, <1>5, SMT DEF LongMax

\* One more character, and at most one more place.
LEMMA ValueGrows ==
  ASSUME NEW k \in Nat, NEW n, NEW c, n.value \in Nat, n.value < PowerOfTen[k], n \in Num
  PROVE  Accept(n, c).value \in Nat /\ Accept(n, c).value < PowerOfTen[k + 1]
<1> DEFINE v == Accept(n, c).value
<1>1. PowerOfTen[k + 1] = 10 * PowerOfTen[k] /\ PowerOfTen[k] \in Nat
  BY Powers
<1>2. CASE v = n.value
  BY <1>1, <1>2
<1>3. CASE c \in DOMAIN Digit /\ v = n.value * 10 + Digit[c]
  <2>1. Digit[c] \in 0 .. 9
    BY <1>3, DigitAssumption
  <2> QED BY <1>1, <1>3, <2>1
<1>4. v = n.value \/ (c \in DOMAIN Digit /\ v = n.value * 10 + Digit[c])
  BY DEF Accept, Num
<1> QED BY <1>2, <1>3, <1>4

LEMMA ValueStep ==
  ASSUME MaxTaken \in Nat, ParseInv, Len(taken) <= MaxTaken, num.value < PowerOfTen[Len(taken)],
         [StreamNext]_streamVars
  PROVE  Len(taken') <= MaxTaken /\ num'.value < PowerOfTen[Len(taken')]
<1>0. /\ taken \in Seq(Chars) /\ num \in Num /\ Len(taken) \in Nat /\ num.value \in Nat
  BY DEF ParseInv, Num
<1>1. CASE taken' = taken /\ num' = num
  BY <1>1
<1>2. CASE taken' = <<>> /\ num' = Zero
  <2>1. Len(taken') = 0 /\ num'.value = 0
    BY <1>2 DEF Zero
  <2> QED BY <2>1, Powers
<1>3. ASSUME NEW c, Len(taken) < MaxTaken, taken' = Append(taken, c),
             num'.value \in {num.value, Accept(num, c).value}
      PROVE  Len(taken') <= MaxTaken /\ num'.value < PowerOfTen[Len(taken')]
  <2> DEFINE k == Len(taken)
  <2>1. Len(taken') = k + 1
    BY <1>0, <1>3
  <2>2. Accept(num, c).value < PowerOfTen[k + 1]
    BY <1>0, ValueGrows
  <2>3. num.value < PowerOfTen[k + 1]
    <3>1. PowerOfTen[k + 1] = 10 * PowerOfTen[k] /\ PowerOfTen[k] \in Nat
      BY <1>0, Powers
    <3> QED BY <1>0, <3>1
  <2> QED BY <1>0, <1>3, <2>1, <2>2, <2>3
<1>4. ASSUME NEW c \in NumberChar, Len(taken) < MaxTaken, SkipChar(c) \/ NumberNext(c)
      PROVE  Len(taken') <= MaxTaken /\ num'.value < PowerOfTen[Len(taken')]
  <2>1. CASE num' = [Accept(num, c) EXCEPT !.from = Len(taken) + 1] /\ taken' = Append(taken, c)
    <3>1. num'.value = Accept(num, c).value
      <4> DEFINE v == Accept(num, c)
      <4>1. v = [neg |-> v.neg, frac |-> v.frac, value |-> v.value, scale |-> v.scale, from |-> v.from]
        BY <1>0 DEF Accept, Num
      <4> HIDE DEF v
      <4> QED BY <2>1, <4>1 DEF v
    <3> QED BY <1>3, <1>4, <2>1, <3>1
  <2>2. CASE num' = Accept(num, c) /\ taken' = Append(taken, c)
    BY <1>3, <1>4, <2>2
  <2>3. CASE num' = num /\ taken' = Append(taken, c)
    BY <1>3, <1>4, <2>3
  <2> QED BY <1>1, <1>4, <2>1, <2>2, <2>3 DEF SkipChar, NumberNext
<1>5. ASSUME NEW c \in Letter, Len(taken) < MaxTaken, FindChar(c) \/ BytesChar(c)
      PROVE  Len(taken') <= MaxTaken /\ num'.value < PowerOfTen[Len(taken')]
  <2>1. num' = num /\ taken' = Append(taken, c)
    BY <1>5 DEF FindChar, BytesChar
  <2> QED BY <1>3, <1>5, <2>1
<1>6. ASSUME \/ \E ts \in Targets : FindMulti(ts)
             \/ \E j \in Mode : Number(j)
             \/ \E l \in Limit : Bytes(l)
             \/ FindSilent \/ NumberSilent \/ BytesSilent \/ UNCHANGED streamVars
      PROVE  taken' = taken /\ num' = num
  BY <1>6 DEF FindMulti, Number, Bytes, Begin, FindSilent, NumberSilent, BytesSilent, streamVars
<1>7. ASSUME Done PROVE taken' = <<>> /\ num' = Zero
  BY <1>7 DEF Done
<1> QED BY <1>1, <1>2, <1>4, <1>5, <1>6, <1>7 DEF StreamNext

\* The value of a number fits into its 32-bit long (Stream.cpp:107, 145) as long as no
\* more than nine characters are taken; the code does not look at how many come.
THEOREM ValueFits ==
  ASSUME MaxTaken \in 0 .. 9
  PROVE  StreamSpec => [](num.value \in 0 .. LongMax)
<1> DEFINE Fits == /\ ParseInv /\ Len(taken) <= MaxTaken
                   /\ num.value < PowerOfTen[Len(taken)]
<1>1. StreamInit => Fits
  <2> SUFFICES ASSUME StreamInit PROVE Fits
    OBVIOUS
  <2>1. Len(taken) = 0 /\ num.value = 0
    BY DEF StreamInit, Zero
  <2> QED BY <2>1, ParseStart, Powers
<1>2. Fits /\ [StreamNext]_streamVars => Fits'
  <2> SUFFICES ASSUME Fits, [StreamNext]_streamVars PROVE Fits'
    OBVIOUS
  <2>1. ParseInv'
    BY ParseStep
  <2>2. MaxTaken \in Nat
    OBVIOUS
  <2>3. Len(taken') <= MaxTaken /\ num'.value < PowerOfTen[Len(taken')]
    BY <2>2, ValueStep
  <2> QED BY <2>1, <2>3
<1>3. Fits => num.value \in 0 .. LongMax
  <2> SUFFICES ASSUME Fits PROVE num.value \in 0 .. LongMax
    OBVIOUS
  <2>1. Len(taken) \in 0 .. 9 /\ num.value \in Nat
    <3>1. taken \in Seq(Chars) /\ num \in Num
      BY DEF ParseInv
    <3>2. Len(taken) \in Nat /\ num.value \in Nat
      BY ONLY <3>1 DEF Num
    <3>3. Len(taken) <= MaxTaken /\ MaxTaken \in 0 .. 9
      OBVIOUS
    <3>4. Len(taken) \in 0 .. 9
      <4> DEFINE k == Len(taken)
      <4>1. k \in Nat /\ k <= MaxTaken
        BY ONLY <3>2, <3>3
      <4>2. MaxTaken \in Nat /\ MaxTaken <= 9
        BY ONLY <3>3
      <4> HIDE DEF k
      <4>3. k \in Nat /\ k <= 9
        BY ONLY <4>1, <4>2
      <4>4. k \in 0 .. 9
        BY ONLY <4>3
      <4> QED BY ONLY <4>4 DEF k
    <3> QED BY ONLY <3>2, <3>4
  <2>2. PowerOfTen[Len(taken)] <= LongMax /\ PowerOfTen[Len(taken)] \in Nat
    <3> DEFINE k == Len(taken)
    <3>1. k \in 0 .. 9 /\ k \in Nat
      BY <2>1
    <3> HIDE DEF k
    <3>2. PowerOfTen[k] \in Nat
      BY ONLY <3>1, Powers
    <3>3. PowerOfTen[k] <= LongMax
      BY ONLY <3>1, NinePlaces
    <3> QED BY ONLY <3>2, <3>3 DEF k
  <2>3. LongMax \in Int
    BY SMT DEF LongMax
  <2> QED BY <2>1, <2>2, <2>3
<1> HIDE DEF Fits
<1> QED BY <1>1, <1>2, <1>3, PTL DEF StreamSpec

(***************************************************************************)
(* Timer 0: millis(), micros() and the latch of the strip are right for    *)
(* every timer, every wrap of micros(), every latency and every duration   *)
(* of show() that meet the assumptions of StripTimer, without the bound on *)
(* the overflows.                                                          *)
(***************************************************************************)

LEMMA Distribute ==
  ASSUME NEW a \in Nat, NEW n \in Nat
  PROVE  a * (n + 1) = a * n + a /\ a * n \in Nat
BY SMT

LEMMA ModRange ==
  ASSUME NEW x \in Nat, NEW n \in Nat \ {0}
  PROVE  x % n \in 0 .. n - 1
BY Z3

\* An overflow is a whole number of milliseconds and a whole number of eights.
LEMMA OverflowParts ==
  /\ MILLIS_INC \in Nat /\ FRACT_INC \in 0 .. FRACT_MAX - 1 /\ FRACT_MAX = 125
  /\ MICROSECONDS_PER_TIMER0_OVERFLOW \in Nat
  /\ MICROSECONDS_PER_TIMER0_OVERFLOW = 1000 * MILLIS_INC + 8 * FRACT_INC
<1>1. Ticks * UsPerTick \in Nat
  BY FractAssumption, Distribute DEF MICROSECONDS_PER_TIMER0_OVERFLOW
<1> DEFINE u == Ticks * UsPerTick
<1>2. u % 8 = 0 /\ u \in Nat
  BY <1>1, FractAssumption DEF MICROSECONDS_PER_TIMER0_OVERFLOW
<1> HIDE DEF u
<1>3. /\ u \div 1000 \in Nat
      /\ (u % 1000) \div 8 \in 0 .. 124
      /\ 1000 \div 8 = 125
      /\ u = 1000 * (u \div 1000) + 8 * ((u % 1000) \div 8)
  BY <1>2, Z3
<1> QED
  BY <1>2, <1>3 DEF u, MICROSECONDS_PER_TIMER0_OVERFLOW, MILLIS_INC, FRACT_INC, FRACT_MAX

\* micros() returns an unsigned long.
LEMMA MicrosRange ==
  ASSUME NEW n \in Nat, NEW c \in 0 .. Ticks - 1
  PROVE  MicrosOf(n, c) \in 0 .. MicrosWrap - 1
<1>1. (n * Ticks + c) * UsPerTick \in Nat
  <2>1. n * Ticks + c \in Nat
    BY FractAssumption, SMT
  <2> QED
    BY <2>1, FractAssumption, SMT
<1> QED
  BY <1>1, ModRange, WrapAssumption DEF MicrosOf

(***************************************************************************)
(* The invariant.                                                          *)
(***************************************************************************)

LEMMA InitTimer == Init => TimerInv /\ MillisExact
<1> SUFFICES ASSUME Init PROVE TimerInv /\ MillisExact
  OBVIOUS
<1>1. Latch \in Nat
  BY FractAssumption, WrapAssumption, SMT DEF Latch
<1>2. TypeOK
  BY <1>1, FractAssumption, WrapAssumption, TickAssumption, OverflowParts DEF Init, TypeOK
<1> QED
  BY <1>2, OverflowParts DEF Init, TimerInv, CallInv, MillisExact

\* A tick moves the time on by one, unless show() has the interrupts off.
LEMMA TickElapsed ==
  ASSUME TimerInv, Tick, pc # "shift"
  PROVE  Elapsed' = Elapsed + 1
<1> USE DEF TimerInv, TypeOK
<1>1. CASE tcnt = Ticks - 1
  <2>1. tov = 0
    BY <1>1, TickAssumption, FractAssumption DEF Tick, CallInv
  <2>2. tcnt' = 0 /\ tov' = 1
    BY <1>1, TickAssumption, FractAssumption, SMT DEF Tick
  <2>3. Ticks * (overflow_count + 1) = Ticks * overflow_count + Ticks
    BY FractAssumption, Distribute
  <2>4. Ticks * overflow_count \in Nat
    BY FractAssumption, Distribute
  <2> QED
    BY <1>1, <2>1, <2>2, <2>3, <2>4, FractAssumption DEF Elapsed, Tick, count
<1>2. CASE tcnt # Ticks - 1
  <2>1. tcnt' = tcnt + 1 /\ tov' = tov
    BY <1>2, FractAssumption, SMT DEF Tick
  <2>2. overflow_count + tov \in Nat
    OBVIOUS
  <2>3. Ticks * (overflow_count + tov) \in Nat
    BY <2>2, FractAssumption, Distribute
  <2> QED
    BY <2>1, <2>3, FractAssumption DEF Elapsed, Tick, count
<1> QED
  BY <1>1, <1>2

LEMMA TickKeeps ==
  ASSUME TimerInv, MillisExact, Tick
  PROVE  TimerInv' /\ MillisExact'
<1> USE DEF TimerInv
<1>1. tcnt' \in 0 .. Ticks - 1 /\ tov' \in 0 .. 1
  <2>1. CASE tcnt = Ticks - 1
    BY <2>1, FractAssumption, TickAssumption, SMT DEF Tick, TypeOK
  <2>2. CASE tcnt # Ticks - 1
    BY <2>2, FractAssumption, TickAssumption, SMT DEF Tick, TypeOK
  <2> QED
    BY <2>1, <2>2
<1>2. tcnt < Ticks - 1 => tcnt' = tcnt + 1 /\ tov' = tov
  BY FractAssumption, SMT DEF Tick, TypeOK
<1>3. tcnt = Ticks - 1 => tcnt' = 0 /\ tov' = 1
  BY FractAssumption, TickAssumption, SMT DEF Tick, TypeOK
<1>4. Latch \in Nat
  BY FractAssumption, WrapAssumption, SMT DEF Latch
<1>5. TypeOK'
  BY <1>1, <1>4, TickAssumption DEF Tick, TypeOK, count
<1>6. CallInv'
  <2>1. sreg_i' = IF pc' \in {"low", "high", "millis", "count", "tcnt", "flag", "shift"}
                  THEN 0 ELSE 1
    BY DEF Tick, CallInv
  <2>2. sreg_i' = 0 /\ pc' # "shift" /\ tov' = 1 => tcnt' <= MaxLatency + ticked'
    BY <1>2, <1>3, FractAssumption, TickAssumption DEF Tick, CallInv, TypeOK
  <2>3. pc' = "tcnt" => m' = overflow_count'
    BY DEF Tick, CallInv, count
  <2>4. pc' = "high" => m' = millis' % Word
    BY DEF Tick, CallInv, count
  <2>5. ASSUME pc' = "flag"
        PROVE  /\ m' = overflow_count'
               /\ ticked' = 0 => tcnt' = t'
               /\ readAt' = Ticks * (IF tov' = 1 /\ t' < Ticks - 1 THEN m' + 1 ELSE m') + t'
    <3>1. pc = "flag" /\ ticked = 0 /\ tcnt = t
      BY <2>5 DEF Tick, CallInv, TypeOK
    <3>2. (tov' = 1 /\ t' < Ticks - 1) <=> (tov = 1 /\ t < Ticks - 1)
      BY <1>2, <1>3, <3>1, FractAssumption DEF Tick, TypeOK
    <3> QED
      BY <3>1, <3>2 DEF Tick, CallInv, count
  <2> QED
    BY <2>1, <2>2, <2>3, <2>4, <2>5 DEF CallInv
<1>7. MillisExact'
  BY DEF Tick, count, MillisExact, TypeOK
<1> QED
  BY <1>5, <1>6, <1>7

\* An interrupt adds exactly the milliseconds and eights of an overflow.
LEMMA TimerIsrKeeps ==
  ASSUME TimerInv, MillisExact, TimerIsr
  PROVE  TimerInv' /\ MillisExact'
<1> USE DEF TimerInv
<1>1. /\ millis' \in Nat
      /\ fract' \in 0 .. FRACT_MAX - 1
      /\ 1000 * millis' + 8 * fract' = 1000 * millis + 8 * fract + 1000 * MILLIS_INC + 8 * FRACT_INC
  BY OverflowParts DEF TimerIsr, TypeOK
<1>2. TypeOK'
  BY <1>1 DEF TimerIsr, TypeOK
<1>3. CallInv'
  BY DEF TimerIsr, CallInv, TypeOK
<1>4. MillisExact'
  <2>1. MICROSECONDS_PER_TIMER0_OVERFLOW * (overflow_count + 1)
          = MICROSECONDS_PER_TIMER0_OVERFLOW * overflow_count + MICROSECONDS_PER_TIMER0_OVERFLOW
    BY OverflowParts, Distribute DEF TypeOK
  <2>2. MICROSECONDS_PER_TIMER0_OVERFLOW * overflow_count \in Nat
    BY OverflowParts, Distribute DEF TypeOK
  <2> QED
    BY <1>1, <2>1, <2>2, OverflowParts DEF TimerIsr, TypeOK, CallInv, MillisExact
<1> QED
  BY <1>2, <1>3, <1>4

\* The two halves of a number.
LEMMA Halves ==
  ASSUME NEW x \in Nat, NEW n \in Nat \ {0}
  PROVE  n * (x \div n) + (x % n) = x
BY Z3

\* The steps of millis().
LEMMA MillisKeeps ==
  ASSUME TimerInv, MillisExact, MillisBegin \/ MillisLow \/ MillisHigh \/ MillisReturn
  PROVE  TimerInv' /\ MillisExact'
<1> USE DEF TimerInv
<1>1. MillisExact'
  <2>1. Word * (millis \div Word) + (millis % Word) = millis
    BY Halves, WrapAssumption DEF TypeOK
  <2> QED
    BY <2>1 DEF MillisBegin, MillisLow, MillisHigh, MillisReturn, count, CallInv, MillisExact
<1>2. CASE MillisBegin
  BY <1>1, <1>2, TickAssumption DEF MillisBegin, Served, timer, count, TypeOK, CallInv
<1>3. CASE MillisLow
  <2>1. millis % Word \in Nat
    BY ModRange, WrapAssumption DEF TypeOK
  <2> QED
    BY <1>1, <1>3, <2>1 DEF MillisLow, timer, count, TypeOK, CallInv
<1>4. CASE MillisHigh
  <2>1. millis \div Word \in Nat
    BY WrapAssumption, SMT DEF TypeOK
  <2>2. Word * (millis \div Word) \in Nat
    BY <2>1, Distribute, WrapAssumption
  <2>3. Word * (millis \div Word) + m \in Nat
    BY <2>2 DEF TypeOK
  <2>4. TypeOK'
    BY <1>4, <2>3 DEF MillisHigh, timer, count, TypeOK
  <2> QED
    BY <1>1, <1>4, <2>4 DEF MillisHigh, timer, count, CallInv
<1>5. CASE MillisReturn
  BY <1>1, <1>5 DEF MillisReturn, timer, count, TypeOK, CallInv
<1> QED
  BY <1>2, <1>3, <1>4, <1>5

\* Calling micros(), from canShow() and for endTime.
LEMMA MicrosCallKeeps ==
  ASSUME TimerInv, MillisExact, CanShowCall \/ EndTimeCall
  PROVE  TimerInv' /\ MillisExact'
BY TickAssumption
DEF TimerInv, CanShowCall, EndTimeCall, MicrosBegin, Served, timer, count, TypeOK, CallInv,
    MillisExact

LEMMA MicrosCountKeeps ==
  ASSUME TimerInv, MillisExact, MicrosCount
  PROVE  TimerInv' /\ MillisExact'
BY DEF TimerInv, MicrosCount, timer, count, TypeOK, CallInv, MillisExact

\* An overflow that is pending when TCNT0 is read is a recent one, so the reading
\* is a small one.
LEMMA MicrosTcntKeeps ==
  ASSUME TimerInv, MillisExact, MicrosTcnt
  PROVE  TimerInv' /\ MillisExact'
<1> USE DEF TimerInv
<1>1. overflow_count + tov \in Nat
  BY DEF TypeOK
<1>2. Ticks * (overflow_count + tov) \in Nat
  BY <1>1, FractAssumption, Distribute
<1>3. Elapsed \in Nat
  BY <1>2 DEF Elapsed, TypeOK
<1>4. TypeOK'
  BY <1>3 DEF MicrosTcnt, timer, count, TypeOK
<1>5. overflow_count + tov = IF tov' = 1 /\ t' < Ticks - 1 THEN m' + 1 ELSE m'
  <2>1. CASE tov = 1
    <3>1. tcnt < Ticks - 1
      BY <2>1, FractAssumption, TickAssumption DEF MicrosTcnt, CallInv, TypeOK
    <3> QED
      BY <2>1, <3>1 DEF MicrosTcnt, timer, CallInv, TypeOK
  <2>2. CASE tov = 0
    BY <2>2 DEF MicrosTcnt, timer, CallInv, TypeOK
  <2> QED
    BY <2>1, <2>2 DEF TypeOK
<1>6. readAt' = Ticks * (IF tov' = 1 /\ t' < Ticks - 1 THEN m' + 1 ELSE m') + t'
  BY <1>5 DEF MicrosTcnt, Elapsed
<1>7. CallInv'
  BY <1>6 DEF MicrosTcnt, timer, count, CallInv
<1> QED
  BY <1>4, <1>7 DEF MicrosTcnt, count, MillisExact

LEMMA MicrosFlagKeeps ==
  ASSUME TimerInv, MillisExact, MicrosFlag
  PROVE  TimerInv' /\ MillisExact'
<1> USE DEF TimerInv
<1>1. m' \in 0 .. MicrosWrap - 1
  BY MicrosRange DEF MicrosFlag, TypeOK
<1>2. 0 \in 0 .. Ticks - 1
  BY TickAssumption, FractAssumption
<1>3. TypeOK'
  BY <1>1, <1>2, WrapAssumption DEF MicrosFlag, timer, count, TypeOK
<1> QED
  BY <1>3 DEF MicrosFlag, timer, count, CallInv, MillisExact

LEMMA ShowKeeps ==
  ASSUME TimerInv, MillisExact, MicrosExact,
         ShowBegin \/ CanShowNot \/ ShiftBegin \/ ShiftEnd \/ EndTimeSave
  PROVE  TimerInv' /\ MillisExact'
<1> USE DEF TimerInv
<1>1. Latch \in Nat
  BY FractAssumption, WrapAssumption, SMT DEF Latch
<1>2. MillisExact'
  BY DEF ShowBegin, CanShowNot, ShiftBegin, ShiftEnd, EndTimeSave, count, MillisExact
<1>3. CASE ShowBegin \/ CanShowNot \/ ShiftBegin
  BY <1>2, <1>3, TickAssumption DEF ShowBegin, CanShowNot, ShiftBegin, timer, count, TypeOK, CallInv
<1>4. CASE ShiftEnd
  BY <1>1, <1>2, <1>4, TickAssumption DEF ShiftEnd, timer, count, TypeOK, CallInv
<1>5. CASE EndTimeSave
  <2>1. readAt * UsPerTick \in Nat
    BY FractAssumption, SMT DEF TypeOK
  <2>2. m \in 0 .. MicrosWrap - 1
    BY <1>5, <2>1, ModRange, WrapAssumption DEF EndTimeSave, MicrosExact
  <2> QED
    BY <1>2, <1>5, <2>2 DEF EndTimeSave, timer, count, TypeOK, CallInv
<1> QED
  BY <1>3, <1>4, <1>5

\* What micros() has worked out is the time at which it read TCNT0, in
\* microseconds; every other step leaves it alone.
LEMMA MicrosKeeps ==
  ASSUME TimerInv, MicrosExact, [Next]_vars
  PROVE  MicrosExact'
<1> SUFFICES ASSUME pc' = "micros"
             PROVE  m' = (readAt' * UsPerTick) % MicrosWrap
  BY DEF MicrosExact
<1>1. CASE MicrosFlag
  <2>1. readAt = Ticks * (IF tov = 1 /\ t < Ticks - 1 THEN m + 1 ELSE m) + t
    BY <1>1 DEF MicrosFlag, TimerInv, CallInv
  <2>2. ASSUME NEW n \in Nat PROVE Ticks * n = n * Ticks
    BY FractAssumption, SMT
  <2>3. readAt = (IF tov = 1 /\ t < Ticks - 1 THEN m + 1 ELSE m) * Ticks + t
    <3>1. (IF tov = 1 /\ t < Ticks - 1 THEN m + 1 ELSE m) \in Nat
      BY DEF TimerInv, TypeOK
    <3> QED
      BY <2>1, <2>2, <3>1
  <2> QED
    BY <1>1, <2>3 DEF MicrosFlag, MicrosOf
<1>2. CASE pc = "micros" /\ UNCHANGED <<m, readAt>>
  BY <1>2 DEF MicrosExact
<1>3. MicrosFlag \/ (pc = "micros" /\ UNCHANGED <<m, readAt>>)
  <2>1. CASE Next
    BY <2>1 DEF Next, Tick, TimerIsr, MillisBegin, MillisLow, MillisHigh, MillisReturn,
                MicrosCount, MicrosTcnt, ShowBegin, CanShowCall, CanShowNot, ShiftBegin,
                ShiftEnd, EndTimeCall, EndTimeSave, MicrosBegin
  <2>2. CASE UNCHANGED vars
    BY <2>2 DEF vars
  <2> QED
    BY <2>1, <2>2
<1> QED
  BY <1>1, <1>2, <1>3

\* The step of the induction.
ClockInv == TimerInv /\ MillisExact /\ MicrosExact

LEMMA NextClock ==
  ASSUME ClockInv, [Next]_vars
  PROVE  ClockInv'
<1> USE DEF ClockInv
<1>1. CASE Next
  BY <1>1, TickKeeps, TimerIsrKeeps, MillisKeeps, MicrosCallKeeps, MicrosCountKeeps,
     MicrosTcntKeeps, MicrosFlagKeeps, ShowKeeps, MicrosKeeps DEF Next
<1>2. CASE UNCHANGED vars
  BY <1>2, MicrosKeeps
  DEF vars, timer, count, TimerInv, TypeOK, CallInv, MillisExact
<1> QED
  BY <1>1, <1>2

\* The inductive invariant of the clock holds in every reachable state: types,
\* interrupts off where the code says so, and what micros() has read so far.
THEOREM TimerInvariant == Spec => []TimerInv
<1>1. Init => ClockInv
  BY InitTimer DEF ClockInv, MicrosExact, Init
<1>2. ClockInv /\ [Next]_vars => ClockInv'
  BY NextClock
<1>3. ClockInv => TimerInv
  BY DEF ClockInv
<1> QED
  BY <1>1, <1>2, <1>3, PTL DEF Spec

\* The milliseconds of timer0_millis never drift from the overflows counted.
THEOREM MillisAreExact == Spec => []MillisExact
<1>1. Init => ClockInv
  BY InitTimer DEF ClockInv, MicrosExact, Init
<1>2. ClockInv /\ [Next]_vars => ClockInv'
  BY NextClock
<1>3. ClockInv => MillisExact
  BY DEF ClockInv
<1> QED
  BY <1>1, <1>2, <1>3, PTL DEF Spec

\* micros() returns the moment at which it read TCNT0, wherever the timer
\* overflows meanwhile.
THEOREM MicrosAreExact == Spec => []MicrosExact
<1>1. Init => ClockInv
  BY InitTimer DEF ClockInv, MicrosExact, Init
<1>2. ClockInv /\ [Next]_vars => ClockInv'
  BY NextClock
<1>3. ClockInv => MicrosExact
  BY DEF ClockInv
<1> QED
  BY <1>1, <1>2, <1>3, PTL DEF Spec

\* The clock loses time in show() only.
THEOREM TimeKept == Spec => TimeLostInShowOnly
<1>1. Init => ClockInv
  BY InitTimer DEF ClockInv, MicrosExact, Init
<1>2. ClockInv /\ [Next]_vars => ClockInv'
  BY NextClock
<1>3. ClockInv /\ [Next]_vars => (pc # "shift" => Elapsed' >= Elapsed)
  <2> SUFFICES ASSUME ClockInv, [Next]_vars, pc # "shift"
               PROVE  Elapsed' >= Elapsed
    OBVIOUS
  <2> USE DEF ClockInv
  <2>1. Elapsed \in Nat
    <3>1. overflow_count + tov \in Nat
      BY DEF TimerInv, TypeOK
    <3>2. Ticks * (overflow_count + tov) \in Nat
      BY <3>1, FractAssumption, Distribute
    <3> QED
      BY <3>2 DEF Elapsed, TimerInv, TypeOK
  <2>2. CASE Tick
    BY <2>1, <2>2, TickElapsed
  <2>3. CASE TimerIsr
    <3>1. overflow_count' + tov' = overflow_count + tov /\ tcnt' = tcnt
      BY <2>3 DEF TimerIsr, TimerInv, TypeOK
    <3> QED
      BY <2>1, <3>1 DEF Elapsed
  <2>4. CASE UNCHANGED <<timer, overflow_count>>
    BY <2>1, <2>4 DEF Elapsed, timer
  <2>5. Tick \/ TimerIsr \/ UNCHANGED <<timer, overflow_count>>
    BY DEF Next, vars, timer, count, MillisBegin, MillisLow, MillisHigh, MillisReturn,
           MicrosCount, MicrosTcnt, MicrosFlag, ShowBegin, CanShowCall, CanShowNot,
           ShiftBegin, ShiftEnd, EndTimeCall, EndTimeSave, MicrosBegin
  <2> QED
    BY <2>2, <2>3, <2>4, <2>5
<1> QED
  BY <1>1, <1>2, <1>3, PTL DEF Spec, TimeLostInShowOnly

(***************************************************************************)
(* The latch.  endTime is a moment at or after the end of the last show(), *)
(* so at least as much time has passed since as the difference tells, and  *)
(* the interrupts are on meanwhile, so the clock has lost nothing.         *)
(***************************************************************************)

LEMMA ProductMonotone ==
  ASSUME NEW a \in Nat, NEW n \in Nat, NEW k \in Nat, n <= k
  PROVE  n * a <= k * a /\ n * a \in Nat
BY SMT

LEMMA DivMod ==
  ASSUME NEW x \in Nat, NEW n \in Nat \ {0}
  PROVE  x = n * (x \div n) + (x % n) /\ x \div n \in Nat /\ x % n \in 0 .. n - 1
BY Z3

LEMMA SmallMultiple ==
  ASSUME NEW p \in Int, NEW n \in Nat \ {0}, n * p > -n, n * p < n
  PROVE  p = 0
BY Z3

\* A multiple plus a remainder has one remainder only.
LEMMA ModUnique ==
  ASSUME NEW q \in Nat, NEW n \in Nat \ {0}, NEW r \in 0 .. n - 1
  PROVE  (n * q + r) % n = r
<1> DEFINE x == n * q + r
           a == x \div n
           b == x % n
<1>1. x \in Nat
  BY SMT
<1>2. x = n * a + b /\ a \in Nat /\ b \in 0 .. n - 1
  BY <1>1, DivMod
<1>3. x = n * q + r
  OBVIOUS
<1>4. n * (q - a) = n * q - n * a /\ n * q \in Int /\ n * a \in Int
  BY <1>2, SMT
<1> HIDE DEF x, a, b
<1>5. n * (q - a) = b - r
  BY <1>2, <1>3, <1>4
<1>6. q - a = 0
  <2>1. q - a \in Int
    BY <1>2
  <2>2. n * (q - a) > -n /\ n * (q - a) < n
    BY <1>2, <1>5
  <2> QED
    BY <2>1, <2>2, SmallMultiple
<1>7. b = r
  <2>1. n * 0 = 0
    BY SMT
  <2> QED
    BY <1>2, <1>5, <1>6, <2>1
<1> QED
  BY <1>7 DEF b, x

LEMMA ModAdd ==
  ASSUME NEW x \in Nat, NEW n \in Nat \ {0}, NEW d \in 0 .. n - 1
  PROVE  (x + d) % n = IF (x % n) + d < n THEN (x % n) + d ELSE (x % n) + d - n
<1> DEFINE q == x \div n
           r == x % n
<1>1. x = n * q + r /\ q \in Nat /\ r \in 0 .. n - 1
  BY DivMod
<1> HIDE DEF q, r
<1>2. n * (q + 1) = n * q + n /\ n * q \in Nat
  BY <1>1, Distribute
<1>3. CASE r + d < n
  <2>1. (n * q + (r + d)) % n = r + d
    BY <1>1, <1>3, ModUnique
  <2>2. x + d = n * q + (r + d)
    BY <1>1, <1>2
  <2> QED
    BY <1>3, <2>1, <2>2 DEF r
<1>4. CASE r + d >= n
  <2>1. q + 1 \in Nat /\ r + d - n \in 0 .. n - 1
    BY <1>1, <1>4
  <2>2. (n * (q + 1) + (r + d - n)) % n = r + d - n
    BY <2>1, ModUnique
  <2>3. x + d = n * (q + 1) + (r + d - n)
    BY <1>1, <1>2
  <2>4. ~(r + d < n)
    BY <1>1, <1>4
  <2> QED
    BY <2>2, <2>3, <2>4 DEF r
<1> QED
  BY <1>1, <1>3, <1>4

\* The difference of two unsigned times never exceeds the time between them.
LEMMA UnsignedDifference ==
  ASSUME NEW x \in Nat, NEW y \in Nat, x <= y, NEW n \in Nat \ {0},
         NEW l \in 0 .. n - 1, ((y % n) + n - (x % n)) % n >= l
  PROVE  y - x >= l
<1> SUFFICES ASSUME y - x < l PROVE FALSE
  OBVIOUS
<1> DEFINE d == y - x
<1>1. d \in 0 .. n - 1 /\ d < l /\ y = x + d
  OBVIOUS
<1> HIDE DEF d
<1>2. x % n \in 0 .. n - 1
  BY ModRange
<1>3. y % n = IF (x % n) + d < n THEN (x % n) + d ELSE (x % n) + d - n
  BY <1>1, ModAdd
<1>4. (y % n) + n - (x % n) = IF (x % n) + d < n THEN n + d ELSE d
  BY <1>1, <1>2, <1>3
<1>5. 0 % n = 0 /\ n % n = 0
  BY Z3
<1>6. d % n = d /\ (n + d) % n = d
  <2>1. (0 + d) % n = d
    BY <1>1, <1>5, ModAdd
  <2>2. (n + d) % n = d
    BY <1>1, <1>5, ModAdd
  <2> QED
    BY <1>1, <2>1, <2>2
<1>7. ((y % n) + n - (x % n)) % n = d
  BY <1>4, <1>6
<1> QED
  BY <1>1, <1>7

LEMMA LatchTicks == Latch \in Nat /\ (Latch + 1) * UsPerTick >= LatchUs
BY FractAssumption, WrapAssumption, Z3 DEF Latch

\* A moment no earlier than the end of the last show(), as quiet tells.
Recent(e) == e <= Elapsed /\ (Elapsed - e <= quiet \/ quiet = Latch + 1)

Reading == pc \in {"flag", "micros"}
Sending ==
  \/ pc \in {"shift", "end"}
  \/ for = "endTime" /\ pc \in {"count", "tcnt", "flag", "micros"}

EndedAt(e) ==
  /\ Recent(e)
  /\ endTime = (e * UsPerTick) % MicrosWrap
  /\ Reading => e <= readAt

\* endTime is the time of a recent moment, and micros() reads a later one.
LatchInv ==
  /\ Reading => readAt <= Elapsed
  /\ Reading /\ for = "endTime" => Recent(readAt)
  /\ ~Sending => \E e \in Nat : EndedAt(e)

LEMMA ElapsedNat == TimerInv => Elapsed \in Nat
<1> SUFFICES ASSUME TimerInv PROVE Elapsed \in Nat
  OBVIOUS
<1>1. overflow_count + tov \in Nat
  BY DEF TimerInv, TypeOK
<1>2. Ticks * (overflow_count + tov) \in Nat
  BY <1>1, FractAssumption, Distribute
<1> QED
  BY <1>2 DEF Elapsed, TimerInv, TypeOK

\* The step at which it counts: the pause that the unsigned times tell is a pause
\* that the strip has had.
LEMMA ShiftHeld ==
  ASSUME ClockInv, LatchInv, ShiftBegin
  PROVE  quiet * UsPerTick >= LatchUs
<1> USE DEF ClockInv
<1>1. PICK e \in Nat : EndedAt(e)
  BY DEF ShiftBegin, LatchInv, Sending
<1>2. Recent(e) /\ endTime = (e * UsPerTick) % MicrosWrap /\ e <= readAt
  BY <1>1 DEF EndedAt, Reading, ShiftBegin
<1>3. readAt \in Nat /\ quiet \in Nat /\ quiet <= Latch + 1
  BY LatchTicks DEF TimerInv, TypeOK
<1>4. readAt <= Elapsed /\ Elapsed \in Nat
  BY ElapsedNat DEF ShiftBegin, LatchInv, Reading
<1>5. e * UsPerTick <= readAt * UsPerTick /\ e * UsPerTick \in Nat /\ readAt * UsPerTick \in Nat
  BY <1>2, <1>3, FractAssumption, ProductMonotone
<1>6. ((readAt * UsPerTick) % MicrosWrap) + MicrosWrap - ((e * UsPerTick) % MicrosWrap)
        = m + MicrosWrap - endTime
  BY <1>2 DEF ShiftBegin, MicrosExact
<1>7. readAt * UsPerTick - e * UsPerTick >= LatchUs
  <2>1. LatchUs \in 0 .. MicrosWrap - 1 /\ MicrosWrap \in Nat \ {0}
    BY WrapAssumption
  <2>2. (((readAt * UsPerTick) % MicrosWrap) + MicrosWrap - ((e * UsPerTick) % MicrosWrap))
          % MicrosWrap >= LatchUs
    BY <1>6 DEF ShiftBegin, LatchOver
  <2> QED
    BY <1>5, <2>1, <2>2, UnsignedDifference
<1>8. CASE quiet = Latch + 1
  BY <1>8, LatchTicks
<1>9. CASE Elapsed - e <= quiet
  <2>1. readAt <= e + quiet /\ e + quiet \in Nat
    BY <1>2, <1>3, <1>4, <1>9
  <2>2. readAt * UsPerTick <= (e + quiet) * UsPerTick
    BY <1>3, <2>1, FractAssumption, ProductMonotone
  <2>3. (e + quiet) * UsPerTick = e * UsPerTick + quiet * UsPerTick
    BY <1>3, FractAssumption, SMT
  <2>4. quiet * UsPerTick \in Nat
    BY <1>3, FractAssumption, ProductMonotone
  <2> QED
    BY <1>5, <1>7, <2>2, <2>3, <2>4, WrapAssumption
<1> QED
  BY <1>2, <1>8, <1>9 DEF Recent

\* A tick outside show() is one tick more since any moment.
LEMMA TickRecent ==
  ASSUME TimerInv, Tick, pc # "shift", NEW e \in Nat, Recent(e)
  PROVE  Recent(e)'
<1>1. Elapsed' = Elapsed + 1 /\ Elapsed \in Nat
  BY TickElapsed, ElapsedNat
<1>2. quiet \in 0 .. Latch + 1 /\ Latch \in Nat
  BY LatchTicks DEF TimerInv, TypeOK
<1>3. quiet' = IF quiet <= Latch THEN quiet + 1 ELSE quiet
  BY DEF Tick
<1> QED
  BY <1>1, <1>2, <1>3 DEF Recent, Latch

LEMMA TickLatch ==
  ASSUME TimerInv, LatchInv, Tick
  PROVE  LatchInv'
<1>1. CASE pc = "shift"
  BY <1>1 DEF LatchInv, Tick, Reading, Sending
<1>2. CASE pc # "shift"
  <2>1. Elapsed' = Elapsed + 1 /\ Elapsed \in Nat /\ readAt \in Nat
    BY <1>2, TickElapsed, ElapsedNat DEF TimerInv, TypeOK
  <2>2. Reading' <=> Reading
    BY DEF Reading, Tick
  <2>3. Sending' <=> Sending
    BY DEF Sending, Tick
  <2>4. readAt' = readAt /\ for' = for /\ endTime' = endTime
    BY DEF Tick
  <2>5. Reading' => readAt' <= Elapsed'
    BY <2>1, <2>2, <2>4 DEF LatchInv
  <2>6. Reading' /\ for' = "endTime" => Recent(readAt)'
    BY <1>2, <2>1, <2>2, <2>4, TickRecent DEF LatchInv
  <2>7. ASSUME ~Sending'
        PROVE  (\E e \in Nat : EndedAt(e))'
    <3>1. PICK e \in Nat : EndedAt(e)
      BY <2>3, <2>7 DEF LatchInv
    <3>2. Recent(e)'
      BY <1>2, <3>1, TickRecent DEF EndedAt
    <3>3. EndedAt(e)'
      BY <2>2, <2>4, <3>1, <3>2 DEF EndedAt
    <3> QED
      BY <3>3
  <2> QED
    BY <2>5, <2>6, <2>7 DEF LatchInv
<1> QED
  BY <1>1, <1>2

\* A step that reads no time, sends nothing and notes nothing.
LEMMA OtherLatch ==
  ASSUME LatchInv, Elapsed' = Elapsed, UNCHANGED <<quiet, readAt, endTime>>,
         Reading' => Reading /\ for' = for, Sending => Sending'
  PROVE  LatchInv'
<1>1. ASSUME NEW e PROVE Recent(e)' <=> Recent(e)
  BY DEF Recent, Latch
<1>2. (Reading' => readAt' <= Elapsed') /\ (Reading' /\ for' = "endTime" => Recent(readAt)')
  BY <1>1 DEF LatchInv
<1>3. ASSUME ~Sending' PROVE (\E e \in Nat : EndedAt(e))'
  <2>1. PICK e \in Nat : EndedAt(e)
    BY <1>3 DEF LatchInv
  <2>2. EndedAt(e)'
    BY <1>1, <2>1 DEF EndedAt
  <2> QED
    BY <2>2
<1> QED
  BY <1>2, <1>3 DEF LatchInv

\* micros() reads TCNT0: no earlier than any moment it has to do with.
LEMMA MicrosTcntLatch ==
  ASSUME TimerInv, LatchInv, MicrosTcnt
  PROVE  LatchInv'
<1>1. Elapsed' = Elapsed /\ Elapsed \in Nat /\ readAt' = Elapsed /\ quiet' = quiet
  BY ElapsedNat DEF MicrosTcnt, timer, count, Elapsed
<1>2. quiet \in 0 .. Latch + 1 /\ Latch \in Nat
  BY LatchTicks DEF TimerInv, TypeOK
<1>3. readAt' <= Elapsed' /\ Recent(readAt)'
  BY <1>1, <1>2 DEF Recent
<1>4. ASSUME ~Sending' PROVE (\E e \in Nat : EndedAt(e))'
  <2>1. PICK e \in Nat : EndedAt(e)
    BY <1>4 DEF LatchInv, MicrosTcnt, Sending
  <2>2. Recent(e)' /\ e <= readAt'
    BY <1>1, <2>1 DEF EndedAt, Recent, Latch
  <2>3. EndedAt(e)'
    BY <2>1, <2>2 DEF EndedAt, MicrosTcnt
  <2> QED
    BY <2>3
<1> QED
  BY <1>3, <1>4 DEF LatchInv

\* show() notes the time at which it was over.
LEMMA EndTimeLatch ==
  ASSUME ClockInv, LatchInv, EndTimeSave
  PROVE  LatchInv'
<1>1. Recent(readAt)
  BY DEF LatchInv, EndTimeSave, Reading
<1>2. Elapsed' = Elapsed /\ readAt' = readAt /\ quiet' = quiet /\ readAt \in Nat
  BY DEF EndTimeSave, timer, count, Elapsed, ClockInv, TimerInv, TypeOK
<1>3. ~Reading'
  BY DEF EndTimeSave, Reading
<1>4. EndedAt(readAt)'
  BY <1>1, <1>2, <1>3 DEF EndedAt, Recent, Latch, EndTimeSave, ClockInv, MicrosExact
<1>5. \E e \in Nat : EndedAt(e)'
  <2>1. EndedAt(readAt') <=> EndedAt(readAt)
    BY <1>2
  <2> QED
    BY <1>2, <1>3, <1>4 DEF EndedAt, Recent
<1> QED
  BY <1>3, <1>5 DEF LatchInv

LEMMA NextLatch ==
  ASSUME ClockInv, LatchInv, [Next]_vars
  PROVE  LatchInv'
<1> USE DEF ClockInv
<1>1. CASE Tick
  BY <1>1, TickLatch
<1>2. CASE MicrosTcnt
  BY <1>2, MicrosTcntLatch
<1>3. CASE EndTimeSave
  BY <1>3, EndTimeLatch
<1>4. CASE TimerIsr
  <2>1. overflow_count' + tov' = overflow_count + tov /\ tcnt' = tcnt
    BY <1>4 DEF TimerIsr, TimerInv, TypeOK
  <2>2. Elapsed' = Elapsed
    BY <2>1 DEF Elapsed
  <2> QED
    BY <1>4, <2>2, OtherLatch DEF TimerIsr, Reading, Sending
<1>5. CASE MillisBegin \/ MillisLow \/ MillisHigh \/ MillisReturn
  <2>1. Elapsed' = Elapsed /\ UNCHANGED <<quiet, readAt, endTime>>
    BY <1>5 DEF MillisBegin, MillisLow, MillisHigh, MillisReturn, timer, count, Elapsed
  <2>2. ~Reading' /\ ~Sending
    BY <1>5 DEF MillisBegin, MillisLow, MillisHigh, MillisReturn, Reading, Sending
  <2> QED
    BY <2>1, <2>2, OtherLatch
<1>6. CASE ShowBegin \/ CanShowCall \/ CanShowNot \/ ShiftBegin \/ ShiftEnd \/ EndTimeCall
  <2>1. CASE ShowBegin \/ CanShowCall \/ CanShowNot \/ ShiftBegin \/ EndTimeCall
    <3>1. Elapsed' = Elapsed /\ UNCHANGED <<quiet, readAt, endTime>>
      BY <2>1 DEF ShowBegin, CanShowCall, CanShowNot, ShiftBegin, EndTimeCall, MicrosBegin,
                  timer, count, Elapsed
    <3>2. ~Reading' /\ (Sending => Sending')
      BY <2>1 DEF ShowBegin, CanShowCall, CanShowNot, ShiftBegin, EndTimeCall, MicrosBegin,
                  Reading, Sending
    <3> QED
      BY <3>1, <3>2, OtherLatch
  <2>2. CASE ShiftEnd
    BY <2>2 DEF ShiftEnd, LatchInv, Reading, Sending
  <2> QED
    BY <1>6, <2>1, <2>2
<1>7. CASE MicrosCount \/ MicrosFlag
  <2>1. Elapsed' = Elapsed /\ UNCHANGED <<quiet, readAt, endTime>>
    BY <1>7 DEF MicrosCount, MicrosFlag, timer, count, Elapsed
  <2>2. (Reading' => Reading /\ for' = for) /\ (Sending => Sending')
    BY <1>7 DEF MicrosCount, MicrosFlag, Reading, Sending
  <2> QED
    BY <2>1, <2>2, OtherLatch
<1>8. CASE UNCHANGED vars
  <2>1. Elapsed' = Elapsed /\ UNCHANGED <<quiet, readAt, endTime>>
    BY <1>8 DEF vars, timer, count, Elapsed
  <2>2. (Reading' => Reading /\ for' = for) /\ (Sending => Sending')
    BY <1>8 DEF vars, Reading, Sending
  <2> QED
    BY <2>1, <2>2, OtherLatch
<1> QED
  BY <1>1, <1>2, <1>3, <1>4, <1>5, <1>6, <1>7, <1>8 DEF Next

\* show() never sends before the strip has had its pause to latch the colours.
THEOREM LatchIsHeld == Spec => []LatchHeld
<1>1. Init => ClockInv /\ LatchInv /\ LatchHeld
  <2> SUFFICES ASSUME Init PROVE ClockInv /\ LatchInv /\ LatchHeld
    OBVIOUS
  <2>1. Elapsed = 0
    <3>1. overflow_count + tov = 0 /\ tcnt = 0 /\ Ticks * 0 = 0
      BY FractAssumption, SMT DEF Init
    <3> QED
      BY <3>1 DEF Elapsed
  <2>2. EndedAt(0)
    <3>1. (0 * UsPerTick) % MicrosWrap = 0
      <4>1. 0 * UsPerTick = 0
        BY FractAssumption, SMT
      <4>2. 0 % MicrosWrap = 0
        BY WrapAssumption, Z3
      <4> QED
        BY <4>1, <4>2
    <3> QED
      BY <2>1, <3>1 DEF Init, EndedAt, Recent, Reading
  <2>3. LatchInv
    BY <2>2 DEF LatchInv, Init, Reading
  <2> QED
    BY <2>3, InitTimer DEF ClockInv, MicrosExact, LatchHeld, Init
<1>2. ClockInv /\ LatchInv /\ LatchHeld /\ [Next]_vars => (ClockInv /\ LatchInv /\ LatchHeld)'
  <2> SUFFICES ASSUME ClockInv, LatchInv, LatchHeld, [Next]_vars
               PROVE  (ClockInv /\ LatchInv /\ LatchHeld)'
    OBVIOUS
  <2>1. LatchHeld'
    <3>1. CASE ShiftBegin
      BY <3>1, ShiftHeld DEF LatchHeld, ShiftBegin
    <3>2. CASE ~ShiftBegin
      <4>1. pc' = "shift" => pc = "shift" /\ quiet' = quiet
        BY <3>2 DEF Next, vars, Tick, TimerIsr, MillisBegin, MillisLow, MillisHigh, MillisReturn,
                    MicrosCount, MicrosTcnt, MicrosFlag, ShowBegin, CanShowCall, CanShowNot,
                    ShiftEnd, EndTimeCall, EndTimeSave, MicrosBegin
      <4> QED
        BY <4>1 DEF LatchHeld
    <3> QED
      BY <3>1, <3>2
  <2> QED
    BY <2>1, NextClock, NextLatch
<1> QED
  BY <1>1, <1>2, PTL DEF Spec
==============================================================================
