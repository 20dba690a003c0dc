------------------------------ MODULE StripTimer ------------------------------
(***************************************************************************)
(* The clock of the LED controller and its only user that depends on it:   *)
(* timer 0 with its overflow interrupt, millis() and micros() that read    *)
(* the counters of the interrupt, and show() of the LED strip.  show()     *)
(* keeps the interrupts off while it shifts the colours out, so the clock  *)
(* it stops is the one that tells it when the strip has latched them.      *)
(*                                                                         *)
(* Tick is the hardware; every other action is code.  A read or a write    *)
(* that the interrupt or the timer can come in between is a step.          *)
(***************************************************************************)
EXTENDS Integers

CONSTANTS
  Ticks,         \* ticks of timer 0 from one overflow to the next (256)
  UsPerTick,     \* microseconds of a tick (4)
  MicrosWrap,    \* the number of values an unsigned long takes (2^32)
  LatchUs,       \* the pause the strip needs to latch the colours (300)
  ShowTicks,     \* how long show() keeps the interrupts off
  MaxLatency,    \* ticks a pending interrupt waits at most while they are on
  Word,          \* millis() reads timer0_millis in pieces of this many values
  MaxOverflows   \* bound on the overflows counted

MICROSECONDS_PER_TIMER0_OVERFLOW == Ticks * UsPerTick
MILLIS_INC == MICROSECONDS_PER_TIMER0_OVERFLOW \div 1000
FRACT_INC  == (MICROSECONDS_PER_TIMER0_OVERFLOW % 1000) \div 8
FRACT_MAX  == 1000 \div 8

\* A comment on FRACT_INC: the shift by three loses no precision.
ASSUME FractAssumption ==
  /\ Ticks \in Nat /\ UsPerTick \in Nat \ {0}
  /\ MICROSECONDS_PER_TIMER0_OVERFLOW % 8 = 0
ASSUME WrapAssumption ==
  /\ MicrosWrap \in Nat /\ LatchUs \in Nat
  /\ LatchUs < MicrosWrap
  /\ Word \in Nat \ {0}
ASSUME TickAssumption ==
  /\ ShowTicks \in Nat /\ MaxLatency \in Nat
  /\ MaxLatency + 2 < Ticks
  /\ MaxOverflows \in Nat

VARIABLES
  tcnt,           \* TCNT0
  tov,            \* TOV0 in TIFR0
  sreg_i,         \* the global interrupt enable bit of SREG
  overflow_count, \* timer0_overflow_count
  millis,         \* timer0_millis
  fract,          \* timer0_fract
  pixels,         \* did the strip get its memory?
  endTime,        \* when the last show() was over
  pc,             \* where the sketch is
  for,            \* who called micros(): "canShow" or "endTime"
  m, t,           \* locals of millis() and micros(), the value they return in m
  ticked,         \* has the timer ticked since cli()?
  busy,           \* ticks since show() switched the interrupts off
  readAt,         \* ghost: the time at which micros() read TCNT0
  quiet           \* ghost: ticks since the last colour went out, up to Latch + 1

timer == <<tcnt, tov>>
count == <<overflow_count, millis, fract>>
vars  == <<timer, sreg_i, count, pixels, endTime, pc, for, m, t, ticked, busy, readAt, quiet>>

Latch == LatchUs \div UsPerTick

Init ==
  /\ tcnt = 0 /\ tov = 0
  /\ sreg_i = 1
  /\ overflow_count = 0 /\ millis = 0 /\ fract = 0
  /\ pixels \in {0, 1}
  /\ endTime = 0
  /\ pc = "run" /\ for = "canShow"
  /\ m = 0 /\ t = 0
  /\ ticked = 0 /\ busy = 0
  /\ readAt = 0 /\ quiet = Latch + 1

\* With interrupts on, a pending one is served after a moment.
Served == tov = 0 \/ tcnt <= MaxLatency

\* The time the timer and the interrupt have counted, in ticks.
Elapsed == Ticks * (overflow_count + tov) + tcnt

-----------------------------------------------------------------------------
(* The timer and its interrupt.                                            *)

Tick ==
  /\ overflow_count < MaxOverflows
  /\ sreg_i = 1 => tov = 0 \/ tcnt < MaxLatency
  /\ sreg_i = 0 /\ pc # "shift" => ticked = 0
  /\ pc = "shift" => busy < ShowTicks
  /\ tcnt' = (tcnt + 1) % Ticks
  /\ tov' = IF tcnt = Ticks - 1 THEN 1 ELSE tov
  /\ ticked' = 1
  /\ busy' = IF pc = "shift" THEN busy + 1 ELSE 0
  /\ quiet' = IF pc # "shift" /\ quiet <= Latch THEN quiet + 1 ELSE quiet
  /\ UNCHANGED <<sreg_i, count, pixels, endTime, pc, for, m, t, readAt>>

\* A version that forgets the millisecond the fractions have added up to.
TimerIsrNoCarry ==
  LET f == fract + FRACT_INC IN
  /\ sreg_i = 1 /\ tov = 1
  /\ tov' = 0
  /\ millis' = millis + MILLIS_INC
  /\ fract' = IF f >= FRACT_MAX THEN f - FRACT_MAX ELSE f
  /\ overflow_count' = overflow_count + 1
  /\ UNCHANGED <<tcnt, sreg_i, pixels, endTime, pc, for, m, t, ticked, busy, readAt, quiet>>

\* ISR(TIMER0_OVF_vect).  The hardware clears TOV0 when it is entered.
TimerIsr ==
  LET f == fract + FRACT_INC IN
  /\ sreg_i = 1 /\ tov = 1
  /\ tov' = 0
  /\ millis' = millis + MILLIS_INC + (IF f >= FRACT_MAX THEN 1 ELSE 0)
  /\ fract' = IF f >= FRACT_MAX THEN f - FRACT_MAX ELSE f
  /\ overflow_count' = overflow_count + 1
  /\ UNCHANGED <<tcnt, sreg_i, pixels, endTime, pc, for, m, t, ticked, busy, readAt, quiet>>

-----------------------------------------------------------------------------
(* millis(): cli(), timer0_millis in pieces, and the old SREG again.        *)

MillisBegin ==
  /\ pc = "run" /\ Served
  /\ pc' = "low"
  /\ sreg_i' = 0
  /\ ticked' = 0
  /\ UNCHANGED <<timer, count, pixels, endTime, for, m, t, busy, readAt, quiet>>

MillisLow ==
  /\ pc = "low"
  /\ pc' = "high"
  /\ m' = millis % Word
  /\ UNCHANGED <<timer, sreg_i, count, pixels, endTime, for, t, ticked, busy, readAt, quiet>>

MillisHigh ==
  /\ pc = "high"
  /\ pc' = "millis"
  /\ m' = Word * (millis \div Word) + m
  /\ UNCHANGED <<timer, sreg_i, count, pixels, endTime, for, t, ticked, busy, readAt, quiet>>

MillisReturn ==
  /\ pc = "millis"
  /\ pc' = "run"
  /\ sreg_i' = 1
  /\ m' = 0
  /\ UNCHANGED <<timer, count, pixels, endTime, for, t, ticked, busy, readAt, quiet>>

-----------------------------------------------------------------------------
(* micros(): the counter, then TCNT0, then whether it has overflowed since. *)

MicrosBegin(caller) ==
  /\ Served
  /\ pc' = "count"
  /\ for' = caller
  /\ sreg_i' = 0
  /\ ticked' = 0
  /\ UNCHANGED <<timer, count, pixels, endTime, m, t, busy, readAt, quiet>>

MicrosCount ==
  /\ pc = "count"
  /\ pc' = "tcnt"
  /\ m' = overflow_count
  /\ UNCHANGED <<timer, sreg_i, count, pixels, endTime, for, t, ticked, busy, readAt, quiet>>

MicrosTcnt ==
  /\ pc = "tcnt"
  /\ pc' = "flag"
  /\ t' = tcnt
  /\ readAt' = Elapsed
  /\ UNCHANGED <<timer, sreg_i, count, pixels, endTime, for, m, ticked, busy, quiet>>

\* The value of micros() for a count and a reading of TCNT0.
MicrosOf(n, c) == ((n * Ticks + c) * UsPerTick) % MicrosWrap

\* A version that takes every overflow it sees for one before the reading.
MicrosFlagAlways ==
  /\ pc = "flag"
  /\ pc' = "micros"
  /\ m' = MicrosOf(IF tov = 1 THEN m + 1 ELSE m, t)
  /\ t' = 0
  /\ sreg_i' = 1
  /\ UNCHANGED <<timer, count, pixels, endTime, for, ticked, busy, readAt, quiet>>

MicrosFlag ==
  /\ pc = "flag"
  /\ pc' = "micros"
  /\ m' = MicrosOf(IF tov = 1 /\ t < Ticks - 1 THEN m + 1 ELSE m, t)
  /\ t' = 0
  /\ sreg_i' = 1
  /\ UNCHANGED <<timer, count, pixels, endTime, for, ticked, busy, readAt, quiet>>

-----------------------------------------------------------------------------
(* show(): wait for the latch, shift the colours out, note the time.        *)

\* loop() calls show(), which does nothing without pixels.
ShowBegin ==
  /\ pc = "run"
  /\ pixels = 1
  /\ pc' = "wait"
  /\ UNCHANGED <<timer, sreg_i, count, pixels, endTime, for, m, t, ticked, busy, readAt, quiet>>

\* while(!canShow()): ask for the time ...
CanShowCall == pc = "wait" /\ MicrosBegin("canShow")

LatchOver == (m + MicrosWrap - endTime) % MicrosWrap >= LatchUs

\* ... ask again ...
CanShowNot ==
  /\ pc = "micros" /\ for = "canShow"
  /\ ~LatchOver
  /\ pc' = "wait"
  /\ m' = 0
  /\ UNCHANGED <<timer, sreg_i, count, pixels, endTime, for, t, ticked, busy, readAt, quiet>>

\* ... or switch the interrupts off and send.
ShiftBegin ==
  /\ pc = "micros" /\ for = "canShow"
  /\ LatchOver
  /\ Served
  /\ pc' = "shift"
  /\ sreg_i' = 0
  /\ busy' = 0
  /\ m' = 0
  /\ UNCHANGED <<timer, count, pixels, endTime, for, t, ticked, readAt, quiet>>

\* The last colour is out.
ShiftEnd ==
  /\ pc = "shift" /\ busy = ShowTicks
  /\ pc' = "end"
  /\ sreg_i' = 1
  /\ busy' = 0
  /\ quiet' = 0
  /\ UNCHANGED <<timer, count, pixels, endTime, for, m, t, ticked, readAt>>

EndTimeCall == pc = "end" /\ MicrosBegin("endTime")

\* A version that does not note the time.
EndTimeSaveNot ==
  /\ pc = "micros" /\ for = "endTime"
  /\ pc' = "run"
  /\ m' = 0
  /\ UNCHANGED <<timer, sreg_i, count, pixels, endTime, for, t, ticked, busy, readAt, quiet>>

EndTimeSave ==
  /\ pc = "micros" /\ for = "endTime"
  /\ pc' = "run"
  /\ endTime' = m
  /\ m' = 0
  /\ UNCHANGED <<timer, sreg_i, count, pixels, for, t, ticked, busy, readAt, quiet>>

Next ==
  \/ Tick \/ TimerIsr
  \/ MillisBegin \/ MillisLow \/ MillisHigh \/ MillisReturn
  \/ MicrosCount \/ MicrosTcnt \/ MicrosFlag
  \/ ShowBegin \/ CanShowCall \/ CanShowNot \/ ShiftBegin \/ ShiftEnd
  \/ EndTimeCall \/ EndTimeSave

Spec == Init /\ [][Next]_vars

-----------------------------------------------------------------------------
(* Properties.                                                             *)

TypeOK ==
  /\ tcnt \in 0 .. Ticks - 1 /\ tov \in 0 .. 1
  /\ sreg_i \in 0 .. 1
  /\ overflow_count \in Nat /\ millis \in Nat /\ fract \in 0 .. FRACT_MAX - 1
  /\ pixels \in 0 .. 1
  /\ endTime \in 0 .. MicrosWrap - 1
  /\ pc \in {"run", "low", "high", "millis", "wait", "count", "tcnt", "flag", "micros",
             "shift", "end"}
  /\ for \in {"canShow", "endTime"}
  /\ m \in Nat /\ t \in 0 .. Ticks - 1
  /\ ticked \in 0 .. 1 /\ busy \in 0 .. ShowTicks
  /\ readAt \in Nat /\ quiet \in 0 .. Latch + 1

\* The strengthening that the proofs need: which calls run with the interrupts
\* off, that no overflow is old when micros() begins, and what it has read.
CallInv ==
  /\ sreg_i = IF pc \in {"low", "high", "millis", "count", "tcnt", "flag", "shift"} THEN 0 ELSE 1
  /\ sreg_i = 0 /\ pc # "shift" /\ tov = 1 => tcnt <= MaxLatency + ticked
  /\ pc = "tcnt" => m = overflow_count
  /\ pc = "flag" =>
       /\ m = overflow_count
       /\ ticked = 0 => tcnt = t
       /\ readAt = Ticks * (IF tov = 1 /\ t < Ticks - 1 THEN m + 1 ELSE m) + t
  /\ pc = "high" => m = millis % Word

\* The inductive invariant of the clock.
TimerInv == TypeOK /\ CallInv

\* timer0_millis and timer0_fract never drift from the overflows counted: the
\* shift by three and the single carry per interrupt lose nothing.  And millis()
\* returns the value that timer0_millis has, never two halves of two values.
MillisExact ==
  /\ 1000 * millis + 8 * fract = MICROSECONDS_PER_TIMER0_OVERFLOW * overflow_count
  /\ pc = "millis" => m = millis

\* micros() returns the moment at which it read TCNT0, wherever the timer
\* overflows meanwhile.
MicrosExact ==
  pc = "micros" => m = (readAt * UsPerTick) % MicrosWrap

\* The clock loses time only in show(): no other step sets it back.
TimeLostInShowOnly == [][pc # "shift" => Elapsed' >= Elapsed]_vars

\* show() never sends before the strip has had LatchUs microseconds to latch the
\* colours of the show() before, although it has stopped its own clock.
LatchHeld == pc = "shift" => quiet * UsPerTick >= LatchUs
==============================================================================
