------------------------------ MODULE ToneTimer -------------------------------
(***************************************************************************)
(* tone() and noTone() on timer 2, the only one of tone_pin_to_timer, with *)
(* its compare interrupt, and the calls on pins that share the register    *)
(* TCCR2A with it.  A step of the program is an access to what the         *)
(* interrupt changes too; the interrupt runs as a whole.                   *)
(***************************************************************************)
EXTENDS Integers

CONSTANTS
  Pin,         \* the pins the program uses
  PwmPin,      \* those with PWM from timer 2
  Radix,       \* values of a byte: the toggle count has two of them here
  Frequency,   \* the arguments of tone(), in Hz
  Duration,    \* and in ms, 0 for a tone without an end
  Retrigger,   \* is tone() called for a pin whose tone, or the new one, may just be ending?
  SharePwm     \* is a PWM pin of timer 2 used while a tone plays?

ASSUME ToneAssumption ==
  /\ "255" \notin Pin /\ PwmPin \subseteq Pin /\ Radix \in {2 * n : n \in 1 .. 128}
  /\ \A f \in Frequency : f \in Nat /\ 31 <= f /\ f <= 65535
  /\ Duration \subseteq Nat /\ Retrigger \in BOOLEAN /\ SharePwm \in BOOLEAN

VARIABLES
  tone_pin,    \* tone_pins[0]
  tccr,        \* TCCR2A: the mode of the timer and the pins PWM is connected to
  ocie,        \* OCIE2A: is the interrupt wanted?
  period,      \* the prescaler in TCCR2B and OCR2A
  lo, hi,      \* timer2_toggle_count, byte by byte
  timerPin,    \* timer2_pin_port and timer2_pin_mask
  port,        \* the output registers: is the pin high?
  ddr,         \* the mode registers: is the pin an output?
  at,          \* where the program is in a call
  arg,         \* the arguments of the call
  saved,       \* TCCR2A as it was read
  wanted,       \* the toggles the tone that plays was to have
  toggles      \* and those it has had

toneVars ==
  <<tone_pin, tccr, ocie, period, lo, hi, timerPin, port, ddr, at, arg, saved, wanted, toggles>>

Free == "255"          \* no tone: a number that no pin has
Restored == [mode |-> "pwm", com |-> {}]

\* timer2_toggle_count as a signed number.
Count == lo + Radix * (IF hi < Radix \div 2 THEN hi ELSE hi - Radix)
LoOf(n) == n % Radix
HiOf(n) == (n \div Radix) % Radix

-------------------------------------------------------------------------------
(* What tone() computes.                                                   *)

F_CPU == 16000000
Scales == <<1, 8, 32, 64, 128, 256, 1024>>
Half(f) == (F_CPU \div f) \div 2                    \* half a period in cycles
Ocr(f, i) == Half(f) \div Scales[i] - 1

\* The first prescaler with which the compare value fits into eight bits, or the last.
Period(f) ==
  LET fit == {i \in DOMAIN Scales : Ocr(f, i) <= 255} \cup {7}
      i == CHOOSE k \in fit : \A j \in fit : k <= j
  IN [scale |-> Scales[i], ocr |-> Ocr(f, i) % 256]

\* 2 * frequency is an unsigned int, the product an unsigned long.
ToggleCount(f, ms) == IF ms > 0 THEN (((2 * f) % 65536) * ms) \div 1000 ELSE -1

\* A thousandth of an unsigned long fits into the four bytes of the count; here it has to
\* fit into two.
ASSUME CountAssumption ==
  \A f \in Frequency, ms \in Duration : ToggleCount(f, ms) < Radix * (Radix \div 2)

-------------------------------------------------------------------------------
ToneInit ==
  /\ tone_pin = Free /\ tccr = Restored /\ ocie = FALSE
  /\ period = [scale |-> 64, ocr |-> 0] /\ lo = 0 /\ hi = 0 /\ timerPin = Free
  /\ port = [p \in Pin |-> FALSE] /\ ddr = [p \in Pin |-> FALSE]
  /\ at = "idle" /\ arg = <<>> /\ saved = Restored
  /\ wanted = 0 /\ toggles = 0

Go(from, to) == at = from /\ at' = to
\* The local variables are gone when a call returns.
CallRest == IF at' = "idle" THEN arg' = <<>> /\ saved' = Restored ELSE UNCHANGED <<arg, saved>>
ToneRest == UNCHANGED <<timerPin, wanted, toggles>>
PinsRest == UNCHANGED <<tone_pin, ocie, period, lo, hi>>

-------------------------------------------------------------------------------
(* tone()                                                                  *)

ToneCall(p, f, ms) ==
  /\ Go("idle", "claim")
  /\ Retrigger \/ tone_pin # p \/ (Count < 0 /\ ms = 0)
  /\ arg' = [pin |-> p, f |-> f, n |-> ToggleCount(f, ms)]
  /\ UNCHANGED <<tccr, port, ddr, saved>> /\ ToneRest /\ PinsRest

\* toneBegin(): the pin has the timer, or takes it, or another pin has it.
ToneClaim ==
  /\ at = "claim"
  /\ \/ tone_pin = arg.pin /\ at' = "scale" /\ UNCHANGED <<tone_pin, tccr, timerPin>>
     \/ /\ tone_pin = Free /\ at' = "scale"
        /\ tone_pin' = arg.pin /\ timerPin' = arg.pin
        /\ tccr' = [mode |-> "ctc", com |-> {}]
     \/ tone_pin \notin {Free, arg.pin} /\ at' = "idle" /\ UNCHANGED <<tone_pin, tccr, timerPin>>
  /\ CallRest /\ UNCHANGED <<ocie, period, lo, hi, port, ddr, wanted, toggles>>

\* pinMode(), the prescaler and OCR2A.
ToneScale ==
  /\ Go("scale", "low")
  /\ ddr' = [ddr EXCEPT ![arg.pin] = TRUE]
  /\ period' = Period(arg.f)
  /\ UNCHANGED <<tone_pin, tccr, ocie, lo, hi, port, arg, saved>> /\ ToneRest

ToneLow ==
  /\ Go("low", "high") /\ lo' = LoOf(arg.n)
  /\ UNCHANGED <<tone_pin, tccr, ocie, period, hi, port, ddr, arg, saved>> /\ ToneRest

ToneHigh ==
  /\ Go("high", "on") /\ hi' = HiOf(arg.n)
  /\ wanted' = arg.n /\ toggles' = 0
  /\ UNCHANGED <<tone_pin, tccr, ocie, period, lo, timerPin, port, ddr, arg, saved>>

ToneOn ==
  /\ Go("on", "idle") /\ ocie' = TRUE
  /\ UNCHANGED <<tone_pin, tccr, period, lo, hi, port, ddr>> /\ ToneRest /\ CallRest

-------------------------------------------------------------------------------
(* noTone(), and digitalWrite(), digitalRead(), analogWrite().             *)

\* disableTimer(2)
DisableTimer == ocie' = FALSE /\ tccr' = Restored /\ period' = [scale |-> 64, ocr |-> 0]

NoToneCall(p) ==
  /\ at = "idle"
  /\ arg' = [pin |-> p, n |-> "low"]
  /\ IF tone_pin = p THEN tone_pin' = Free /\ at' = "disable"
     ELSE at' = "pwm" /\ UNCHANGED tone_pin
  /\ SharePwm \/ p \notin PwmPin \/ tone_pin \in {p, Free}
  /\ UNCHANGED <<tccr, ocie, period, lo, hi, port, ddr, saved>> /\ ToneRest

NoToneDisable ==
  /\ Go("disable", "pwm") /\ DisableTimer
  /\ UNCHANGED <<tone_pin, lo, hi, port, ddr, arg, saved>> /\ ToneRest

\* A call that writes a level to a pin, reads it, or connects PWM to it.
PinCall(p, what) ==
  /\ Go("idle", "pwm")
  /\ SharePwm \/ p \notin PwmPin \/ tone_pin = Free
  /\ arg' = [pin |-> p, n |-> what]
  /\ ddr' = IF what \in {"duty", "low half", "high half"}
            THEN [ddr EXCEPT ![p] = TRUE] ELSE ddr            \* analogWrite() sets the mode
  /\ UNCHANGED <<tccr, port, saved>> /\ ToneRest /\ PinsRest

\* turnOffPWM() and sbi() on TCCR2A: it is read ...
PwmRead ==
  /\ at = "pwm"
  /\ at' = IF arg.pin \in PwmPin THEN "pwmWrite" ELSE "port"
  /\ saved' = tccr
  /\ UNCHANGED <<tccr, port, ddr, arg>> /\ ToneRest /\ PinsRest

\* ... and written.
PwmWrite ==
  /\ at = "pwmWrite"
  /\ at' = IF arg.n = "duty" THEN "idle" ELSE "port"
  /\ tccr' = [saved EXCEPT !.com = IF arg.n = "duty" THEN @ \cup {arg.pin} ELSE @ \ {arg.pin}]
  /\ UNCHANGED <<port, ddr>> /\ ToneRest /\ PinsRest /\ CallRest

\* With the interrupts off.  A duty that no timer can make is a level.
PortWrite ==
  /\ Go("port", "idle")
  /\ \/ arg.n = "read" /\ UNCHANGED port
     \/ arg.n \in {"low", "low half"} /\ port' = [port EXCEPT ![arg.pin] = FALSE]
     \/ arg.n \in {"high", "high half"} /\ port' = [port EXCEPT ![arg.pin] = TRUE]
  /\ UNCHANGED <<tccr, ddr>> /\ ToneRest /\ PinsRest /\ CallRest

PinMode(p, mode) ==
  /\ at = "idle"
  /\ ddr' = [ddr EXCEPT ![p] = mode = "OUTPUT"]
  /\ port' = IF mode = "OUTPUT" THEN port ELSE [port EXCEPT ![p] = mode = "INPUT_PULLUP"]
  /\ UNCHANGED <<tccr, at, arg, saved>> /\ ToneRest /\ PinsRest

-------------------------------------------------------------------------------
(* TIMER2_COMPA_vect                                                       *)

\* A version that counts the low byte down only.
IsrToggleNoBorrow ==
  /\ ocie /\ Count # 0
  /\ port' = [port EXCEPT ![timerPin] = ~@]
  /\ lo' = LoOf(IF Count > 0 THEN Count - 1 ELSE Count) /\ UNCHANGED hi
  /\ toggles' = IF wanted < 0 THEN toggles ELSE toggles + 1
  /\ toggles < 2 * Radix
  /\ UNCHANGED <<tone_pin, tccr, ocie, period, timerPin, ddr, at, arg, saved, wanted>>

IsrToggle ==
  /\ ocie /\ Count # 0
  /\ port' = [port EXCEPT ![timerPin] = ~@]
  /\ LET n == IF Count > 0 THEN Count - 1 ELSE Count IN lo' = LoOf(n) /\ hi' = HiOf(n)
  /\ toggles' = IF wanted < 0 THEN toggles ELSE toggles + 1
  /\ UNCHANGED <<tone_pin, tccr, ocie, period, timerPin, ddr, at, arg, saved, wanted>>

\* A version that looks at the low byte only.
IsrEndLowByte ==
  /\ ocie /\ lo = 0
  /\ DisableTimer /\ tone_pin' = Free
  /\ IF tone_pin # Free THEN port' = [port EXCEPT ![tone_pin] = FALSE] ELSE UNCHANGED port
  /\ UNCHANGED <<lo, hi, timerPin, ddr, at, arg, saved, wanted, toggles>>

\* A version that leaves the timer in its mode.
IsrEndKeepsMode ==
  /\ ocie /\ Count = 0
  /\ ocie' = FALSE /\ tone_pin' = Free
  /\ IF tone_pin # Free THEN port' = [port EXCEPT ![tone_pin] = FALSE] ELSE UNCHANGED port
  /\ UNCHANGED <<tccr, period, lo, hi, timerPin, ddr, at, arg, saved, wanted, toggles>>

\* noTone(tone_pins[0]): while the program is in noTone() that entry is 255 already,
\* and digitalWrite() looks up a pin behind the end of its tables.
IsrEnd ==
  /\ ocie /\ Count = 0
  /\ DisableTimer /\ tone_pin' = Free
  /\ IF tone_pin # Free THEN port' = [port EXCEPT ![tone_pin] = FALSE]
     ELSE UNCHANGED port \/ \E p \in Pin : port' = [port EXCEPT ![p] = FALSE]
  /\ UNCHANGED <<lo, hi, timerPin, ddr, at, arg, saved, wanted, toggles>>

-------------------------------------------------------------------------------
ProgramStep ==
  ToneClaim \/ ToneScale \/ ToneLow \/ ToneHigh \/ ToneOn \/ NoToneDisable \/ PwmRead \/ PwmWrite \/ PortWrite
Isr == IsrToggle \/ IsrEnd

PinUse(p) == {"low", "high", "read"} \cup (IF p \in PwmPin THEN {"duty"} ELSE {"low half", "high half"})

ToneNext ==
  \/ \E p \in Pin :
       \/ \E f \in Frequency, ms \in Duration : ToneCall(p, f, ms)
       \/ NoToneCall(p)
       \/ \E what \in PinUse(p) : PinCall(p, what)
       \/ \E mode \in {"INPUT", "INPUT_PULLUP", "OUTPUT"} : PinMode(p, mode)
  \/ ProgramStep
  \/ Isr

\* The program goes on in a call, and the timer does not stop counting.
ToneSpec == ToneInit /\ [][ToneNext]_toneVars /\ WF_toneVars(ProgramStep) /\ WF_toneVars(Isr)

-------------------------------------------------------------------------------
\* Between calls timer 2 belongs to a tone or to PWM.  With a tone its mode is CTC, its
\* interrupt is on and it has the pitch of a call: the compare value fits into its eight
\* bits, half a period takes as many ticks as the frequency allows, and one tick of the
\* prescaler more would be too long (Tone.cpp:257-296).  Without one disableTimer() has
\* given it back (Tone.cpp:423-425).
TimerMatchesTone ==
  at = "idle" =>
    IF tone_pin = Free THEN ~ocie /\ tccr.mode = "pwm"
    ELSE /\ ocie /\ tccr.mode = "ctc" /\ timerPin = tone_pin
         /\ \E f \in Frequency :
              /\ period.scale * (period.ocr + 1) <= Half(f)
              /\ Half(f) < period.scale * (period.ocr + 2)

\* A tone that ends by itself has had the toggles it was to have, and its pin is low.
EndsAfterToggles ==
  [][ocie /\ ~ocie' /\ tone_pin # Free =>
       toggles = wanted /\ ~port'[timerPin]]_toneVars

\* A tone with a duration ends.
ToneEnds == (ocie /\ Count >= 0 /\ at = "idle") ~> (~ocie \/ wanted = -1)
===============================================================================
