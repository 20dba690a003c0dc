\* Eight ticks of 150 microseconds: an overflow every 1.2 ms, so the fractions
\* carry every fifth time; micros() starts over after four overflows; show()
\* takes more than two overflows, of which the flag keeps one.
CONSTANTS
  Ticks = 8
  UsPerTick = 150
  MicrosWrap = 4800
  LatchUs = 400
  ShowTicks = 19
  MaxLatency = 2
  Word = 4
  MaxOverflows = 11
SPECIFICATION Spec
INVARIANTS MillisExact MicrosExact LatchHeld
CHECK_DEADLOCK FALSE
