\* The timing is as tight as can be, except that a turn of loop() is one tick
\* shorter than a message takes on the line, so that a backlog can be worked off:
\* show() is one tick shorter than a byte, and the ring holds two messages.
\* The effects: two nodes in both modes and one the sketch does not know; the mean
\* load is 0, 75 or above 100.  millis() starts over after five milliseconds.
CONSTANTS
  Part = {"timing", "effects"}
  ByteTime = 4
  ShowTime = 3
  ComputeTime = 8
  MsgLen = 3
  Capacity = 6
  Nodes = {n1, n2}
  Mode = {1, 2, 3}
  Value = {0, 150}
  Data <- MCData
  Half = 3
  Full = 4
  LedCount = 3
  FlashDelay = 2
  Wrap = 5
  Turn = {1, 2}
SPECIFICATION MCSpec
INVARIANTS NoOverrun NoDrop ShownMatchesMessages
PROPERTIES RingDrained BootEnds AnimationsMoveOn
