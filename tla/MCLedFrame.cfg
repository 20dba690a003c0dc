\* The strip of the cluster with 98 LEDs.  A node is booted after a hundred
\* summands of 0.01f; one node boots while the others are up, down or booting.
\* Or all nodes are idle, all busy, or one quarter of them busy, and the wave
\* starts over many times.
CONSTANTS
  Nodes = {0, 1, 2, 3, 4, 5, 6, 7, 8, 9, 10, 11, 12, 13, 14, 15}
  Mode = {1, 2, 3}
  Data <- MCData
  Half = 51
  Full = 101
  LedCount = 98
  FlashDelay = 0
  Wrap = 1
  Turn = {0}
SPECIFICATION MCSpec
INVARIANTS BootShown LoadShown WaveShown
