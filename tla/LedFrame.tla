------------------------------- MODULE LedFrame -------------------------------
(***************************************************************************)
(* What a turn of loop() puts on the LED strip.  The effects work on the   *)
(* buffer of the NeoPixel driver in place: they set a pixel, read it back, *)
(* dim it and set it again, turn after turn.  LedLoop says which effect    *)
(* runs and with what; this module adds the pixels.                        *)
(*                                                                         *)
(* A colour is its red and its green part, blue is always 0.  A float is   *)
(* the fraction it stands for; round() and the conversion to uint8_t are   *)
(* taken of the exact fraction.                                            *)
(***************************************************************************)
EXTENDS LedLoop

NUM_SEGMENTS    == 4
NUM_SUBSEGMENTS == 9
RESOLUTION      == NUM_SEGMENTS * NUM_SUBSEGMENTS
WAVE_LENGTH     == LedCount \div 10

VARIABLES
  ready,          \* has setup() run?
  brightness,     \* brightness of the driver: what setBrightness() was told, plus 1
  sm_shiftOffset, \* of PixelBuffer
  strip           \* the pixels of the driver, as they are sent

frameVars == <<loopVars, ready, brightness, sm_shiftOffset, strip>>

Channel == {"r", "g"}
Black   == [c \in Channel |-> 0]
Red     == [c \in Channel |-> IF c = "r" THEN 255 ELSE 0]
Green   == [c \in Channel |-> IF c = "g" THEN 255 ELSE 0]
Led     == 0 .. LedCount - 1

-----------------------------------------------------------------------------
(* The NeoPixel driver.                                                     *)

\* setPixelColor() scales a colour down, getPixelColor() scales it up again;
\* a brightness of 0 stands for 256 and scales nothing.
setPixelColor(colour) ==
  [c \in Channel |-> IF brightness = 0 THEN colour[c] ELSE (colour[c] * brightness) \div 256]
getPixelColor(pixel) ==
  [c \in Channel |-> IF brightness = 0 THEN pixel[c] ELSE (pixel[c] * 256) \div brightness]

\* A version in which 255 is just below full.
BrightnessJustBelow(b) == b

\* The stored brightness.
Brightness(b) == (b + 1) % 256

\* setBrightness() rescales what is in the buffer if the brightness changes.
Rescaled(pixel, b) ==
  LET old   == (brightness + 255) % 256
      scale == IF old = 0 THEN 0
               ELSE IF b = 255 THEN 65535 \div old
               ELSE (Brightness(b) * 256 - 1) \div old
  IN  IF Brightness(b) = brightness THEN pixel
      ELSE [c \in Channel |-> ((pixel[c] * scale) \div 256) % 256]

-----------------------------------------------------------------------------
(* Colours.                                                                 *)

Round(x, d) == (2 * x + d) \div (2 * d)

\* Color::interpolate(): n/d of the way from one colour to the other, at most
\* all of it.
Interpolate(from, to, n, d) ==
  LET p == IF n > d THEN d ELSE n
  IN  [c \in Channel |-> Round((d - p) * from[c] + p * to[c], d)]

\* Color::operator*=, with n/d at most 1.
Dim(colour, n, d) == [c \in Channel |-> Round(colour[c] * n, d)]

-----------------------------------------------------------------------------
(* The boot effect.                                                         *)

\* A node that is k summands of 0.01f into booting fades in red, then to green.
BootColour(k) ==
  IF k = 0 THEN Black
  ELSE IF k < Half THEN Interpolate(Black, Red, 2 * k, 100)
  ELSE Interpolate(Red, Green, 2 * (k - 50), 100)

\* mapBootBufferToPixels(): the node an LED shows.
BootIndex(i) == (16 * i) \div LedCount

mapBootBufferToPixels(boot) ==
  [i \in Led |-> setPixelColor(BootColour(boot[BootIndex(i)]))]

\* regulateBrightness(): what is on the strip, at a fifth of its brightness.
regulateBrightness(pixels) == [i \in Led |-> setPixelColor(Dim(getPixelColor(pixels[i]), 1, 5))]

BootFrame(boot) == regulateBrightness(mapBootBufferToPixels(boot))

-----------------------------------------------------------------------------
(* The load effect.                                                         *)

\* calcAggregateLoad(): the nodes of each quarter of the cluster.  A version
\* with two nodes exchanged:
QuarterSwapped == <<{8, 9, 12, 14}, {10, 11, 13, 15}, {2, 3, 6, 7}, {0, 1, 4, 5}>>
Quarter == <<{8, 9, 12, 13}, {10, 11, 14, 15}, {2, 3, 6, 7}, {0, 1, 4, 5}>>

calcAggregateLoad(load, segIdx) ==
  MapThenSumSet(LAMBDA i : load[i], Quarter[segIdx + 1]) \div 4

mapLoadToColor(load) == Interpolate(Green, Red, load, 100)

\* updateLoadEffect(): a pixel has the colour of its segment; the first and the
\* last of a segment lie between the two segments that meet there.
LoadPixel(load, i) ==
  LET segIdx    == (i * NUM_SEGMENTS) \div RESOLUTION
      subsegIdx == i % NUM_SUBSEGMENTS
      Colour(s) == mapLoadToColor(calcAggregateLoad(load, s))
  IN  CASE subsegIdx = 0 ->
             Interpolate(Colour(IF segIdx = 0 THEN NUM_SEGMENTS - 1 ELSE segIdx - 1),
                         Colour(segIdx), 1, 2)
        [] subsegIdx = NUM_SUBSEGMENTS - 1 ->
             Interpolate(Colour(segIdx), Colour((segIdx + 1) % NUM_SEGMENTS), 1, 2)
        [] OTHER -> Colour(segIdx)

\* The subscript of PixelBuffer.
Shifted(idx) == (idx + sm_shiftOffset) % RESOLUTION

\* interpolatePixels(): an LED lies between two pixels of the buffer.
InterpolatedPixel(buffer, i) ==
  LET d   == LedCount - 1
      cur == ((RESOLUTION - 1) * i) \div d
      w   == ((RESOLUTION - 1) * i) % d
      a   == buffer[Shifted(cur)]
      b   == buffer[Shifted(cur + 1)]
  IN  IF w = 0 THEN a ELSE [c \in Channel |-> ((d - w) * a[c] + w * b[c]) \div d]

interpolatePixels(buffer) == [i \in Led |-> setPixelColor(InterpolatedPixel(buffer, i))]

\* Half the wave, and the distance of an LED from its middle, in 1/200 LED.
HalfWave == 100 * WAVE_LENGTH

\* A version that forgets that the strip is a ring.
WaveDistFlat(i, pos) == IF 200 * i < pos THEN pos - 200 * i ELSE 200 * i - pos

WaveDist(i, pos) ==
  LET dist == IF 200 * i < pos THEN pos - 200 * i ELSE 200 * i - pos
      wrapped == IF pos + HalfWave > Strip THEN 200 * i - (pos - Strip)
                 ELSE IF pos - HalfWave < 0 THEN pos + Strip - 200 * i
                 ELSE dist
  IN  IF wrapped < dist THEN wrapped ELSE dist

\* imposeWave(): full brightness in the middle of the wave, falling to a tenth.
Impose(colour, dist) ==
  IF dist > HalfWave \/ 10 * (HalfWave - dist) < HalfWave THEN Dim(colour, 1, 10)
  ELSE Dim(colour, HalfWave - dist, HalfWave)

imposeWave(pixels, pos) ==
  [i \in Led |-> setPixelColor(Impose(getPixelColor(pixels[i]), WaveDist(i, pos)))]

LoadFrame(load, pos) ==
  LET buffer == [i \in 0 .. RESOLUTION - 1 |-> LoadPixel(load, i)]
  IN  imposeWave(interpolatePixels(buffer), pos)

-----------------------------------------------------------------------------

FrameInit ==
  /\ LoopInit
  /\ ready = FALSE
  /\ brightness = 0
  /\ sm_shiftOffset = 0
  /\ strip = [i \in Led |-> Black]

\* setup() sends a dark strip first and sets the brightness after that.
Setup ==
  /\ ~ready
  /\ ready' = TRUE
  /\ strip' = [i \in Led |-> Rescaled(strip[i], 255)]
  /\ brightness' = Brightness(255)
  /\ sm_shiftOffset' = 4
  /\ UNCHANGED loopVars

\* A turn of loop(): the mode, the load and the wave of this turn, but the
\* booting status before it moves on.  In any other mode the strip stays.
LoopTurn(msg) ==
  /\ ready
  /\ Loop(msg)
  /\ strip' = CASE modeState' = BOOT -> BootFrame(BootStart(msg))
                [] modeState' = LOAD -> LoadFrame(rcvBuffer', wavePos')
                [] OTHER -> strip
  /\ UNCHANGED <<ready, brightness, sm_shiftOffset>>

Wait(t) ==
  /\ Pass(t)
  /\ UNCHANGED <<ready, brightness, sm_shiftOffset, strip>>

FrameNext ==
  \/ Setup
  \/ \E msg \in Message \cup {NoMessage} : LoopTurn(msg)
  \/ \E t \in Turn : Wait(t)

FrameSpec == FrameInit /\ [][FrameNext]_frameVars

-----------------------------------------------------------------------------
(* Properties.                                                              *)

FrameTypeOK ==
  /\ ready \in BOOLEAN
  /\ brightness \in 0 .. 255
  /\ sm_shiftOffset \in 0 .. RESOLUTION - 1
  /\ strip \in [Led -> [Channel -> 0 .. 255]]

Lit(i) == strip[i]["r"] + strip[i]["g"]

\* After a turn in the booting mode an LED is lit exactly if the node it stands
\* for is up, a node that has booted is green and no other, every node has an
\* LED, and no LED is brighter than a fifth: neither the turn before, whatever
\* it showed, nor dimming again and again shows through.
BootShown ==
  ready /\ modeState = BOOT /\ loopAt = "pass" =>
    /\ \A n \in Nodes : \E i \in Led : BootIndex(i) = n
    /\ \A i \in Led :
         LET n == BootIndex(i) IN
         /\ n \in Nodes
         /\ Lit(i) > 0 <=> rcvBuffer[n] # 0
         /\ bootStatus[n] = Full => strip[i] = [Black EXCEPT !["g"] = 51]
         /\ Lit(i) \in 0 .. 52

\* The quarters of the cluster, which is four rows of four nodes, in the order
\* in which they lie on the ring.
QuarterOf(n) ==
  LET row == n \div 8
      col == (n % 4) \div 2
  IN  IF row = 1 THEN col ELSE 3 - col

\* Where an LED lies on the ring, in pixels from the start of the first segment.
SegmentOf(p) == (((p + 4) % 36) \div 9)
LedPixels(i) ==
  LET cur == (35 * i) \div (LedCount - 1)
  IN  {cur, IF (35 * i) % (LedCount - 1) = 0 THEN cur ELSE cur + 1}

\* After a turn in the load mode the segment of a quarter is green where no
\* node of the quarter has any load and red where all have full load, whatever
\* the others have, and where a green segment meets a red one the two mix.
LoadShown ==
  ready /\ modeState = LOAD /\ loopAt = "pass" =>
    LET Idle(q) == \A n \in Nodes : QuarterOf(n) = q => rcvBuffer[n] = 0
        Busy(q) == \A n \in Nodes : QuarterOf(n) = q => rcvBuffer[n] >= 100
    IN  \A i \in Led :
          LET px == LedPixels(i)
              inside == \A p \in px : (p + 4) % 9 \in 1 .. 7
              q == SegmentOf(CHOOSE p \in px : TRUE)
              border == \A p \in px : (p + 4) % 9 \in {0, 8}
              qs == {SegmentOf(p) : p \in px}
          IN  /\ inside /\ Idle(q) => strip[i]["r"] = 0 /\ strip[i]["g"] > 0
              /\ inside /\ Busy(q) => strip[i]["g"] = 0 /\ strip[i]["r"] > 0
              /\ border /\ (\E a \in qs : Idle(a)) /\ (\E b \in qs : Busy(b)) =>
                   strip[i]["r"] = strip[i]["g"]

\* After a turn in the load mode the LEDs near the wave, around the end of the
\* strip too, are bright, and all others are at a tenth: the wave has no second
\* image, and no LED fades away.
WaveShown ==
  ready /\ modeState = LOAD /\ loopAt = "pass" =>
    \A i \in Led :
      LET d == IF 200 * i < wavePos THEN wavePos - 200 * i ELSE 200 * i - wavePos
          ring == IF Strip - d < d THEN Strip - d ELSE d
      IN  /\ ring >= HalfWave => Lit(i) \in 24 .. 28
          /\ 2 * ring <= HalfWave => Lit(i) >= 126
==============================================================================
