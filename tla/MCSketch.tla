------------------------------- MODULE MCSketch -------------------------------
(***************************************************************************)
(* The sketch: the timing of its loop, and the state of its effects.  The  *)
(* two share no variable; a behaviour exercises one and leaves the other.  *)
(***************************************************************************)
EXTENDS CofferLed, LedLoop

CONSTANTS
  Part,    \* the parts that are run
  Value    \* the values of a data byte

VARIABLE part

MCData == [Nodes -> Value]

sketchVars == <<vars, loopVars, part>>

\* The line is of no importance to the effects.
MCInit == part \in Part /\ Init /\ LoopInit /\ (part = "effects" => gap = ByteTime)

Timing == part = "timing" /\ Next /\ UNCHANGED <<loopVars, part>>
Effects == part = "effects" /\ LoopNext /\ UNCHANGED <<vars, part>>

MCNext == Timing \/ Effects

\* The fairness of Spec and LoopSpec.
MCSpec ==
  /\ MCInit /\ [][MCNext]_sketchVars
  /\ WF_vars(part = "timing" /\ RxCompleteIrq)
  /\ WF_vars(part = "timing" /\ (Tick \/ ReadByte \/ ReceiveDone \/ ShowBegin \/ ShowEnd))
  /\ WF_loopVars(part = "effects" /\ LoopNext)
===============================================================================
