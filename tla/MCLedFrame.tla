------------------------------ MODULE MCLedFrame ------------------------------
(* The messages of a run: all nodes alike, or one node or one quarter of the  *)
(* cluster different from the rest.  A behaviour shows either what is booting *)
(* or the load, with messages of its own.                                     *)
EXTENDS LedFrame

VARIABLE shown

AllAlike(V)      == {[n \in Nodes |-> v] : v \in V}
OneNode(n)       == {[k \in Nodes |-> IF k = n THEN v ELSE w] : v, w \in {0, 1}}
OneQuarter(v, w) == {[k \in Nodes |-> IF QuarterOf(k) = q THEN v ELSE w] : q \in 0 .. 3}

MCBootData == OneNode(5)
MCLoadData == AllAlike({0, 100}) \cup OneQuarter(100, 0)
MCData     == MCBootData \cup MCLoadData

Messages ==
  IF shown = "boot" THEN [mode : Mode \ {LOAD}, data : MCBootData]
                    ELSE [mode : {LOAD}, data : MCLoadData]

MCInit == FrameInit /\ shown \in {"boot", "load"}
MCNext ==
  /\ UNCHANGED shown
  /\ \/ Setup
     \/ \E msg \in Messages \cup {NoMessage} : LoopTurn(msg)
     \/ \E t \in Turn : Wait(t)
MCSpec == MCInit /\ [][MCNext]_<<frameVars, shown>>
==============================================================================
