------------------------- MODULE MCSerializedPipeline -------------------------
(* SerializedPipeline for TLC: two lanes, two callers on the one that is   *)
(* probed first, one caller of unknown kind.                               *)
EXTENDS SerializedPipeline, TLC

CONSTANTS c0, c1, c2

MCOrder == [p \in 0..1 |-> 1 - p]
MCCapacity == [l \in 0..1 |-> l + 1]
MCKind == c0 :> 7 @@ c1 :> 1 @@ c2 :> 1
=============================================================================
