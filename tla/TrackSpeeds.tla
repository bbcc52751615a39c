------------------------------ MODULE TrackSpeeds ------------------------------
(***************************************************************************)
(* calculateSpeedForMarkers of chicha-isotope-map.go: the speed at every   *)
(* point of a track.  A point that cannot tell its speed, or tells an      *)
(* impossible one, borrows it from its neighbours or from the whole track. *)
(*                                                                         *)
(* Places lie on a line and a speed is a number of 1/Unit places per       *)
(* second, so that quotients are whole.  The points come in chronological  *)
(* order; the detection of milliseconds is left out, because points with   *)
(* such dates are dropped before.                                          *)
(***************************************************************************)
EXTENDS Integers, Sequences, FiniteSetsExt

CONSTANTS
    Tracks,     \* sequences of [date, place, speed], as they come from a parser
    Unit,       \* a multiple of every difference of dates
    MaxSpeed    \* 1000 m/s in the source

Assumption ==
    /\ Tracks \subseteq Seq([date : Int, place : Int, speed : Int])
    /\ Unit \in Nat \ {0} /\ MaxSpeed \in Nat

VARIABLES
    markers,    \* the points
    speed,      \* their speeds, changed in place
    phase,
    i,          \* the cursor of the loop over the gaps
    last        \* lastWithSpeed, 0 if there is none

vars == <<markers, speed, phase, i, last>>

N == Len(markers)
Sane(v) == v \in 0..MaxSpeed

(* dtSec > 0 *)
Apart(j, k) == markers[k].date > markers[j].date

SpeedBetween(j, k) ==
    LET way == markers[k].place - markers[j].place
    IN  (Unit * (IF way < 0 THEN -way ELSE way)) \div (markers[k].date - markers[j].date)

(* The speed since the point before; a point with the date of the one      *)
(* before it, and the first one, keep what they came with.                 *)
Pairwise(k, incoming) ==
    IF k > 1 /\ Apart(k - 1, k)
    THEN IF Sane(SpeedBetween(k - 1, k)) THEN SpeedBetween(k - 1, k) ELSE 0
    ELSE incoming

(* The first point takes the speed of the second. *)
Seeded(s) == IF N > 1 /\ s[1] = 0 THEN [s EXCEPT ![1] = s[2]] ELSE s

(* Faulty variant: a gap takes the speed before it, whatever comes after. *)
FillFromLeft(left, right) ==
    IF left # 0 THEN speed[left] ELSE IF right # 0 THEN speed[right] ELSE 0

(* What a gap between the anchors gets, 0 for nothing. *)
GapFill(left, right) ==
    CASE left # 0 /\ right # 0 -> IF Apart(left, right) THEN SpeedBetween(left, right) ELSE 0
      [] left # 0 /\ right = 0 -> speed[left]
      [] left = 0 /\ right # 0 -> speed[right]
      [] OTHER -> 0
-----------------------------------------------------------------------------
Init ==
    /\ markers \in Tracks
    /\ speed = [k \in 1..N |-> markers[k].speed]
    /\ phase = "pairs" /\ i = 1 /\ last = 0

Pairs ==
    /\ phase = "pairs"
    /\ speed' = Seeded([k \in 1..N |-> Pairwise(k, speed[k])])
    /\ phase' = "gaps"
    /\ UNCHANGED <<markers, i, last>>

Skip ==
    /\ phase = "gaps" /\ i <= N
    /\ speed[i] > 0
    /\ last' = i /\ i' = i + 1
    /\ UNCHANGED <<markers, speed, phase>>

(* A run of zeros from the cursor on. *)
Gap ==
    /\ phase = "gaps" /\ i <= N
    /\ ~(speed[i] > 0)
    /\ LET end == Min({k \in i..N : speed[k] # 0} \cup {N + 1})
           right == IF end <= N /\ speed[end] > 0 THEN end ELSE 0
           fill == GapFill(last, right)
       IN  /\ speed' = IF fill > 0 /\ fill <= MaxSpeed
                       THEN [k \in 1..N |-> IF k \in i..(end - 1) THEN fill ELSE speed[k]]
                       ELSE speed
           /\ i' = end
    /\ UNCHANGED <<markers, phase, last>>

(* What is left gets the average of the whole track. *)
Fallback ==
    /\ phase = "gaps" /\ i > N
    /\ speed' = IF N >= 2 /\ Apart(1, N) /\ Sane(SpeedBetween(1, N))
                THEN [k \in 1..N |-> IF speed[k] = 0 THEN SpeedBetween(1, N) ELSE speed[k]]
                ELSE speed
    /\ phase' = "done"
    /\ UNCHANGED <<markers, i, last>>

Next == Pairs \/ Skip \/ Gap \/ Fallback

Spec == Init /\ [][Next]_vars
-----------------------------------------------------------------------------
(* No step lets an impossible speed into the track. *)
TypeOK ==
    /\ markers \in Seq([date : Int, place : Int, speed : Int])
    /\ DOMAIN speed = 1..N /\ \A k \in 1..N : Sane(speed[k])
    /\ phase \in {"pairs", "gaps", "done"}
    /\ i \in 1..(N + 1) /\ last \in 0..N

(* The speeds as the sets of anchors around a point give them, from the    *)
(* speeds s that it came with.                                             *)
Expected(s, k) ==
    LET own == Seeded([j \in 1..N |-> Pairwise(j, s[j])])
        lefts == {j \in 1..(k - 1) : own[j] > 0}
        rights == {j \in (k + 1)..N : own[j] > 0}
        near == CASE lefts # {} /\ rights # {} ->
                        IF Apart(Max(lefts), Min(rights))
                        THEN SpeedBetween(Max(lefts), Min(rights)) ELSE 0
                  [] lefts # {} /\ rights = {} -> own[Max(lefts)]
                  [] lefts = {} /\ rights # {} -> own[Min(rights)]
                  [] OTHER -> 0
        whole == IF Apart(1, N) THEN SpeedBetween(1, N) ELSE 0
    IN  IF own[k] # 0 THEN own[k]
        ELSE IF near \in 1..MaxSpeed THEN near
        ELSE IF Sane(whole) THEN whole ELSE 0

(* The loop in place computes for every point what its nearest neighbours  *)
(* with a speed of their own imply: nothing that was filled in is borrowed *)
(* again.                                                                  *)
NeighboursDecide ==
    phase = "done" => \A k \in 1..N : speed[k] = Expected([j \in 1..N |-> markers[j].speed], k)
=============================================================================
