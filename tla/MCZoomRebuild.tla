---------------------------- MODULE MCZoomRebuild ----------------------------
(* ZoomRebuild for TLC: two old tracks, one of them bare, and two imports. *)
EXTENDS ZoomRebuild, TLC

MCTracks == 1..4
MCPoints == 1..3
MCZooms == {1, 2}
MCCellOf == <<(1 :> 1 @@ 2 :> 1 @@ 3 :> 1), (1 :> 1 @@ 2 :> 1 @@ 3 :> 2)>>
MCLegacy == <<{1, 2}, {}, {}, {}>>
MCBare == <<{}, {1}, {}, {}>>
Fixed == [i \in {1, 2} |-> "fixed"]
(* Two new tracks. *)
Others == <<{1, 3}, {3}>>
Apart == <<3, 4>>
=============================================================================
