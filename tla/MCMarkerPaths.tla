---------------------------- MODULE MCMarkerPaths -----------------------------
(***************************************************************************)
(* MarkerPaths for TLC: two zoom levels, so that a point that stands for   *)
(* its cells everywhere has three rows, as one of the source has up to 21. *)
(***************************************************************************)
EXTENDS MarkerPaths, TLC

CONSTANTS r1, r2, car, roof

MCTracks == 1..4
MCPoints == 1..4
MCZooms == {1, 2}
(* One cell at zoom 1; at zoom 2 one for the points 1 and 2, one for 3, 4. *)
MCCellOf == <<(1 :> 1 @@ 2 :> 1 @@ 3 :> 1 @@ 4 :> 1), (1 :> 1 @@ 2 :> 1 @@ 3 :> 2 @@ 4 :> 2)>>

(* The site on PostgreSQL: two old tracks, one of them bare, and imports   *)
(* of two new ones.                                                        *)
MCLegacy == <<{1, 2}, {}, {}, {}>>
MCBare == <<{}, {1}, {}, {}>>
MCFixed == [k \in {1, 2} |-> "fixed"]
MCFile == <<{1, 3}, {3}>>
MCOwn == <<3, 4>>

(* The other site: the same file uploaded twice, an archive that holds a   *)
(* longer version of it, and an upload without one usable point.           *)
MCUploadFile == (1 :> {1, 2} @@ 2 :> {1, 2} @@ 3 :> {1, 2, 3, 4} @@ 4 :> {4})
MCUploadKind == (1 :> "upload" @@ 2 :> "upload" @@ 3 :> "export" @@ 4 :> "upload")
MCUploadOwn == (1 :> 2 @@ 2 :> 1 @@ 3 :> 3 @@ 4 :> 1)

(* Tracks of up to four points at three places, with and without speeds;   *)
(* only the differences of dates matter, so the first is 0.                *)
MCShapes ==
    {t \in UNION {[1..n -> [date : 0..3, place : {0, 1, 9}, speed : {0, 2}]] : n \in 0..4} :
        /\ t # <<>> => t[1].date = 0
        /\ \A j \in 1..(Len(t) - 1) : t[j].date <= t[j + 1].date}

(* Three markers of two tracks in one cell: the second one beats the first *)
(* there, the third does not.  Each way to stream beside a request for     *)
(* devices, which on SQLite takes its turn in the pipeline.                *)
MCStreamCell == <<1, 1, 1>>
MCStreamTrack == <<1, 1, 2>>
MCStreamRank == <<2, 1, 3>>
Asks(what, devices) == [what |-> what, live |-> devices]
MCMixes ==
    {r1 :> Asks("map", TRUE) @@ r2 :> Asks("devices", TRUE),
     r1 :> Asks("track", FALSE) @@ r2 :> Asks("devices", TRUE),
     r1 :> Asks("devices", TRUE) @@ r2 :> Asks("playback", FALSE)}
=============================================================================
