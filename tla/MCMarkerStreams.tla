---------------------------- MODULE MCMarkerStreams ----------------------------
(* MarkerStreams for TLC: one playback of two tracks.                      *)
EXTENDS MarkerStreams, TLC

CONSTANT r1

MCCellOf == <<1, 1, 1>>
MCTrackOf == <<1, 1, 2>>
MCRank == <<2, 1, 3>>
MCMixes == {r1 :> [what |-> "playback", live |-> FALSE]}
=============================================================================
