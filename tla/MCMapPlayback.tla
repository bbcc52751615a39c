---------------------------- MODULE MCMapPlayback ----------------------------
(* MapPlayback for TLC, with the layers and the cell it opens with.        *)
EXTENDS MapPlayback

CONSTANTS ped, car

MCStart == <<2, 1>>
=============================================================================
