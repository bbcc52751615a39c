---------------------------- MODULE MCTrackCatalogue ----------------------------
(* TrackCatalogue for TLC: four tracks, the second and the fourth of an    *)
(* older version, on pages of two.                                         *)
EXTENDS TrackCatalogue
=============================================================================
