------------------------------ MODULE MCMapPage ------------------------------
(* MapPage for TLC: two layers and two zoom levels; the viewport moves     *)
(* between cells whose prefetched bounds overlap (2 and 3), touch in one   *)
(* cell (3 and 5) or lie apart (2 and 5).  The dates of cell 3 span the    *)
(* custom range exactly, and cell 5 has no marker.  Pages with both        *)
(* styles, with one, and without support for MapLibre.                     *)
EXTENDS MapPage

CONSTANTS ped, car

MCStart == <<2, 1>>

Both == {"light", "dark"}
MCBuilds ==
    {[styled |-> Both, supported |-> TRUE], [styled |-> {"light"}, supported |-> TRUE],
     [styled |-> Both, supported |-> FALSE]}
=============================================================================
