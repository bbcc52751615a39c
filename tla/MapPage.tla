------------------------------- MODULE MapPage -------------------------------
(***************************************************************************)
(* The page of the map: its markers with their playback, and the base map  *)
(* under them.  Both follow the events of the Leaflet map, and neither     *)
(* reads what the other keeps, so one of them moves while the other stands *)
(* still: TLC explores the sum of their state spaces, not the product.     *)
(***************************************************************************)
EXTENDS MapPlayback, BaseMapLayer

VARIABLE moving     \* the part that moves

pageVars == <<moving, vars, baseVars>>

ASSUME PageAssumption ==
    LoaderAssumption /\ PlaybackAssumption /\ VectorAssumption /\ BaseMapAssumption

(* Only the part that moves has more than one initial state. *)
PageInit ==
    /\ moving \in {"markers", "base"}
    /\ Init /\ BaseInit
    /\ moving # "base" =>
         /\ <<build, theme>> = <<CHOOSE b \in Builds : TRUE, "light">>
         /\ view = CHOOSE v \in [center : Centers, zoom : BaseZooms, pane : {0}, size : Sizes] : TRUE

InPlayback(step) == moving = "markers" /\ step /\ UNCHANGED <<moving, baseVars>>

MovePlayback == InPlayback(Next)
MoveBase == moving = "base" /\ BaseNext /\ UNCHANGED <<moving, vars>>

PageNext == MovePlayback \/ MoveBase

(* What goes on without the user, as in MapPlayback. *)
PageSpec == PageInit /\ [][PageNext]_pageVars /\ WF_pageVars(InPlayback(GoOn))
=============================================================================
