----------------------------- MODULE VectorLayer -----------------------------
(***************************************************************************)
(* The bridge that shows a MapLibre map as a layer of a Leaflet map        *)
(* (public_html/leaflet-maplibre-gl.js).  Leaflet tells it of moves and    *)
(* zooms by events; the bridge brings the camera of MapLibre, the place    *)
(* and the size of its container and the transform of its canvas up to the *)
(* view, at once, through a throttle, or in a frame after the animation.   *)
(*                                                                         *)
(* An event runs its handlers to the end before the next one, so the       *)
(* handlers are functions of the layer and the view, composed in the order *)
(* in which Leaflet (public_html/leaflet.js) fires its events; a step is   *)
(* one task of the page.                                                   *)
(***************************************************************************)
EXTENDS Naturals

CONSTANTS
    Centers, BaseZooms, Panes, Sizes,   \* what the view may be (bounds); Panes holds 0
    MaxFrames                       \* frames requested and not yet run (bound)

VectorAssumption == 0 \in Panes /\ MaxFrames \in Nat

VARIABLES
    view,        \* of Leaflet: center, zoom, offset of the map pane, size of the map
    target,      \* what Leaflet animates a zoom to, {} or one camera
    transition,  \* the CSS transition of that zoom has not ended yet
    pinching,    \* two fingers on the map: "none", "begun" or "moved"
    layers,      \* the vector layers on the map, as their bridges know them
    frames       \* callbacks of _transitionEnd that wait for their frame

bridgeVars == <<view, target, transition, pinching, layers, frames>>

Camera(v) == [center |-> v.center, zoom |-> v.zoom]
Place(v) == [pane |-> v.pane, size |-> v.size]
At(c) == [view EXCEPT !.center = c.center, !.zoom = c.zoom]
Cameras == [center : Centers, zoom : BaseZooms]
-----------------------------------------------------------------------------
(* The handlers.  offset is what _offset remembers of the pane, placed and *)
(* sized the position and the size of the container, gl the camera of      *)
(* MapLibre, scaled a canvas under the transform of an animation, throttle *)
(* the state of _throttledUpdate: free, locked, or locked with a call to   *)
(* make when the lock ends.                                                *)
Added(v) ==
    [offset |-> v.pane, placed |-> Place(v), sized |-> v.size, gl |-> Camera(v),
     zooming |-> FALSE, scaled |-> FALSE, throttle |-> "free"]

TransformGL(l, v) == [l EXCEPT !.gl = Camera(v)]

Update(l, v) ==
    IF l.zooming THEN [l EXCEPT !.offset = v.pane]
    ELSE TransformGL([l EXCEPT !.offset = v.pane, !.placed = Place(v)], v)

Throttled(l, v) ==
    IF l.throttle = "free" THEN [Update(l, v) EXCEPT !.throttle = "locked"]
    ELSE [l EXCEPT !.throttle = "again"]

Unlocked(l, v) ==
    IF l.throttle = "again" THEN [Update(l, v) EXCEPT !.throttle = "locked"]
    ELSE [l EXCEPT !.throttle = "free"]

PinchZoom(l, v) == [l EXCEPT !.gl = Camera(v)]
AnimateZoom(l) == [l EXCEPT !.scaled = TRUE]
ZoomStart(l) == [l EXCEPT !.zooming = TRUE]

(* Faulty variant: the update comes before the flag of the zoom is cleared. *)
ZoomEndEarly(l, v) == [Update([l EXCEPT !.scaled = FALSE], v) EXCEPT !.zooming = FALSE]

ZoomEnd(l, v) == Update([l EXCEPT !.scaled = FALSE, !.zooming = FALSE], v)

(* The frame of _transitionEnd.  jumpTo fires the 'moveend' that _zoomEnd  *)
(* waits for before it returns.                                            *)
Framed(l, v) ==
    ZoomEnd([l EXCEPT !.sized = v.size, !.scaled = FALSE, !.gl = Camera(v)], v)
-----------------------------------------------------------------------------
(* What Leaflet does to the layers on its map. *)
NewLayer == layers' = {Added(view)}
NoLayer == layers' = {}

(* The frames of a removed layer find no map and end there. *)
DropFrames == frames' = 0

(* A step of a drag or of a panning, which goes on while a zoom or two     *)
(* fingers begin.                                                          *)
Drag ==
    /\ \E c \in Centers, p \in Panes :
         /\ view' = [view EXCEPT !.center = c, !.pane = p]
         /\ layers' = {Throttled(l, view') : l \in layers}
    /\ UNCHANGED <<target, transition, pinching, frames>>

InvalidateSize ==
    /\ layers # {} => frames < MaxFrames
    /\ \E s \in Sizes \ {view.size}, p \in Panes :
         /\ view' = [view EXCEPT !.size = s, !.pane = p]
         /\ layers' = {Throttled(l, view') : l \in layers}
    /\ frames' = IF layers = {} THEN frames ELSE frames + 1
    /\ UNCHANGED <<target, transition, pinching>>

(* setView or fitBounds to where no animation leads; while a zoom is being *)
(* animated only without a change of the zoom.                             *)
SetView ==
    /\ \E c \in Cameras :
         LET v == [At(c) EXCEPT !.pane = 0]
             Zoomed(l) == ZoomEnd(Throttled(PinchZoom(ZoomStart(l), v), v), v)
         IN /\ target # {} => c.zoom = view.zoom
            /\ view' = v
            /\ layers' = {IF c.zoom = view.zoom THEN Throttled(l, v) ELSE Zoomed(l) : l \in layers}
    /\ UNCHANGED <<target, transition, pinching, frames>>

(* The view is the target from the start of the animation, which no event  *)
(* says before its end.                                                    *)
Animate(c, told) ==
    /\ view' = At(c) /\ target' = {c} /\ transition' = TRUE
    /\ layers' = {AnimateZoom(l) : l \in told}
    /\ UNCHANGED frames

(* Leaflet tests for an animation when it asks for the frame in which this *)
(* one starts, so that another may have started by then, to the same zoom. *)
StartZoom ==
    /\ \E c \in Cameras : Animate(c, {ZoomStart(l) : l \in layers})
    /\ UNCHANGED pinching

(* _onZoomTransitionEnd of Leaflet: zoom (of no matter here when the zoom  *)
(* has not changed, for zoomend follows), move and zoomend.                *)
EndZoom ==
    LET v == At(CHOOSE c \in target : TRUE)
    IN /\ view' = v /\ target' = {}
       /\ layers' = {ZoomEnd(Throttled(PinchZoom(l, v), v), v) : l \in layers}

ZoomTimer ==
    /\ target # {} /\ EndZoom
    /\ UNCHANGED <<transition, pinching, frames>>

(* The transition ends, before the timer of Leaflet or after it. *)
TransitionEnd ==
    /\ transition /\ transition' = FALSE
    /\ layers # {} => frames < MaxFrames
    /\ IF target # {} THEN EndZoom ELSE UNCHANGED <<view, target, layers>>
    /\ frames' = IF layers = {} THEN frames ELSE frames + 1
    /\ UNCHANGED pinching

(* Two fingers: no gesture begins during an animation, but an animation    *)
(* may begin before the fingers of a gesture move.                         *)
PinchStart ==
    /\ target = {} /\ pinching = "none" /\ pinching' = "begun"
    /\ UNCHANGED <<view, target, transition, layers, frames>>

PinchMove ==
    /\ pinching # "none" /\ pinching' = "moved"
    /\ \E c \in Cameras :
         LET v == At(c)
             Begun(l) == IF pinching = "moved" THEN l ELSE ZoomStart(l)
         IN /\ view' = v
            /\ layers' = {Throttled(PinchZoom(Begun(l), v), v) : l \in layers}
    /\ UNCHANGED <<target, transition, frames>>

PinchEnd ==
    /\ pinching # "none" /\ pinching' = "none"
    /\ IF pinching = "moved" THEN \E c \in Cameras : Animate(c, layers)
       ELSE UNCHANGED <<view, target, transition, layers, frames>>

(* The callbacks of the page: the lock of the throttle, the frame. *)
ThrottleTimer ==
    /\ \E l \in layers : l.throttle # "free"
    /\ layers' = {Unlocked(l, view) : l \in layers}
    /\ UNCHANGED <<view, target, transition, pinching, frames>>

FrameRuns ==
    /\ frames > 0 /\ frames' = frames - 1
    /\ layers' = {Framed(l, view) : l \in layers}
    /\ UNCHANGED <<view, target, transition, pinching>>

BridgeInit ==
    /\ view \in [center : Centers, zoom : BaseZooms, pane : {0}, size : Sizes]
    /\ target = {} /\ transition = FALSE /\ pinching = "none"
    /\ layers = {} /\ frames = 0

BridgeNext ==
    \/ Drag \/ InvalidateSize \/ SetView
    \/ StartZoom \/ ZoomTimer \/ TransitionEnd
    \/ PinchStart \/ PinchMove \/ PinchEnd
    \/ ThrottleTimer \/ FrameRuns
-----------------------------------------------------------------------------
Views == [center : Centers, zoom : BaseZooms, pane : Panes, size : Sizes]
LayerStates ==
    [offset : Panes, placed : [pane : Panes, size : Sizes], sized : Sizes, gl : Cameras,
     zooming : BOOLEAN, scaled : BOOLEAN, throttle : {"free", "locked", "again"}]

BridgeTypeOK ==
    /\ view \in Views /\ target \subseteq Cameras
    /\ transition \in BOOLEAN /\ pinching \in {"none", "begun", "moved"}
    /\ layers \subseteq LayerStates /\ frames \in Nat

(* Nothing is under way that will still change a layer. *)
BaseAtRest == target = {} /\ pinching # "moved" /\ frames = 0 /\ \A l \in layers : l.throttle = "free"

(* The layer shows what the map shows. *)
Exact(l) == l = Added(view)
=============================================================================
