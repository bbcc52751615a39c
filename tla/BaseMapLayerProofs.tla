-------------------------- MODULE BaseMapLayerProofs --------------------------
(***************************************************************************)
(* That the base map is exact, for any view, any number of frames and any  *)
(* page.  What TLC checks is not inductive: it speaks of a layer at rest   *)
(* only.  BridgeInv says of each flag of a layer which event is still to   *)
(* come: a zoom is flagged only while Leaflet animates one or two fingers  *)
(* are down, a canvas is scaled only while the animation goes on, a size   *)
(* that is wrong has a frame to come, and a layer that may be updated and  *)
(* has no update to come has had its update.                               *)
(***************************************************************************)
EXTENDS BaseMapLayer, TLAPS

Current(l, v) == l.offset = v.pane /\ l.placed = Place(v) /\ l.gl = Camera(v)

LayerInv(l) ==
    /\ l.zooming => target # {} \/ pinching = "moved"
    /\ l.scaled => target # {}
    /\ l.sized = view.size \/ frames > 0
    /\ target = {} /\ ~l.zooming /\ l.throttle # "again" => Current(l, view)

BridgeInv == BridgeTypeOK /\ \A l \in layers : LayerInv(l)
-----------------------------------------------------------------------------
(* What the handlers do to a layer, field by field. *)

LEMMA Updated ==
    ASSUME NEW l \in LayerStates, NEW v \in Views
    PROVE  LET u == Update(l, v)
           IN /\ u \in LayerStates
              /\ u.zooming = l.zooming /\ u.scaled = l.scaled
              /\ u.sized = l.sized /\ u.throttle = l.throttle
              /\ ~l.zooming => Current(u, v)
BY DEF Update, TransformGL, LayerStates, Views, Cameras, Camera, Place, Current

LEMMA ThrottledOnce ==
    ASSUME NEW l \in LayerStates, NEW v \in Views
    PROVE  LET u == Throttled(l, v)
           IN /\ u \in LayerStates
              /\ u.zooming = l.zooming /\ u.scaled = l.scaled /\ u.sized = l.sized
              /\ ~l.zooming /\ u.throttle # "again" => Current(u, v)
<1> DEFINE w == Update(l, v)
<1>1. /\ w \in LayerStates
      /\ w.zooming = l.zooming /\ w.scaled = l.scaled
      /\ w.sized = l.sized /\ w.throttle = l.throttle
      /\ ~l.zooming => Current(w, v)
  BY Updated
<1>2. CASE l.throttle = "free"
  <2>1. Throttled(l, v) = [w EXCEPT !.throttle = "locked"]
    BY <1>2 DEF Throttled
  <2> HIDE DEF w
  <2> QED  BY <1>1, <2>1 DEF LayerStates, Current
<1>3. CASE l.throttle # "free"
  BY <1>3 DEF Throttled, LayerStates
<1> QED  BY <1>2, <1>3

LEMMA ZoomEnded ==
    ASSUME NEW l \in LayerStates, NEW v \in Views
    PROVE  LET u == ZoomEnd(l, v)
           IN /\ u \in LayerStates
              /\ u.zooming = FALSE /\ u.scaled = FALSE /\ u.sized = l.sized
              /\ Current(u, v)
<1> DEFINE w == [l EXCEPT !.scaled = FALSE, !.zooming = FALSE]
<1>1. /\ w \in LayerStates /\ w.zooming = FALSE /\ w.scaled = FALSE /\ w.sized = l.sized
  BY DEF LayerStates
<1>2. ZoomEnd(l, v) = Update(w, v)
  BY DEF ZoomEnd
<1> HIDE DEF w
<1> QED  BY <1>1, <1>2, Updated

LEMMA Pinched ==
    ASSUME NEW l \in LayerStates, NEW v \in Views
    PROVE  LET u == PinchZoom(l, v)
           IN /\ u \in LayerStates
              /\ u.zooming = l.zooming /\ u.scaled = l.scaled /\ u.sized = l.sized
BY DEF PinchZoom, LayerStates, Views, Cameras, Camera

LEMMA Started ==
    ASSUME NEW l \in LayerStates
    PROVE  /\ ZoomStart(l) \in LayerStates
           /\ ZoomStart(l).scaled = l.scaled /\ ZoomStart(l).sized = l.sized
           /\ AnimateZoom(l) \in LayerStates
           /\ AnimateZoom(l).zooming = l.zooming /\ AnimateZoom(l).sized = l.sized
BY DEF ZoomStart, AnimateZoom, LayerStates

LEMMA FrameRun ==
    ASSUME NEW l \in LayerStates, NEW v \in Views
    PROVE  LET u == Framed(l, v)
           IN /\ u \in LayerStates
              /\ u.zooming = FALSE /\ u.scaled = FALSE /\ u.sized = v.size
              /\ Current(u, v)
<1> DEFINE w == [l EXCEPT !.sized = v.size, !.scaled = FALSE, !.gl = Camera(v)]
<1>1. w \in LayerStates /\ w.sized = v.size
  BY DEF LayerStates, Views, Cameras, Camera
<1>2. Framed(l, v) = ZoomEnd(w, v)
  BY DEF Framed
<1> HIDE DEF w
<1> QED  BY <1>1, <1>2, ZoomEnded

LEMMA AddedCurrent ==
    ASSUME NEW v \in Views
    PROVE  /\ Added(v) \in LayerStates
           /\ Added(v).zooming = FALSE /\ Added(v).scaled = FALSE
           /\ Added(v).sized = v.size /\ Current(Added(v), v)
BY DEF Added, LayerStates, Views, Cameras, Camera, Place, Current
-----------------------------------------------------------------------------
LEMMA AtView ==
    ASSUME view \in Views, NEW c \in Cameras
    PROVE  /\ At(c) \in Views /\ At(c).pane = view.pane /\ At(c).size = view.size
BY DEF At, Views, Cameras

(* A move while nothing is animated, told through the throttle. *)
LEMMA MoveKeepsInv ==
    ASSUME BridgeInv, NEW v \in Views, view' = v, UNCHANGED <<target, pinching>>, transition' \in BOOLEAN,
           frames' \in Nat, frames' >= frames,
           v.size = view.size \/ (layers # {} => frames' > 0),
           layers' = {Throttled(l, v) : l \in layers}
    PROVE  BridgeInv'
<1>1. BridgeTypeOK'
  BY ThrottledOnce DEF BridgeInv, BridgeTypeOK
<1>2. ASSUME NEW l \in layers PROVE LayerInv(Throttled(l, v))'
  <2> DEFINE u == Throttled(l, v)
  <2>1. l \in LayerStates /\ LayerInv(l)
    BY <1>2 DEF BridgeInv, BridgeTypeOK
  <2>2. /\ u.zooming = l.zooming /\ u.scaled = l.scaled /\ u.sized = l.sized
        /\ ~l.zooming /\ u.throttle # "again" => Current(u, v)
    BY <2>1, ThrottledOnce
  <2>3. u.sized = v.size \/ frames' > 0
    BY <1>2, <2>1, <2>2 DEF LayerInv, BridgeInv, BridgeTypeOK
  <2> HIDE DEF u
  <2>4. LayerInv(u)'
    BY <2>1, <2>2, <2>3 DEF LayerInv
  <2> QED  BY <2>4 DEF u
<1> QED  BY <1>1, <1>2 DEF BridgeInv

(* A zoom that ends, or a view that is set with another zoom. *)
LEMMA EndKeepsInv ==
    ASSUME BridgeInv, NEW v \in Views, v.size = view.size, view' = v,
           NEW told \in SUBSET LayerStates, \A m \in told : \E l \in layers : m.sized = l.sized,
           layers' = {ZoomEnd(Throttled(PinchZoom(m, v), v), v) : m \in told},
           target' \subseteq Cameras, transition' \in BOOLEAN, UNCHANGED pinching,
           frames' \in Nat, frames' >= frames
    PROVE  BridgeInv'
<1>1. ASSUME NEW m \in told
      PROVE  LET u == ZoomEnd(Throttled(PinchZoom(m, v), v), v)
             IN u \in LayerStates /\ LayerInv(u)'
  <2> DEFINE p == PinchZoom(m, v)
             t == Throttled(p, v)
             u == ZoomEnd(t, v)
  <2>1. p \in LayerStates /\ p.sized = m.sized
    BY <1>1, Pinched
  <2>2. t \in LayerStates /\ t.sized = m.sized
    <3> HIDE DEF p
    <3> QED  BY <2>1, ThrottledOnce
  <2>3. /\ u \in LayerStates /\ u.zooming = FALSE /\ u.scaled = FALSE
        /\ u.sized = m.sized /\ Current(u, v)
    <3> HIDE DEF t
    <3> QED  BY <2>2, ZoomEnded
  <2>4. PICK l \in layers : m.sized = l.sized
    BY <1>1
  <2>5. m.sized = view.size \/ frames > 0
    BY <2>4 DEF BridgeInv, LayerInv
  <2> HIDE DEF u
  <2>6. LayerInv(u)'
    BY <2>3, <2>5 DEF LayerInv, BridgeInv, BridgeTypeOK
  <2> QED  BY <2>3, <2>6 DEF u, t, p
<1>2. BridgeTypeOK'
  BY <1>1 DEF BridgeInv, BridgeTypeOK
<1> QED  BY <1>1, <1>2 DEF BridgeInv

(* A zoom whose animation begins: the view changes in silence. *)
LEMMA AnimateKeepsInv ==
    ASSUME BridgeInv, NEW c \in Cameras, NEW told \in SUBSET LayerStates,
           \A m \in told : \E l \in layers : m.sized = l.sized,
           Animate(c, told), pinching' \in {"none", "begun", "moved"}
    PROVE  BridgeInv'
<1>1. /\ At(c) \in Views /\ At(c).size = view.size
      /\ view' = At(c) /\ target' = {c} /\ frames' = frames
  BY AtView DEF Animate, BridgeInv, BridgeTypeOK
<1>2. ASSUME NEW m \in told PROVE AnimateZoom(m) \in LayerStates /\ LayerInv(AnimateZoom(m))'
  <2>1. AnimateZoom(m) \in LayerStates /\ AnimateZoom(m).sized = m.sized
    BY <1>2, Started
  <2>2. m.sized = view.size \/ frames > 0
    BY <1>2 DEF BridgeInv, LayerInv
  <2> QED  BY <1>1, <2>1, <2>2 DEF LayerInv
<1>3. BridgeTypeOK'
  BY <1>1, <1>2 DEF Animate, BridgeInv, BridgeTypeOK
<1> QED  BY <1>2, <1>3 DEF Animate, BridgeInv

LEMMA PinchKeepsInv == ASSUME BridgeInv, PinchMove PROVE BridgeInv'
<1>1. PICK c \in Cameras :
         /\ view' = At(c)
         /\ layers' = {Throttled(PinchZoom(IF pinching = "moved" THEN l ELSE ZoomStart(l), At(c)), At(c)) : l \in layers}
  BY DEF PinchMove
<1>2. PICK v \in Views : v = At(c) /\ v.size = view.size
  BY AtView DEF BridgeInv, BridgeTypeOK
<1>3. PICK told \in SUBSET LayerStates :
         /\ told = {IF pinching = "moved" THEN l ELSE ZoomStart(l) : l \in layers}
         /\ \A b \in told : \E l \in layers : b.scaled = l.scaled /\ b.sized = l.sized
  <2> DEFINE T == {IF pinching = "moved" THEN l ELSE ZoomStart(l) : l \in layers}
  <2>1. \A l \in layers : LET b == IF pinching = "moved" THEN l ELSE ZoomStart(l)
                          IN b \in LayerStates /\ b.scaled = l.scaled /\ b.sized = l.sized
    BY Started DEF BridgeInv, BridgeTypeOK
  <2>2. /\ T \in SUBSET LayerStates
        /\ \A b \in T : \E l \in layers : b.scaled = l.scaled /\ b.sized = l.sized
    BY <2>1
  <2>3. T = {IF pinching = "moved" THEN l ELSE ZoomStart(l) : l \in layers}
    OBVIOUS
  <2> HIDE DEF T
  <2> QED  BY <2>2, <2>3
<1>4. layers' = {Throttled(PinchZoom(b, v), v) : b \in told}
  BY <1>1, <1>2, <1>3
<1>5. ASSUME NEW b \in told
      PROVE  LET u == Throttled(PinchZoom(b, v), v) IN u \in LayerStates /\ LayerInv(u)'
  <2> DEFINE p == PinchZoom(b, v)
             u == Throttled(p, v)
  <2>1. p \in LayerStates /\ p.scaled = b.scaled /\ p.sized = b.sized
    BY <1>5, Pinched
  <2>2. /\ u \in LayerStates /\ u.scaled = b.scaled /\ u.sized = b.sized
        /\ ~u.zooming /\ u.throttle # "again" => Current(u, v)
    <3> HIDE DEF p
    <3> QED  BY <2>1, ThrottledOnce
  <2>3. PICK l \in layers : b.scaled = l.scaled /\ b.sized = l.sized
    BY <1>3, <1>5
  <2>4. LayerInv(l) /\ view' = v /\ frames' = frames /\ target' = target /\ pinching' = "moved"
    BY <1>1, <1>2 DEF BridgeInv, PinchMove
  <2> HIDE DEF u
  <2>5. LayerInv(u)'
    BY <1>2, <2>2, <2>3, <2>4 DEF LayerInv
  <2> QED  BY <2>2, <2>5 DEF u, p
<1>6. BridgeTypeOK'
  BY <1>1, <1>2, <1>4, <1>5 DEF PinchMove, BridgeInv, BridgeTypeOK
<1> QED  BY <1>4, <1>5, <1>6 DEF BridgeInv

LEMMA TimerKeepsInv == ASSUME BridgeInv, ThrottleTimer PROVE BridgeInv'
<1>1. PICK v \in Views : v = view /\ UNCHANGED <<view, target, pinching, frames>>
  BY DEF BridgeInv, BridgeTypeOK, ThrottleTimer
<1>2. ASSUME NEW l \in layers PROVE Unlocked(l, v) \in LayerStates /\ LayerInv(Unlocked(l, v))'
  <2> DEFINE w == Update(l, v)
  <2>1. l \in LayerStates /\ LayerInv(l)
    BY <1>2 DEF BridgeInv, BridgeTypeOK
  <2>2. CASE l.throttle = "again"
    <3>1. /\ w \in LayerStates /\ w.zooming = l.zooming /\ w.scaled = l.scaled
          /\ w.sized = l.sized /\ (~l.zooming => Current(w, v))
      BY <2>1, Updated
    <3>2. Unlocked(l, v) = [w EXCEPT !.throttle = "locked"]
      BY <2>2 DEF Unlocked
    <3> HIDE DEF w
    <3>3. LET u == [w EXCEPT !.throttle = "locked"]
          IN /\ u \in LayerStates /\ u.zooming = l.zooming /\ u.scaled = l.scaled
             /\ u.sized = l.sized /\ (~l.zooming => Current(u, v))
      BY <3>1 DEF LayerStates, Current
    <3> QED  BY <1>1, <2>1, <3>2, <3>3 DEF LayerInv
  <2>3. CASE l.throttle # "again"
    <3>1. Unlocked(l, v) = [l EXCEPT !.throttle = "free"]
      BY <2>3 DEF Unlocked
    <3>2. LET u == [l EXCEPT !.throttle = "free"]
          IN /\ u \in LayerStates /\ u.zooming = l.zooming /\ u.scaled = l.scaled
             /\ u.sized = l.sized /\ (Current(l, v) => Current(u, v))
      BY <2>1 DEF LayerStates, Current
    <3> QED  BY <1>1, <2>1, <2>3, <3>1, <3>2 DEF LayerInv
  <2> QED  BY <2>2, <2>3
<1>3. layers' = {Unlocked(l, v) : l \in layers}
  BY <1>1 DEF ThrottleTimer
<1>4. BridgeTypeOK'
  BY <1>1, <1>2, <1>3 DEF ThrottleTimer, BridgeInv, BridgeTypeOK
<1> QED  BY <1>2, <1>3, <1>4 DEF BridgeInv

LEMMA FrameKeepsInv == ASSUME BridgeInv, FrameRuns PROVE BridgeInv'
<1>1. PICK v \in Views : v = view /\ UNCHANGED <<view, target, pinching>>
  BY DEF BridgeInv, BridgeTypeOK, FrameRuns
<1>2. ASSUME NEW l \in layers PROVE Framed(l, v) \in LayerStates /\ LayerInv(Framed(l, v))'
  <2> DEFINE u == Framed(l, v)
  <2>1. l \in LayerStates
    BY <1>2 DEF BridgeInv, BridgeTypeOK
  <2>2. /\ u \in LayerStates /\ u.zooming = FALSE /\ u.scaled = FALSE
        /\ u.sized = v.size /\ Current(u, v)
    BY <2>1, FrameRun
  <2> HIDE DEF u
  <2>3. LayerInv(u)'
    BY <1>1, <2>2 DEF LayerInv
  <2> QED  BY <2>2, <2>3 DEF u
<1>3. layers' = {Framed(l, v) : l \in layers}
  BY <1>1 DEF FrameRuns
<1>4. BridgeTypeOK'
  BY <1>1, <1>2, <1>3 DEF FrameRuns, BridgeInv, BridgeTypeOK
<1> QED  BY <1>2, <1>3, <1>4 DEF BridgeInv
-----------------------------------------------------------------------------
(* Every event, callback and gesture keeps the invariant of the bridge. *)
LEMMA BridgeStepKeepsInv ==
    ASSUME VectorAssumption, BridgeInv, BridgeNext PROVE BridgeInv'
<1>1. ASSUME Drag PROVE BridgeInv'
  <2>1. PICK c \in Centers, p \in Panes :
           /\ view' = [view EXCEPT !.center = c, !.pane = p]
           /\ layers' = {Throttled(l, view') : l \in layers}
    BY <1>1 DEF Drag
  <2>2. view' \in Views /\ view'.size = view.size
    BY <2>1 DEF BridgeInv, BridgeTypeOK, Views
  <2>3. PICK v \in Views : v = view'
    BY <2>2
  <2>4. layers' = {Throttled(l, v) : l \in layers}
    BY <2>1, <2>3
  <2>5. UNCHANGED <<target, pinching>> /\ transition' \in BOOLEAN /\ frames' \in Nat /\ frames' >= frames
    BY <1>1 DEF Drag, BridgeInv, BridgeTypeOK
  <2> QED  BY <2>2, <2>3, <2>4, <2>5, MoveKeepsInv
<1>2. ASSUME InvalidateSize PROVE BridgeInv'
  <2>1. PICK s \in Sizes, p \in Panes :
           /\ view' = [view EXCEPT !.size = s, !.pane = p]
           /\ layers' = {Throttled(l, view') : l \in layers}
    BY <1>2 DEF InvalidateSize
  <2>2. view' \in Views
    BY <2>1 DEF BridgeInv, BridgeTypeOK, Views
  <2>3. PICK v \in Views : v = view'
    BY <2>2
  <2>4. layers' = {Throttled(l, v) : l \in layers}
    BY <2>1, <2>3
  <2>5. /\ UNCHANGED <<target, pinching>> /\ transition' \in BOOLEAN
        /\ frames' \in Nat /\ frames' >= frames /\ (layers # {} => frames' > 0)
    BY <1>2 DEF InvalidateSize, BridgeInv, BridgeTypeOK
  <2> QED  BY <2>3, <2>4, <2>5, MoveKeepsInv
<1>3. ASSUME SetView PROVE BridgeInv'
  <2>1. PICK c \in Cameras :
           LET v == [At(c) EXCEPT !.pane = 0]
               Zoomed(l) == ZoomEnd(Throttled(PinchZoom(ZoomStart(l), v), v), v)
           IN /\ target # {} => c.zoom = view.zoom
              /\ view' = v
              /\ layers' = {IF c.zoom = view.zoom THEN Throttled(l, v) ELSE Zoomed(l) : l \in layers}
    BY <1>3 DEF SetView
  <2>2. PICK v \in Views : v = [At(c) EXCEPT !.pane = 0] /\ v.size = view.size
    <3>1. PICK a \in Views : a = At(c) /\ a.size = view.size
      BY AtView DEF BridgeInv, BridgeTypeOK
    <3>2. [a EXCEPT !.pane = 0] \in Views /\ [a EXCEPT !.pane = 0].size = a.size
      BY DEF VectorAssumption, Views
    <3> QED  BY <3>1, <3>2
  <2>3. /\ UNCHANGED <<target, pinching, transition, frames>>
        /\ target' \subseteq Cameras /\ transition' \in BOOLEAN
        /\ frames' \in Nat /\ frames' >= frames
    BY <1>3 DEF SetView, BridgeInv, BridgeTypeOK
  <2>4. CASE c.zoom = view.zoom
    <3>1. view' = v /\ layers' = {Throttled(l, v) : l \in layers}
      BY <2>1, <2>2, <2>4
    <3> QED  BY <2>2, <2>3, <3>1, MoveKeepsInv
  <2>5. CASE c.zoom # view.zoom
    <3> DEFINE told == {ZoomStart(l) : l \in layers}
    <3>1. told \in SUBSET LayerStates /\ \A m \in told : \E l \in layers : m.sized = l.sized
      BY Started DEF BridgeInv, BridgeTypeOK
    <3>2. view' = v /\ layers' = {ZoomEnd(Throttled(PinchZoom(m, v), v), v) : m \in told}
      BY <2>1, <2>2, <2>5
    <3> HIDE DEF told
    <3> QED  BY <2>2, <2>3, <3>1, <3>2, EndKeepsInv
  <2> QED  BY <2>4, <2>5
<1>4. ASSUME StartZoom PROVE BridgeInv'
  <2>1. PICK c \in Cameras : Animate(c, {ZoomStart(l) : l \in layers})
    BY <1>4 DEF StartZoom
  <2> DEFINE told == {ZoomStart(l) : l \in layers}
  <2>2. told \in SUBSET LayerStates /\ \A m \in told : \E l \in layers : m.sized = l.sized
    BY Started DEF BridgeInv, BridgeTypeOK
  <2>3. pinching' \in {"none", "begun", "moved"} /\ Animate(c, told)
    BY <1>4, <2>1 DEF StartZoom, BridgeInv, BridgeTypeOK
  <2> HIDE DEF told
  <2> QED  BY <2>2, <2>3, AnimateKeepsInv
<1>5. ASSUME target # {}, EndZoom, UNCHANGED pinching, transition' \in BOOLEAN,
             frames' \in Nat, frames' >= frames
      PROVE  BridgeInv'
  <2>1. PICK c \in Cameras : c = CHOOSE d \in target : TRUE
    BY <1>5 DEF BridgeInv, BridgeTypeOK
  <2>2. PICK v \in Views : v = At(c) /\ v.size = view.size
    BY AtView DEF BridgeInv, BridgeTypeOK
  <2>3. /\ view' = v /\ target' = {}
        /\ layers' = {ZoomEnd(Throttled(PinchZoom(m, v), v), v) : m \in layers}
    BY <1>5, <2>1, <2>2 DEF EndZoom
  <2>4. PICK told \in SUBSET LayerStates : told = layers
    BY DEF BridgeInv, BridgeTypeOK
  <2>5. /\ layers' = {ZoomEnd(Throttled(PinchZoom(m, v), v), v) : m \in told}
        /\ \A m \in told : \E l \in layers : m.sized = l.sized
    BY <2>3, <2>4
  <2> QED  BY <1>5, <2>2, <2>3, <2>5, EndKeepsInv
<1>6. ASSUME ZoomTimer PROVE BridgeInv'
  <2>1. /\ target # {} /\ EndZoom /\ UNCHANGED pinching
        /\ transition' \in BOOLEAN /\ frames' \in Nat /\ frames' >= frames
    BY <1>6 DEF ZoomTimer, BridgeInv, BridgeTypeOK
  <2> QED  BY <1>5, <2>1
<1>7. ASSUME TransitionEnd PROVE BridgeInv'
  <2>1. frames' \in Nat /\ frames' >= frames /\ transition' \in BOOLEAN /\ UNCHANGED pinching
    <3>1. frames \in Nat /\ (frames' = frames \/ frames' = frames + 1)
      BY <1>7 DEF TransitionEnd, BridgeInv, BridgeTypeOK
    <3>2. frames' \in Nat /\ frames' >= frames
      BY <3>1
    <3>3. transition' \in BOOLEAN /\ UNCHANGED pinching
      BY <1>7, Zenon DEF TransitionEnd
    <3> QED  BY <3>2, <3>3, Zenon
  <2>2. CASE target # {}
    BY <1>5, <1>7, <2>1, <2>2 DEF TransitionEnd
  <2>3. CASE target = {}
    <3>1. UNCHANGED <<view, target, pinching, layers>>
      BY <1>7, <2>3 DEF TransitionEnd
    <3>2. \A l \in layers : LayerInv(l)'
      BY <2>1, <3>1 DEF BridgeInv, BridgeTypeOK, LayerInv
    <3> QED  BY <2>1, <3>1, <3>2 DEF BridgeInv, BridgeTypeOK
  <2> QED  BY <2>2, <2>3
<1>8. ASSUME PinchEnd PROVE BridgeInv'
  <2>1. layers \in SUBSET LayerStates /\ pinching' \in {"none", "begun", "moved"}
    BY <1>8 DEF PinchEnd, BridgeInv, BridgeTypeOK
  <2>2. CASE pinching = "moved"
    <3>1. PICK c \in Cameras : Animate(c, layers)
      BY <1>8, <2>2 DEF PinchEnd
    <3> QED  BY <2>1, <3>1, AnimateKeepsInv
  <2>3. CASE pinching # "moved"
    <3>1. UNCHANGED <<view, target, transition, layers, frames>>
      BY <1>8, <2>3 DEF PinchEnd
    <3> QED  BY <2>1, <2>3, <3>1 DEF BridgeInv, BridgeTypeOK, LayerInv
  <2> QED  BY <2>2, <2>3
<1>9. ASSUME PinchStart PROVE BridgeInv'
  <2>1. /\ pinching = "none" /\ pinching' = "begun"
        /\ UNCHANGED <<view, target, transition, layers, frames>>
    BY <1>9 DEF PinchStart
  <2> QED  BY <2>1 DEF BridgeInv, BridgeTypeOK, LayerInv
<1> QED
  BY <1>1, <1>2, <1>3, <1>4, <1>6, <1>7, <1>8, <1>9, PinchKeepsInv, TimerKeepsInv, FrameKeepsInv
  DEF BridgeNext
-----------------------------------------------------------------------------
(* The layer that its owner puts on the map, or none, with no frame left. *)
LEMMA ShownKeepsInv ==
    ASSUME BridgeInv, UNCHANGED <<view, target, transition, pinching>>,
           NewLayer \/ NoLayer, DropFrames
    PROVE  BridgeInv'
<1>1. PICK v \in Views : v = view /\ view' = v
  BY DEF BridgeInv, BridgeTypeOK
<1>2. LayerInv(Added(v))' /\ Added(v) \in LayerStates
  <2> DEFINE u == Added(v)
  <2>1. /\ u \in LayerStates /\ u.zooming = FALSE /\ u.scaled = FALSE
        /\ u.sized = v.size /\ Current(u, v)
    BY AddedCurrent
  <2> HIDE DEF u
  <2>2. LayerInv(u)'
    BY <1>1, <2>1 DEF LayerInv
  <2> QED  BY <2>1, <2>2 DEF u
<1>3. layers' = {Added(v)} \/ layers' = {}
  BY <1>1 DEF NewLayer, NoLayer
<1>4. BridgeTypeOK'
  BY <1>1, <1>2, <1>3 DEF DropFrames, BridgeInv, BridgeTypeOK
<1> QED  BY <1>2, <1>3, <1>4 DEF BridgeInv

(* The owner has a layer that it can show and take off, or is stuck. *)
OneOrStuck == OneBase \/ renderer = "stuck"

LEMMA ShowKeepsInv ==
    ASSUME BridgeInv, UNCHANGED <<view, target, transition, pinching>>,
           NEW r \in {"none", "raster", "vector", "stuck"}, NEW t, NEW others, Show(r, t, others),
           others = IF r = "none" THEN {"satellite"} ELSE {"osm"}
    PROVE  BridgeInv' /\ OneOrStuck'
<1>1. (NewLayer \/ NoLayer) /\ DropFrames
  BY DEF Show
<1>2. BridgeInv'
  BY <1>1, ShownKeepsInv
<1>3. OneOrStuck'
  BY DEF Show, OneOrStuck, OneBase, NewLayer, NoLayer
<1> QED  BY <1>2, <1>3

LEMMA FallbackKeepsInv ==
    ASSUME BridgeInv, OneBase, renderer = "vector", NEW t, Fallback(t)
    PROVE  BridgeInv' /\ OneOrStuck'
<1>1. tiles = {"osm"}
  BY DEF OneBase
<1> QED  BY <1>1, ShowKeepsInv DEF Fallback

(* A step of Leaflet or of the bridge leaves the number of layers alone. *)
LEMMA BridgeStepKeepsOwner ==
    ASSUME OneBase, BridgeNext, UNCHANGED ownerVars
    PROVE  OneBase'
<1>1. layers = {} => layers' = {}
  BY DEF BridgeNext, Drag, InvalidateSize, SetView, StartZoom, Animate, ZoomTimer, EndZoom,
         TransitionEnd, PinchStart, PinchMove, PinchEnd, ThrottleTimer, FrameRuns
<1>2. ASSUME NEW l \in layers, layers = {l} PROVE \E m \in layers' : layers' = {m}
  <2>1. ASSUME NEW F, layers' = {F} PROVE \E m \in layers' : layers' = {m}
    BY <2>1
  <2>2. CASE Drag \/ InvalidateSize
    <3>1. layers' = {Throttled(l, view')}
      BY <1>2, <2>2 DEF Drag, InvalidateSize
    <3> QED  BY <2>1, <3>1
  <2>3. CASE SetView
    <3>1. PICK c \in Cameras :
             LET v == [At(c) EXCEPT !.pane = 0]
                 Zoomed(m) == ZoomEnd(Throttled(PinchZoom(ZoomStart(m), v), v), v)
             IN layers' = {IF c.zoom = view.zoom THEN Throttled(m, v) ELSE Zoomed(m) : m \in layers}
      BY <2>3 DEF SetView
    <3> QED  BY <1>2, <2>1, <3>1
  <2>4. CASE StartZoom \/ PinchEnd
    <3>1. layers' = {AnimateZoom(ZoomStart(l))} \/ layers' = {AnimateZoom(l)} \/ layers' = {l}
      BY <1>2, <2>4 DEF StartZoom, PinchEnd, Animate
    <3> QED  BY <2>1, <3>1
  <2>5. CASE EndZoom
    <3>1. PICK c : layers' = {ZoomEnd(Throttled(PinchZoom(m, c), c), c) : m \in layers}
      BY <2>5 DEF EndZoom
    <3> QED  BY <1>2, <2>1, <3>1
  <2>6. CASE PinchMove
    <3>1. PICK c \in Cameras :
             layers' = {Throttled(PinchZoom(IF pinching = "moved" THEN m ELSE ZoomStart(m), At(c)), At(c)) : m \in layers}
      BY <2>6 DEF PinchMove
    <3> QED  BY <1>2, <2>1, <3>1
  <2>7. CASE ThrottleTimer \/ FrameRuns
    <3>1. layers' = {Unlocked(l, view)} \/ layers' = {Framed(l, view)}
      BY <1>2, <2>7 DEF ThrottleTimer, FrameRuns
    <3> QED  BY <2>1, <3>1
  <2> QED
    BY <1>2, <2>2, <2>3, <2>4, <2>5, <2>6, <2>7 DEF BridgeNext, ZoomTimer, TransitionEnd, PinchStart
<1> QED  BY <1>1, <1>2 DEF OneBase, ownerVars

LEMMA BaseStepKeepsInv ==
    ASSUME VectorAssumption, BridgeInv, OneOrStuck, [BaseNext]_baseVars
    PROVE  BridgeInv' /\ OneOrStuck'
<1> USE DEF OneOrStuck
<1>1. CASE BridgeNext /\ OneBase /\ UNCHANGED ownerVars
  BY <1>1, BridgeStepKeepsInv, BridgeStepKeepsOwner
<1>2. ASSUME NEW base \in {"osm", "satellite"}, Select(base) PROVE BridgeInv' /\ OneOrStuck'
  <2>1. CASE base = "osm"
    BY <1>2, <2>1, ShowKeepsInv DEF Select, Preferred
  <2>2. CASE base = "satellite"
    BY <1>2, <2>2, ShowKeepsInv DEF Select
  <2> QED  BY <2>1, <2>2
<1>3. ASSUME UNCHANGED bridgeVars PROVE BridgeInv'
  BY <1>3 DEF bridgeVars, BridgeInv, BridgeTypeOK, LayerInv
<1>4. CASE SetTheme
  <2>1. PICK t \in {"light", "dark"} :
           IF renderer = "vector" /\ ~Styled(t)
           THEN Fallback(t)
           ELSE UNCHANGED <<tiles, renderer, bridgeVars>>
    BY <1>4 DEF SetTheme
  <2>2. CASE renderer = "vector" /\ ~Styled(t)
    BY <2>1, <2>2, FallbackKeepsInv
  <2>3. CASE ~(renderer = "vector" /\ ~Styled(t))
    BY <1>3, <2>1, <2>3 DEF OneBase, bridgeVars
  <2> QED  BY <2>2, <2>3
<1>5. CASE StyleLoads \/ StyleDiffed \/ UNCHANGED baseVars
  BY <1>3, <1>5 DEF StyleLoads, StyleDiffed, baseVars, ownerVars, OneBase, bridgeVars
<1>6. CASE MapErrs
  BY <1>6, FallbackKeepsInv DEF MapErrs
<1> QED  BY <1>1, <1>2, <1>4, <1>5, <1>6 DEF BaseNext

(* The camera, the place, the size and the transform of the vector layer   *)
(* are those of the view whenever nothing is under way, and the map has    *)
(* the base that its owner knows of (map.html setBaseLayer and             *)
(* leaflet-maplibre-gl.js _update, _zoomEnd, _transitionEnd).              *)
THEOREM BaseMapIsExact ==
    ASSUME VectorAssumption PROVE BaseSpec => []BaseMapExact
<1>1. BaseInit => BridgeInv /\ OneOrStuck
  <2> SUFFICES ASSUME BaseInit PROVE BridgeInv /\ OneOrStuck
    OBVIOUS
  <2>1. view \in Views
    BY DEF VectorAssumption, BaseInit, BridgeInit, Views
  <2>2. /\ target = {} /\ layers = {} /\ frames = 0 /\ transition = FALSE /\ pinching = "none"
        /\ renderer = "none" /\ tiles = {"satellite"}
    BY DEF BaseInit, BridgeInit
  <2> QED  BY <2>1, <2>2 DEF BridgeInv, BridgeTypeOK, OneOrStuck, OneBase
<1>2. BridgeInv /\ OneOrStuck /\ [BaseNext]_baseVars => (BridgeInv /\ OneOrStuck)'
  BY BaseStepKeepsInv
<1>3. BridgeInv /\ OneOrStuck => BaseMapExact
  <2> SUFFICES ASSUME BridgeInv, OneOrStuck PROVE BaseMapExact
    OBVIOUS
  <2>1. ASSUME BaseAtRest, NEW l \in layers PROVE Exact(l)
    <3>1. l \in LayerStates /\ LayerInv(l) /\ view \in Views
      BY <2>1 DEF BridgeInv, BridgeTypeOK
    <3>2. /\ l.zooming = FALSE /\ l.scaled = FALSE /\ l.sized = view.size
          /\ l.throttle = "free" /\ Current(l, view)
      BY <2>1, <3>1 DEF BaseAtRest, LayerInv, LayerStates
    <3> QED  BY <3>1, <3>2 DEF Exact, Added, Current, LayerStates
  <2> QED  BY <2>1 DEF BaseMapExact, OneOrStuck
<1> QED  BY <1>1, <1>2, <1>3, PTL DEF BaseSpec
=============================================================================
