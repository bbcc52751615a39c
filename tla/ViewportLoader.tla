---------------------------- MODULE ViewportLoader ----------------------------
(***************************************************************************)
(* How the page of the map keeps the markers it shows in step with what    *)
(* the user looks at (public_html/map.html).  A move of the map or a       *)
(* change of a filter asks for an update, after a pause; an update takes   *)
(* the next load token, opens a stream of server events per speed layer    *)
(* and region, draws what they bring in animation frames, and settles      *)
(* when its streams are over and its queue is empty.  A pan at one zoom    *)
(* loads only the regions the last settled load did not cover and keeps    *)
(* what is on the map; any other change starts from an empty map.          *)
(*                                                                         *)
(* The map is a line of cells: the viewport is one cell, the prefetched    *)
(* bounds reach Reach cells further, and every layer has one marker per    *)
(* cell and zoom, unless the cell is bare.  Live sensors are a layer of    *)
(* their own with a reload of its own and are left out, as is the thinning *)
(* of overlapping markers.                                                 *)
(*                                                                         *)
(* A load that settles shows or hides the slider of the dates, which may   *)
(* drop the stored range and stop a playback; so what a playback keeps is  *)
(* declared here, and MapPlayback has its operations.                      *)
(***************************************************************************)
EXTENDS Integers, FiniteSets

CONSTANTS
    Layers,     \* "ped", "car", "plane"
    Places,     \* cells the viewport may be moved to
    Zooms,
    Start,      \* the cell and zoom the page opens with
    Reach,      \* cells prefetched on either side of the viewport
    Failing,    \* layers whose streams may fail
    MaxFails,   \* streams that fail (bound)
    Old,        \* cells whose markers the custom date range hides
    Whole,      \* cells whose dates span the custom date range exactly
    Bare,       \* cells without a marker
    Runs,       \* 1..n: playbacks that may be started (bound)
    None

LoaderAssumption ==
    /\ Places \subseteq Int /\ Start \in Places \X Zooms
    /\ Failing \subseteq Layers /\ Reach \in Nat /\ MaxFails \in Nat
    /\ IsFiniteSet(Layers)
    /\ None \notin BOOLEAN /\ \A x \in (SUBSET Layers) \cup (Places \X Zooms) : None # x

VARIABLES
    at, zoom,     \* map.getBounds() and map.getZoom()
    enabled,      \* the layers ticked in the stored speed filter
    ranged,       \* a custom date range is stored
    slider,       \* the cell whose dates the slider spans, None while it is hidden
    timer,        \* debounceTimeout: None, or the forceReload it will pass on
    token,        \* markerLoadToken
    load,         \* the closure of the newest call of updateMapMarkers
    settled,      \* markerSettledToken = markerLoadToken
    viewKey,      \* markerViewKey
    filters,      \* markerFilterState
    covered,      \* markerViewportState
    streams,      \* streams whose callbacks may still run
    queue,        \* renderQueue of the newest load
    shown,        \* circleMarkers
    fails,        \* streams that have failed
    calm,         \* since the last full load none was cut short, and no range
                  \* dropped by one: see CalmViewExact
    active,       \* trackPlaybackActive
    paused,       \* playbackPaused
    current,      \* playbackState: the run whose state it is, 0 for null
    resume,       \* playbackResume: the run whose loop it wakes, 0 for null
    restart,      \* playbackViewportRestartTimer is set
    feed,         \* run -> how its stream stands, and the tracks it has brought
    loop,         \* run -> where its playTracksSequentially awaits
    points        \* runs with playback markers among circleMarkers

loaderVars == <<at, zoom, enabled, ranged, slider, timer, token, load, settled, viewKey,
                filters, covered, streams, queue, shown, fails, calm>>

playing == <<active, paused, current, resume, restart, feed, loop, points>>

Prefetch(p) == (p - Reach)..(p + Reach)

Cells == UNION {Prefetch(p) : p \in Places}

Markers == [layer : Layers, cell : Cells \ Bare, zoom : Zooms]

(* savedRange: what the date filter of a load lets through. *)
Admits(r, c) == r => c \notin Old

(* Faulty variant: only the part on the right is asked for. *)
MissingRight(prev, next) == { {c \in next : \A p \in prev : c > p} } \ {{}}

(* buildIncrementalBoundsRegions: next without prev, as the parts on       *)
(* either side of prev; next itself where the two are apart.               *)
Missing(prev, next) ==
    { {c \in next : \A p \in prev : c < p}, {c \in next : \A p \in prev : c > p} } \ {{}}

(* summed: canUseDateRangeSummary, true of a load that is not incremental  *)
(* and of one that has seen the summary of the viewport.  counted: a       *)
(* stream has brought a marker of the viewport.                            *)
NoLoad == [at |-> None, zoom |-> None, ranged |-> FALSE, summed |-> FALSE, counted |-> FALSE,
           pending |-> 0, failed |-> FALSE, finalized |-> TRUE]

LoaderInit ==
    /\ at = Start[1] /\ zoom = Start[2]
    /\ enabled = Layers /\ ranged = FALSE /\ slider = None
    /\ timer = FALSE                    \* whenReady debounces the first update
    /\ token = 0 /\ load = NoLoad /\ settled = TRUE
    /\ viewKey = None /\ filters = None /\ covered = None
    /\ streams = {} /\ queue = {} /\ shown = {}
    /\ fails = 0 /\ calm = TRUE
-----------------------------------------------------------------------------
(* isActiveLoad: callbacks of a superseded load return at their first line. *)
Active(s) == s.load = token

(* stopPlayback up to the update it may ask for, with the loops as they    *)
(* are by then: the loop that waits for the end of the pause wakes up and  *)
(* returns, the stream is aborted, and every marker leaves the map, those  *)
(* of the loader included.  Without a playback the map has the markers on. *)
HasPlayback == active \/ paused \/ points # {}

Halt(keepRestart, loops, on) ==
    IF HasPlayback
    THEN /\ active' = FALSE /\ paused' = FALSE /\ current' = 0 /\ resume' = 0
         /\ restart' = (keepRestart /\ restart)
         /\ loop' = [r \in Runs |-> IF r = resume THEN "over" ELSE loops[r]]
         /\ feed' = [r \in Runs |-> IF r = current /\ feed[r].phase = "open"
                                     THEN [feed[r] EXCEPT !.phase = "aborted"] ELSE feed[r]]
         /\ points' = {} /\ shown' = {}
    ELSE /\ loop' = loops /\ shown' = on
         /\ UNCHANGED <<active, paused, current, resume, restart, feed, points>>

(* __setDateSliderVisibility(false): the stored range is dropped, and a    *)
(* playback stopped with a forced update.                                  *)
HideSlider(on, left) ==
    /\ slider' = None /\ ranged' = FALSE
    /\ Halt(FALSE, loop, on)
    /\ timer' = IF HasPlayback THEN TRUE ELSE left

(* finalizeStreams, called with the load, the queue, the markers on the    *)
(* map and the debounce as they would be.  A failed load leaves no bounds  *)
(* to build upon.  The slider is shown where the viewport has a marker     *)
(* that the load has counted or that is on the map; __syncDateSliders then *)
(* drops a stored range that equals the dates of the viewport.  It is      *)
(* hidden where a load that can tell has found none.                       *)
Finalize(l, q, on, left) ==
    LET settles == ~l.finalized /\ l.pending = 0 /\ q = {}
        dated == l.counted \/ \E m \in on : m.cell = l.at
    IN  /\ load' = [l EXCEPT !.finalized = @ \/ settles]
        /\ IF settles
           THEN /\ covered' = [zoom |-> l.zoom,
                               bounds |-> IF l.failed THEN None ELSE Prefetch(l.at)]
                /\ settled' = TRUE
           ELSE UNCHANGED <<covered, settled>>
        /\ IF settles /\ ~dated /\ ~l.failed /\ l.summed
           THEN HideSlider(on, left)
           ELSE /\ shown' = on /\ timer' = left /\ UNCHANGED playing
                /\ IF settles /\ dated
                   THEN slider' = l.at /\ ranged' = (ranged /\ l.at \notin Whole)
                   ELSE UNCHANGED <<slider, ranged>>

Debounce(force) ==
    /\ timer' = force
    /\ calm' = (calm /\ (timer = TRUE => force))

(* clearMarkerLayerGroups: closes every open stream and empties the map.   *)
(* A stream that has failed over to the offline cache is in no set of      *)
(* sources any more and goes on.                                           *)
OpenStreams(layers) == {s \in streams : s.phase = "open" /\ s.layer \in layers}

(* updateMapMarkers, left being what is left of the debounce.  With nothing *)
(* to wait for it settles at once, and hides the slider if no layer is     *)
(* ticked: then nothing is on the map that a dropped range could belie.    *)
UpdateMapMarkers(force, left) ==
    LET was == IF filters = None THEN {} ELSE filters
        changed == filters # enabled
        based == covered # None /\ covered.bounds # None
        reload == \/ force
                  \/ viewKey # <<at, zoom>>
                  \/ enabled # {} /\ ~based
        pan == reload /\ ~force /\ ~changed /\ based /\ covered.zoom = zoom
        full == reload /\ ~pan
        regions == IF pan THEN Missing(covered.bounds, Prefetch(at)) ELSE {Prefetch(at)}
        wanted == IF reload THEN enabled ELSE enabled \ was
        cut == IF reload THEN Layers ELSE (enabled \ was) \cup (was \ enabled)
        opened == [load : {token + 1}, layer : wanted, region : regions,
                   phase : {"open"}, sent : {FALSE}]
        fresh == [at |-> at, zoom |-> zoom, ranged |-> ranged, summed |-> ~pan, counted |-> FALSE,
                  pending |-> Cardinality(opened), failed |-> FALSE, finalized |-> FALSE]
        kept == CASE full -> {}
                  [] pan -> {m \in shown : m.layer \in enabled => m.cell \in Prefetch(at)}
                  [] OTHER -> {m \in shown : m.layer \notin cut}
    IN  /\ token' = token + 1
        /\ viewKey' = IF reload THEN <<at, zoom>> ELSE viewKey
        /\ filters' = enabled
        /\ streams' = (streams \ OpenStreams(cut)) \cup opened
        /\ queue' = {}
        /\ CASE opened # {} ->
                  /\ load' = fresh /\ settled' = FALSE
                  /\ covered' = IF full THEN None ELSE covered
                  /\ shown' = kept /\ timer' = left
                  /\ UNCHANGED <<ranged, slider, playing>>
             [] opened = {} /\ enabled = {} ->
                  /\ load' = [fresh EXCEPT !.finalized = TRUE] /\ settled' = TRUE
                  /\ covered' = IF full THEN None ELSE covered
                  /\ HideSlider(kept, left)
             [] OTHER -> Finalize(fresh, {}, kept, left)
        /\ calm' = (full \/ (calm /\ settled /\ (enabled = {} \/ ranged' = ranged)))
        /\ UNCHANGED <<at, zoom, enabled, fails>>

(* updateMarkers on the page of the map.  While a playback owns the map    *)
(* the update only takes the token, and counts as settled.                 *)
UpdateMarkers(force, left) ==
    IF active
    THEN /\ token' = token + 1 /\ settled' = TRUE /\ queue' = {} /\ timer' = left
         /\ load' = [load EXCEPT !.finalized = TRUE]
         /\ UNCHANGED <<at, zoom, enabled, ranged, slider, viewKey, filters, covered, streams,
                        shown, fails, calm, playing>>
    ELSE UpdateMapMarkers(force, left)
-----------------------------------------------------------------------------
(* Callbacks of the streams of startMarkerLayerStream. *)

Drop(s) == streams' = streams \ {s}

(* onMarker: a marker outside the date range is counted but not drawn. *)
Enqueue(s, cells) ==
    queue' = IF Active(s)
             THEN queue \cup {[layer |-> s.layer, cell |-> c, zoom |-> load.zoom] :
                                c \in {d \in cells \ Bare : Admits(load.ranged, d)}}
             ELSE queue

Counted(s) == [load EXCEPT !.counted = @ \/ (Active(s) /\ load.at \in s.region \ Bare)]

(* onmessage: all the markers of a stream arrive at once; a stream that is *)
(* cut short in their midst leaves the map as one whose markers are still  *)
(* in the queue.                                                           *)
Message(s) ==
    /\ s.phase = "open" /\ ~s.sent
    /\ streams' = (streams \ {s}) \cup {[s EXCEPT !.sent = TRUE]}
    /\ Enqueue(s, s.region) /\ load' = Counted(s)
    /\ UNCHANGED <<at, zoom, enabled, ranged, slider, timer, token, settled, viewKey,
                   filters, covered, shown, fails, calm, playing>>

(* onDone and onError end one stream of the load; an error of a base layer *)
(* marks the load as failed.  A stream that was asked for the viewport and *)
(* ends well brings its summary, unless the server, or the entry of the    *)
(* cache, had none.                                                        *)
Ended(s, l, failed, q) ==
    IF Active(s)
    THEN \E summary \in BOOLEAN :
            Finalize([l EXCEPT !.pending = @ - 1, !.failed = @ \/ failed,
                               !.summed = @ \/ (summary /\ ~failed /\ l.at \in s.region)],
                     q, shown, timer)
    ELSE UNCHANGED <<load, covered, settled, slider, ranged, timer, shown, playing>>

CalmWhileRanged == calm' = (calm /\ ranged' = ranged)

(* finishStream: the event "done" with the data "end". *)
Done(s) ==
    /\ s.phase = "open" /\ s.sent
    /\ Drop(s) /\ Ended(s, load, FALSE, queue) /\ CalmWhileRanged
    /\ UNCHANGED <<at, zoom, enabled, token, viewKey, filters, queue, fails>>

(* failStreamWithCacheFallback: onerror, or "done" without "end".  The     *)
(* source is closed and the offline cache asked.                           *)
Fail(s) ==
    /\ s.phase = "open" /\ s.layer \in Failing
    /\ fails < MaxFails /\ fails' = fails + 1
    /\ streams' = (streams \ {s}) \cup {[s EXCEPT !.phase = "cache"]}
    /\ UNCHANGED <<at, zoom, enabled, ranged, slider, timer, token, load, settled, viewKey,
                   filters, covered, queue, shown, calm, playing>>

(* emitFromCache: every marker of the entry, then onDone.  An entry        *)
(* without markers counts for none.                                        *)
EmitFromCache(s) ==
    /\ s.phase = "cache" /\ ~(s.region \subseteq Bare)
    /\ Drop(s) /\ Enqueue(s, s.region)
    /\ Ended(s, Counted(s), FALSE, queue') /\ CalmWhileRanged
    /\ UNCHANGED <<at, zoom, enabled, token, viewKey, filters, fails>>

CacheMiss(s) ==
    /\ s.phase = "cache"
    /\ Drop(s) /\ Ended(s, load, TRUE, queue) /\ CalmWhileRanged
    /\ UNCHANGED <<at, zoom, enabled, token, viewKey, filters, queue, fails>>

(* Faulty variant: the frame that empties the queue settles nothing. *)
FrameUnsettled ==
    /\ queue # {}
    /\ \E drawn \in {queue} \cup {{CHOOSE m \in queue : TRUE}} :
        /\ shown' = shown \cup drawn
        /\ queue' = queue \ drawn
    /\ UNCHANGED <<at, zoom, enabled, ranged, slider, timer, token, load, settled, viewKey,
                   filters, covered, streams, fails, calm, playing>>

(* drainRenderQueue: one frame draws what its twelve milliseconds allow,   *)
(* and the frame that empties the queue tries to settle the load.          *)
Frame ==
    /\ queue # {}
    /\ \E drawn \in {queue} \cup {{CHOOSE m \in queue : TRUE}} :
        /\ queue' = queue \ drawn
        /\ Finalize(load, queue \ drawn, shown \cup drawn, timer)
    /\ CalmWhileRanged
    /\ UNCHANGED <<at, zoom, enabled, token, viewKey, filters, streams, fails>>

StreamStep(s) ==
    Message(s) \/ Done(s) \/ Fail(s) \/ EmitFromCache(s) \/ CacheMiss(s)

Loading == Frame \/ \E s \in streams : StreamStep(s)
=============================================================================
