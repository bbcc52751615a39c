----------------------------- MODULE MapPlayback -----------------------------
(***************************************************************************)
(* The playback of the page of the map (createDateRangeSlider in           *)
(* public_html/map.html) on top of the loader of its markers, with which   *)
(* it shares the markers on the map and the slider of the dates.  Pressing *)
(* play clears the map, opens one stream of tracks, and draws the points   *)
(* of the tracks one by one while the stream goes on; play pressed again   *)
(* pauses and resumes.  A move of the map, a change of the dates or the    *)
(* end stops it and asks for a forced update; a zoom starts it anew after  *)
(* a delay.  The stop and reset buttons of the dock are left out.          *)
(*                                                                         *)
(* The page has one thread: a step is a task together with the promise     *)
(* callbacks it makes runnable.  So an aborted stream is over in the step  *)
(* that aborts it, while a loop that sleeps in a timer is not.             *)
(***************************************************************************)
EXTENDS ViewportLoader

CONSTANTS
    Tracks,     \* tracks a stream brings at most (bound)
    Points,     \* points of a track
    MaxActs     \* things the user does (bound)

PlaybackAssumption ==
    /\ Runs \subseteq Nat \ {0} /\ Tracks \in Nat
    /\ Points \in Nat \ {0} /\ MaxActs \in Nat

VARIABLES
    state,        \* run -> the state that the loop of the run was given
    acts

vars == <<loaderVars, playing, state, acts>>

(* What playTracksSequentially does between two awaits: where it sleeps    *)
(* next, the state it leaves, and the runs of which it draws a point.      *)
Sleep(where, st, drawn) == [where |-> where, state |-> st, drawn |-> drawn]

(* createPlaybackState: tracks buffered, whether one is being played, the  *)
(* points of it that are drawn, and whether the stream is over.            *)
FreshState == [queue |-> 0, track |-> FALSE, index |-> 0, streamDone |-> FALSE]

Init ==
    /\ LoaderInit
    /\ active = FALSE /\ paused = FALSE /\ current = 0 /\ resume = 0 /\ restart = FALSE
    /\ feed = [r \in Runs |-> [phase |-> "none", tracks |-> 0]]
    /\ loop = [r \in Runs |-> "none"]
    /\ state = [r \in Runs |-> FreshState]
    /\ points = {} /\ acts = 0
-----------------------------------------------------------------------------
(* stopPlayback(true) as the finally of togglePlayback calls it. *)
StopAndRefresh(loops) ==
    /\ Halt(FALSE, loops, shown)
    /\ IF HasPlayback THEN Debounce(TRUE) ELSE UNCHANGED <<timer, calm>>

(* Faulty variant: a loop that wakes up does not look whether it was       *)
(* stopped.                                                                *)
NextPointUnchecked(r, st) ==
    IF paused THEN Sleep("paused", st, {})
              ELSE Sleep("delay", [st EXCEPT !.index = @ + 1], {r})

NextPoint(r, st) ==
    CASE ~active -> Sleep("over", st, {})
      [] active /\ paused -> Sleep("paused", st, {})
      [] OTHER -> Sleep("delay", [st EXCEPT !.index = @ + 1], {r})

NextTrack(r, st) ==
    CASE ~active \/ (st.queue = 0 /\ st.streamDone) -> Sleep("over", st, {})
      [] active /\ st.queue = 0 /\ ~st.streamDone -> Sleep("wait", st, {})
      [] OTHER -> NextPoint(r, [st EXCEPT !.queue = @ - 1, !.track = TRUE, !.index = 0])

AfterPoint(r, st) ==
    LET played == [st EXCEPT !.track = FALSE, !.index = 0] IN
    CASE st.index < Points -> NextPoint(r, st)
      [] st.index = Points /\ (~st.streamDone \/ st.queue > 0) -> Sleep("gap", played, {})
      [] OTHER -> NextTrack(r, played)

(* Run r goes on to z.  A loop that returns after the end of its stream    *)
(* resolves the Promise.all of its togglePlayback, whose finally stops     *)
(* whatever is playing by then.                                            *)
Continue(r, z, ended) ==
    LET loops == [loop EXCEPT ![r] = z.where] IN
    /\ state' = [state EXCEPT ![r] = z.state]
    /\ IF z.where = "over" /\ ended
       THEN StopAndRefresh(loops)
       ELSE /\ loop' = loops /\ points' = points \cup z.drawn
            /\ resume' = IF z.where = "paused" THEN r ELSE resume
            /\ UNCHANGED <<active, paused, current, restart, feed, shown, timer, calm>>

Idle == UNCHANGED <<at, zoom, enabled, ranged, slider, token, load, settled, viewKey, filters,
                    covered, streams, queue, fails>>

(* A delay between points, or between tracks, is over. *)
Wake(r) ==
    /\ \/ loop[r] = "delay" /\ Continue(r, AfterPoint(r, state[r]), feed[r].phase = "done")
       \/ loop[r] = "gap" /\ Continue(r, NextTrack(r, state[r]), feed[r].phase = "done")
    /\ Idle /\ UNCHANGED acts
-----------------------------------------------------------------------------
(* streamPlaybackMarkers.  The callbacks it is given reach the state that  *)
(* is current when they run; a loop that waits for a track goes on.        *)
Open(r) == feed[r].phase = "open"

Handed(r, st) ==
    IF loop[r] = "wait" THEN NextTrack(r, st) ELSE Sleep(loop[r], st, {})

(* onTrackReady, queuePlaybackTrack. *)
TrackReady(r) ==
    /\ Open(r) /\ feed[r].tracks < Tracks
    /\ LET z == Handed(current, [state[current] EXCEPT !.queue = @ + 1]) IN
        /\ loop' = [loop EXCEPT ![current] = z.where]
        /\ state' = [state EXCEPT ![current] = z.state]
        /\ points' = points \cup z.drawn
        /\ resume' = IF loop[current] = "wait" /\ z.where = "paused" THEN current ELSE resume
    /\ feed' = [feed EXCEPT ![r].tracks = @ + 1]
    /\ Idle /\ UNCHANGED <<timer, shown, calm, active, paused, current, restart, acts>>

(* The stream ends well: finishOnce, markPlaybackStreamDone.  If the loop  *)
(* was waiting it returns, and the playback is over.                       *)
StreamEnds(r) ==
    /\ Open(r)
    /\ LET z == Handed(current, [state[current] EXCEPT !.streamDone = TRUE]) IN
        /\ state' = [state EXCEPT ![current] = z.state]
        /\ IF z.where = "over"
           THEN StopAndRefresh([loop EXCEPT ![current] = "over"])
           ELSE /\ loop' = [loop EXCEPT ![current] = z.where]
                /\ feed' = [feed EXCEPT ![r].phase = "done"]
                /\ UNCHANGED <<timer, shown, calm, active, paused, current, resume, restart, points>>
    /\ Idle /\ UNCHANGED acts

(* It fails: finishOnce all the same if its answer was being read, and not *)
(* if the request itself failed; the rejection takes togglePlayback to its *)
(* finally at once.                                                        *)
StreamFails(r) ==
    /\ Open(r)
    /\ \/ /\ state' = [state EXCEPT ![current].streamDone = TRUE]
          /\ StopAndRefresh([loop EXCEPT ![current] = IF @ = "wait" THEN "over" ELSE @])
       \/ feed[r].tracks = 0 /\ StopAndRefresh(loop) /\ UNCHANGED state
    /\ Idle /\ UNCHANGED acts
-----------------------------------------------------------------------------
(* prepareCleanPlaybackSurface: the pending update is cancelled, streams   *)
(* are closed and the map is emptied.  The load they belonged to keeps the *)
(* token, and whatever its queue holds.                                    *)
ClearSurface ==
    /\ timer' = None /\ calm' = FALSE
    /\ streams' = streams \ OpenStreams(Layers)
    /\ covered' = None /\ shown' = {} /\ points' = {}

Rest == UNCHANGED <<at, zoom, enabled, ranged, slider, token, load, settled, viewKey, filters, queue, fails>>

(* togglePlayback: pause, resume, or start.  With no speed layer ticked    *)
(* the map is cleared and nothing starts.  The dock of a small screen has  *)
(* a button for it even where the slider is hidden.                        *)
Pause ==
    /\ active /\ ~paused
    /\ paused' = TRUE /\ restart' = FALSE
    /\ UNCHANGED <<active, current, resume, feed, loop, state, points,
                   timer, calm, streams, covered, shown>>

Resume ==
    /\ active /\ paused
    /\ paused' = FALSE /\ restart' = FALSE /\ resume' = 0
    /\ IF resume # 0
       THEN /\ loop' = [loop EXCEPT ![resume] = "delay"]
            /\ state' = [state EXCEPT ![resume].index = @ + 1]
            /\ points' = points \cup {resume}
       ELSE UNCHANGED <<loop, state, points>>
    /\ UNCHANGED <<active, current, feed, timer, calm, streams, covered, shown>>

Begin ==
    /\ ~active
    /\ restart' = FALSE /\ paused' = FALSE
    /\ ClearSurface
    /\ IF enabled = {}
       THEN UNCHANGED <<active, current, feed, loop, state>>
       ELSE \E r \in Runs :
              /\ loop[r] = "none" /\ \A q \in Runs : q < r => loop[q] # "none"
              /\ active' = TRUE /\ current' = r
              /\ feed' = [feed EXCEPT ![r].phase = "open"]
              /\ loop' = [loop EXCEPT ![r] = "wait"]
              /\ UNCHANGED state
    /\ UNCHANGED resume

Toggle == (Pause \/ Resume \/ Begin) /\ Rest

(* The 450 ms of restartPlaybackAfterViewportReset are longer than every   *)
(* delay of a loop that slept before them.  Nothing starts once the slider *)
(* is hidden.                                                              *)
RestartFires ==
    /\ restart
    /\ \A r \in Runs : loop[r] \notin {"delay", "gap"}
    /\ IF active \/ paused \/ slider = None
       THEN restart' = FALSE /\ UNCHANGED <<active, paused, current, resume, feed, loop, state,
                                            points, timer, calm, streams, covered, shown>>
       ELSE Begin
    /\ Rest /\ UNCHANGED acts
-----------------------------------------------------------------------------
(* What the user does. *)

(* moveend. *)
Pan(p) ==
    /\ p # at /\ at' = p
    /\ IF active \/ points # {} THEN StopAndRefresh(loop)
       ELSE Debounce(FALSE) /\ UNCHANGED <<active, paused, current, resume, restart, feed,
                                           loop, points, shown>>
    /\ UNCHANGED <<zoom, enabled, ranged, slider, token, load, settled, viewKey, filters,
                   covered, streams, queue, fails, state>>

(* zoomend and the moveend that follows it: restartMapPlaybackForZoomChange *)
(* while a playback goes on, and an update that is not forced in any case.  *)
Zoom(z) ==
    /\ z # zoom /\ zoom' = z
    /\ timer' = FALSE
    /\ IF active
       THEN /\ active' = FALSE /\ paused' = FALSE /\ current' = 0 /\ resume' = 0
            /\ restart' = TRUE /\ calm' = FALSE
            /\ loop' = [r \in Runs |-> IF r = resume THEN "over" ELSE loop[r]]
            /\ feed' = [r \in Runs |-> IF Open(r) THEN [feed[r] EXCEPT !.phase = "aborted"] ELSE feed[r]]
            /\ streams' = streams \ OpenStreams(Layers)
            /\ covered' = None /\ shown' = {} /\ points' = {}
       ELSE /\ Halt(FALSE, loop, shown) /\ calm' = (calm /\ timer # TRUE)
            /\ UNCHANGED <<streams, covered>>
    /\ UNCHANGED <<at, enabled, ranged, slider, token, load, settled, viewKey, filters, queue,
                   fails, state>>

(* A checkbox of the speed filter. *)
Tick(l) ==
    /\ enabled' = IF l \in enabled THEN enabled \ {l} ELSE enabled \cup {l}
    /\ Debounce(FALSE)
    /\ UNCHANGED <<at, zoom, ranged, slider, token, load, settled, viewKey, filters, covered,
                   streams, queue, shown, fails, playing, state>>

(* updateDateFilter: the sliders stop a playback and force an update.      *)
(* saveCustomDateRangeState stores no range that spans all their dates.    *)
MoveDates ==
    /\ slider # None
    /\ ranged' = (~ranged /\ slider \notin Whole)
    /\ Halt(FALSE, loop, shown) /\ Debounce(TRUE)
    /\ UNCHANGED <<at, zoom, enabled, slider, token, load, settled, viewKey, filters, covered,
                   streams, queue, fails, state>>

(* Forced updates from elsewhere on the page: uploads, a new legend. *)
Refresh ==
    /\ UpdateMarkers(TRUE, timer)
    /\ UNCHANGED state

Act ==
    /\ acts < MaxActs /\ acts' = acts + 1
    /\ \/ \E p \in Places : Pan(p)
       \/ \E z \in Zooms : Zoom(z)
       \/ \E l \in Layers : Tick(l)
       \/ MoveDates
       \/ Refresh
       \/ Toggle

(* The callback of debounceUpdateMarkers. *)
TimerFires ==
    /\ timer # None
    /\ UpdateMarkers(timer, None)
    /\ UNCHANGED <<state, acts>>

Load == Loading /\ UNCHANGED <<state, acts>>

Play(r) == Wake(r) \/ TrackReady(r) \/ StreamEnds(r) \/ StreamFails(r)

(* What goes on without the user: timers fire, streams bring what they     *)
(* have and end, frames are drawn, points are played.                      *)
GoOn == TimerFires \/ Load \/ RestartFires \/ \E r \in Runs : Play(r)

Next == Act \/ GoOn

Spec == Init /\ [][Next]_vars /\ WF_vars(GoOn)
-----------------------------------------------------------------------------
(* Beside the types: the load counts every stream that may still call it,  *)
(* and the only open stream of tracks is that of the current playback.     *)
TypeOK ==
    /\ at \in Places /\ zoom \in Zooms /\ enabled \subseteq Layers
    /\ timer \in BOOLEAN \cup {None}
    /\ shown \subseteq Markers /\ queue \subseteq Markers
    /\ load.pending >= Cardinality({s \in streams : Active(s)})
    /\ current \in Runs \cup {0} /\ resume \in Runs \cup {0}
    /\ \A r \in Runs : Open(r) => active /\ current = r

(* The markers the current view calls for: of the ticked layers, in the    *)
(* bounds b, at the zoom of the map, within the date range of the load.    *)
Wanted(b) == {m \in Markers : m.layer \in enabled /\ m.cell \in b /\ m.zoom = zoom
                              /\ Admits(ranged, m.cell)}

AtRest == settled /\ timer = None /\ ~active /\ ~load.failed

(* Left to settle between one change and the next, any sequence of pans,   *)
(* zooms, filters and playbacks leaves exactly the markers of the view on  *)
(* the map, prefetched bounds included (updateMapMarkers, which loads only *)
(* the regions that the last load did not cover).  The exception is a load *)
(* that drops the range of the dates as it settles: nothing asks again for *)
(* the markers that the range had hidden, until the next full load.        *)
CalmViewExact == AtRest /\ calm => shown = Wanted(Prefetch(at))

(* Whatever the user does meanwhile, a settled map shows every marker of   *)
(* the current bounds: "Request markers for current bounds/zoom, render    *)
(* them" (map.html:11492, above updateMarkers).                            *)
SettledShowsView == AtRest => Wanted({at}) \subseteq shown

(* Points are on the map only while a playback goes on: a loop that sleeps *)
(* when it is stopped draws nothing any more when it wakes up.             *)
PointsOnlyWhilePlaying == ~active => points = {}

(* Once the user rests the page does: no update is left undone and the     *)
(* overlay of the load goes, unless the playback was left paused.          *)
EventuallySettled == <>[](settled \/ paused \/ enabled = {})
=============================================================================
