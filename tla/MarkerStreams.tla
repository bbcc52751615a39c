----------------------------- MODULE MarkerStreams -----------------------------
(***************************************************************************)
(* How the server streams markers to browsers: streamMarkersHandler for    *)
(* the map, for a track and for live devices, streamPlaybackHandler, the   *)
(* producers of pkg/database that feed them, and the goroutines between.   *)
(* A producer holds a connection of the pool while its cursor is open and  *)
(* hands over one marker at a time.  The queries for live devices and for  *)
(* a playback are jobs of the serialized pipeline, which runs one at a     *)
(* time (SerialExecutor) and skips those whose context has ended: because  *)
(* the client went away, or after 45 seconds.                              *)
(*                                                                         *)
(* The markers in view are the numbers 1..Len(CellOf), by date, those of a *)
(* track next to each other, so that one order does for map and playback.  *)
(* The summary of a stream and the zoom of a track's map are left out.     *)
(***************************************************************************)
EXTENDS Integers, Sequences, FiniteSetsExt

CONSTANTS
    Requests,
    Mixes,      \* what may be requested side by side: request -> [what, live]
    Engines,    \* database drivers the site may run on
    CellOf,     \* marker -> its cell of the map
    TrackOf,    \* marker -> its track
    Rank,       \* marker -> its place in the order of markerDoseWinner
    MaxFaults,  \* queries that fail (bound)
    Nobody

Jobs == Requests \X {"base", "devices"}

Assumption ==
    /\ Mixes \subseteq
         [Requests -> [what : {"map", "track"}, live : BOOLEAN] \cup
                      [what : {"devices"}, live : {TRUE}] \cup
                      [what : {"playback"}, live : {FALSE}]]
    /\ DOMAIN CellOf = 1..Len(CellOf) /\ Len(CellOf) \in Nat
    /\ Len(TrackOf) = Len(CellOf) /\ Rank \in [DOMAIN CellOf -> Int]
    /\ \A m, n \in DOMAIN Rank : m # n => Rank[m] # Rank[n]
    /\ MaxFaults \in Nat /\ Nobody \notin Jobs

VARIABLES
    engine,     \* the driver
    req,        \* request -> its goroutines and channels, see Opened
    gone,       \* requests whose client has left
    worker,     \* the job that the pipeline runs
    expired,    \* jobs whose 45 seconds are over
    faults,
    panicked    \* the process has ended

vars == <<engine, req, gone, worker, expired, faults, panicked>>

(* serializedEnabled. *)
Serialized == engine \in {"duckdb", "sqlite", "chai"}

(* Faulty variant: SQLite is capped as DuckDB is. *)
OneConnection == IF Serialized THEN 1 ELSE 8

(* SetMaxOpenConns; PostgreSQL keeps the default, which is no bound.       *)
Connections == CASE engine \in {"sqlite", "chai"} -> 4
                 [] engine = "duckdb" -> 1
                 [] OTHER -> 8

(* A request as its handler finds it once the producer is started.  A      *)
(* query is "none", "queued" in the pipeline, "waiting" for a connection,  *)
(* "open", or "ended"; that of a playback is "open" with the cursor over   *)
(* the tracks, "nested" while it waits for a second connection, "reading"  *)
(* and "sending" with the cursor over the markers of one.                  *)
Asked(k) ==
    [asked |-> k,
     what |-> k.what,
     handler |-> IF k.live THEN "devices" ELSE "stream",
     devices |-> CASE ~k.live -> "none"
                  [] k.live /\ Serialized -> "queued"
                  [] OTHER -> "waiting",
     base |-> CASE k.what = "devices" -> "ended"
                [] k.what = "playback" /\ Serialized -> "queued"
                [] OTHER -> "waiting",
     broken |-> FALSE,       \* the query for markers has failed
     closed |-> k.what = "devices",  \* the producer has closed its channels
     error |-> FALSE,        \* errCh holds an error
     next |-> 0,             \* markers the producer has handed over
     hold |-> 0,             \* the marker in the hands of the summarizer, or 0
     lifted |-> 0,           \* the marker in the hands of the aggregator, or 0
     cells |-> {},           \* the winners of the cells so far
     told |-> {},            \* markers the client has received
     summarizer |-> "none",
     aggregator |-> "none",
     verdict |-> "none"]     \* how the stream ended for the client

(* The goroutines of a stream start when the handler gets to it.           *)
Started(q) ==
    [q EXCEPT !.summarizer = IF q.what \in {"map", "track"} THEN "run" ELSE "none",
              !.aggregator = IF q.what = "map" THEN "run" ELSE "none"]

Opened(k) == IF k.live THEN Asked(k) ELSE Started(Asked(k))

Init ==
    /\ engine \in Engines
    /\ \E kind \in Mixes : req = [r \in Requests |-> Opened(kind[r])]
    /\ gone = {} /\ worker = Nobody /\ expired = {} /\ faults = 0 /\ panicked = FALSE

Set(r, q) == req' = [req EXCEPT ![r] = q]

(* The context of the request: net/http ends it when the client leaves and *)
(* when the handler returns.                                               *)
RequestOver(r) == r \in gone \/ req[r].handler = "over"

(* The context of the job of a query, with the deadline of the caller.     *)
JobOver(j) ==
    LET q == req[j[1]] IN
    \/ RequestOver(j[1]) \/ j \in expired
    \/ IF j[2] = "devices" THEN q.handler # "devices" ELSE (q.what = "playback" /\ q.closed)
-----------------------------------------------------------------------------
(* Queries and connections. *)

(* The connections in use: a playback has a second one for the markers of  *)
(* a track.                                                                *)
Held ==
    {<<r, "base">> : r \in {x \in Requests : req[x].base \in {"open", "nested", "reading", "sending"}}}
    \cup {<<r, "nested">> : r \in {x \in Requests : req[x].base \in {"reading", "sending"}}}
    \cup {<<r, "devices">> : r \in {x \in Requests : req[x].devices = "open"}}

ConnectionFree == Cardinality(Held) < Connections

(* The worker of the pipeline takes a job, and skips one that is over.     *)
CanTakeJob(j) == worker = Nobody /\ req[j[1]][j[2]] = "queued"
TakeJob(j) ==
    LET q == req[j[1]] IN
    /\ CanTakeJob(j)
    /\ IF JobOver(j)
       THEN /\ Set(j[1], [q EXCEPT ![j[2]] = "ended", !.broken = @ \/ j[2] = "base"])
            /\ UNCHANGED worker
       ELSE Set(j[1], [q EXCEPT ![j[2]] = "waiting"]) /\ worker' = j
    /\ UNCHANGED <<engine, gone, expired, faults, panicked>>

(* The end of a query, which returns the worker if it was a job. *)
Ends(j, broken) ==
    LET q == req[j[1]] IN
    /\ Set(j[1], IF j[2] = "devices" THEN [q EXCEPT !.devices = "ended"]
                 ELSE IF q.what = "playback" THEN [q EXCEPT !.base = "ended", !.broken = broken]
                 ELSE [q EXCEPT !.base = "ended", !.broken = broken,
                                !.error = broken, !.closed = TRUE])
    /\ worker' = IF worker = j THEN Nobody ELSE worker
    /\ UNCHANGED <<engine, gone, expired, panicked>>

CanConnect(j) == req[j[1]][j[2]] = "waiting" /\ ConnectionFree
Connect(j) ==
    /\ CanConnect(j)
    /\ Set(j[1], [req[j[1]] EXCEPT ![j[2]] = "open"])
    /\ UNCHANGED <<engine, gone, worker, expired, faults, panicked>>

Running(j) == req[j[1]][j[2]] \in {"waiting", "open", "nested", "reading", "sending"}

(* Wherever a query is, the end of its context ends it. *)
CanCancel(j) == Running(j) /\ JobOver(j)
Cancelled(j) == CanCancel(j) /\ Ends(j, TRUE) /\ UNCHANGED faults

Fails(j) ==
    /\ Running(j) /\ req[j[1]][j[2]] # "sending"
    /\ faults < MaxFaults /\ faults' = faults + 1
    /\ Ends(j, TRUE)

(* GetLatestRealtimeByBounds reads its rows without waiting for anybody.   *)
CanReadDevices(r) == req[r].devices = "open"
DevicesRead(r) == CanReadDevices(r) /\ Ends(<<r, "devices">>, FALSE) /\ UNCHANGED faults

Last(q) == q.next = Len(CellOf)

(* The four producers of stream.go differ only in their queries: each      *)
(* hands a marker to the summarizer.                                       *)
CanProduce(r) ==
    LET q == req[r] IN
    /\ q.what # "playback" /\ q.base = "open"
    /\ ~Last(q) /\ q.summarizer = "run" /\ q.hold = 0
Produce(r) ==
    LET q == req[r] IN
    /\ CanProduce(r)
    /\ Set(r, [q EXCEPT !.next = q.next + 1, !.hold = q.next + 1])
    /\ UNCHANGED <<engine, gone, worker, expired, faults, panicked>>

CursorAtEnd(r) == req[r].base = "open" /\ Last(req[r])
CursorEnds(r) == CursorAtEnd(r) /\ Ends(<<r, "base">>, FALSE) /\ UNCHANGED faults

(* StreamMarkersByZoomBoundsSpeedOrderedByTrackDate: the cursor over the   *)
(* tracks stays open while those over their markers come and go.  A row    *)
(* may still come out of a cursor whose context has just ended.            *)
PlaybackAt(r, from) == req[r].what = "playback" /\ req[r].base = from
PlaybackGoes(r, from, to) ==
    /\ PlaybackAt(r, from)
    /\ Set(r, [req[r] EXCEPT !.base = to])
    /\ UNCHANGED <<engine, gone, worker, expired, faults, panicked>>

CanOpenTrack(r) == PlaybackAt(r, "open") /\ ~Last(req[r])
NextTrack(r) == CanOpenTrack(r) /\ PlaybackGoes(r, "open", "nested")

CanSeeFirstRow(r) == PlaybackAt(r, "nested") /\ ConnectionFree
FirstRow(r) == CanSeeFirstRow(r) /\ PlaybackGoes(r, "nested", "sending")

NextRow(r) ==
    LET q == req[r] IN
    /\ PlaybackAt(r, "reading")
    /\ IF ~Last(q) /\ TrackOf[q.next + 1] = TrackOf[q.next]
       THEN PlaybackGoes(r, "reading", "sending")
       ELSE PlaybackGoes(r, "reading", "open")

(* Its goroutine returns, with the answer of the job or, also while the    *)
(* job goes on, because its context is over, and closes both channels.     *)
CanReturnPlayback(r) ==
    /\ req[r].what = "playback" /\ ~req[r].closed
    /\ req[r].base = "ended" \/ (Serialized /\ JobOver(<<r, "base">>))
PlaybackReturns(r) ==
    LET q == req[r] IN
    /\ CanReturnPlayback(r)
    /\ \/ q.base = "ended" /\ Set(r, [q EXCEPT !.closed = TRUE, !.error = q.broken])
       \/ Serialized /\ JobOver(<<r, "base">>) /\ Set(r, [q EXCEPT !.closed = TRUE, !.error = TRUE])
    /\ UNCHANGED <<engine, gone, worker, expired, faults, panicked>>

(* The select of a job that has a row in hand may choose to send it also   *)
(* when the channel is closed, and nobody recovers.                        *)
SendsOnClosed(r) == PlaybackAt(r, "sending") /\ req[r].closed
SendOnClosed(r) ==
    /\ SendsOnClosed(r) /\ panicked' = TRUE
    /\ UNCHANGED <<engine, req, gone, worker, expired, faults>>
-----------------------------------------------------------------------------
(* summarizeMarkerStream and aggregateMarkers. *)

Stage(r, q) ==
    Set(r, q) /\ UNCHANGED <<engine, gone, worker, expired, faults, panicked>>

SummarizerDone(r) ==
    LET q == req[r] IN
    q.summarizer = "run" /\ (RequestOver(r) \/ (q.closed /\ q.hold = 0))
SummarizerEnds(r) == SummarizerDone(r) /\ Stage(r, [req[r] EXCEPT !.summarizer = "over", !.hold = 0])

Wins(q, m) == \A c \in q.cells : CellOf[c] = CellOf[m] => Rank[m] < Rank[c]

CanAggregate(r) == req[r].aggregator = "run" /\ req[r].hold # 0 /\ req[r].lifted = 0

(* Faulty variant: a winner is sent and not remembered. *)
WinnerForgotten(r) ==
    LET q == req[r] IN
    /\ CanAggregate(r)
    /\ Stage(r, [q EXCEPT !.hold = 0, !.lifted = IF Wins(q, q.hold) THEN q.hold ELSE 0])

(* emit: the strongest marker of a cell so far is sent on, others are not. *)
Aggregate(r) ==
    LET q == req[r] IN
    /\ CanAggregate(r)
    /\ Stage(r, IF Wins(q, q.hold)
                THEN [q EXCEPT !.hold = 0, !.lifted = q.hold,
                               !.cells = {c \in @ : CellOf[c] # CellOf[q.hold]} \cup {q.hold}]
                ELSE [q EXCEPT !.hold = 0])

AggregatorDone(r) ==
    LET q == req[r] IN
    /\ q.aggregator = "run"
    /\ RequestOver(r) \/ (q.summarizer = "over" /\ q.hold = 0 /\ q.lifted = 0)
AggregatorEnds(r) == AggregatorDone(r) /\ Stage(r, [req[r] EXCEPT !.aggregator = "over", !.lifted = 0])
-----------------------------------------------------------------------------
(* The handlers. *)

Told(r, verdict) ==
    Stage(r, [req[r] EXCEPT !.handler = "over", !.verdict = IF r \in gone THEN "none" ELSE verdict])

(* GetLatestRealtimeByBounds returns, with or without devices. *)
DevicesDone(r) ==
    /\ req[r].handler = "devices"
    /\ req[r].devices = "ended" \/ (Serialized /\ JobOver(<<r, "devices">>))
DevicesReturn(r) ==
    LET q == req[r] IN
    /\ DevicesDone(r)
    /\ IF q.what = "devices" THEN Told(r, "end")
       ELSE Stage(r, [Started(q) EXCEPT !.handler = "stream"])

(* The marker that the channel of the handler offers, or 0. *)
Offered(q) ==
    CASE q.what = "map" -> q.lifted
      [] q.what = "track" -> q.hold
      [] OTHER -> IF q.base = "sending" /\ ~q.closed THEN q.next + 1 ELSE 0

SourceClosed(q) ==
    CASE q.what = "map" -> q.aggregator = "over"
      [] q.what = "track" -> q.summarizer = "over"
      [] OTHER -> q.closed

(* The branches of the select, of which any that is ready may be chosen.   *)
CanForward(r) == req[r].handler = "stream" /\ Offered(req[r]) # 0
Forward(r) ==
    LET q == req[r] IN
    /\ CanForward(r)
    /\ LET s == [q EXCEPT !.told = @ \cup IF r \in gone THEN {} ELSE {Offered(q)}] IN
       Stage(r, CASE q.what = "map" -> [s EXCEPT !.lifted = 0]
                  [] q.what = "track" -> [s EXCEPT !.hold = 0]
                  [] OTHER -> [s EXCEPT !.base = "reading", !.next = q.next + 1])

HearsError(r) == req[r].handler = "stream" /\ req[r].error
StreamBroken(r) ==
    /\ HearsError(r)
    /\ Told(r, IF req[r].what = "playback" THEN "eof" ELSE "error")

HearsEnd(r) == req[r].handler = "stream" /\ SourceClosed(req[r])
StreamOver(r) ==
    /\ HearsEnd(r)
    /\ Told(r, IF req[r].what = "playback" THEN "eof" ELSE "end")

HearsGone(r) == req[r].handler = "stream" /\ r \in gone
ClientGone(r) == HearsGone(r) /\ Told(r, "none")
-----------------------------------------------------------------------------
Leave(r) ==
    /\ req[r].handler # "over" /\ r \notin gone
    /\ gone' = gone \cup {r}
    /\ UNCHANGED <<engine, req, worker, expired, faults, panicked>>

(* The 45 seconds of a query that its caller still waits for.              *)
Deadline(j) ==
    /\ j \notin expired
    /\ IF j[2] = "devices" THEN req[j[1]].handler = "devices"
       ELSE req[j[1]].what = "playback" /\ ~req[j[1]].closed
    /\ expired' = expired \cup {j}
    /\ UNCHANGED <<engine, req, gone, worker, faults, panicked>>

(* What the program does of its own accord. *)
Progress ==
    /\ ~panicked
    /\ \/ \E j \in Jobs : TakeJob(j) \/ Connect(j) \/ Cancelled(j)
       \/ \E r \in Requests :
            \/ DevicesRead(r) \/ Produce(r) \/ CursorEnds(r)
            \/ NextTrack(r) \/ FirstRow(r) \/ NextRow(r) \/ PlaybackReturns(r) \/ SendOnClosed(r)
            \/ SummarizerEnds(r) \/ Aggregate(r) \/ AggregatorEnds(r)
            \/ DevicesReturn(r) \/ Forward(r) \/ StreamBroken(r) \/ StreamOver(r) \/ ClientGone(r)

(* Some step of Progress can be taken: each is its guard and the values it *)
(* gives to all variables.                                                 *)
CanGoOn ==
    \/ \E j \in Jobs : CanTakeJob(j) \/ CanConnect(j) \/ CanCancel(j)
    \/ \E r \in Requests :
         \/ CanReadDevices(r) \/ CanProduce(r) \/ CursorAtEnd(r)
         \/ CanOpenTrack(r) \/ CanSeeFirstRow(r) \/ PlaybackAt(r, "reading")
         \/ CanReturnPlayback(r) \/ SendsOnClosed(r)
         \/ SummarizerDone(r) \/ CanAggregate(r) \/ AggregatorDone(r)
         \/ DevicesDone(r) \/ CanForward(r) \/ HearsError(r) \/ HearsEnd(r) \/ HearsGone(r)

Next ==
    \/ Progress
    \/ ~panicked /\ \E j \in Jobs : Fails(j) \/ Deadline(j)
    \/ ~panicked /\ \E r \in Requests : Leave(r)

Spec == Init /\ [][Next]_vars
-----------------------------------------------------------------------------
(* The marker that a client shows for a cell is the last it got for it. *)
Shows(q, c) == Max({0} \cup {m \in q.told : CellOf[m] = c})

Strongest(c) ==
    CHOOSE m \in DOMAIN CellOf : CellOf[m] = c /\ \A n \in DOMAIN CellOf : CellOf[n] = c => Rank[m] <= Rank[n]

(* A client whose stream came to its end, and whose query did not fail,    *)
(* has everything it asked for: the strongest marker of each cell of the   *)
(* map, and each marker of a track or of a playback (aggregateMarkers).    *)
EndedIsComplete ==
    \A r \in Requests :
        LET q == req[r] IN
        q.verdict \in {"end", "eof"} /\ ~q.broken /\ ~q.error =>
            CASE q.what = "map" -> \A c \in {CellOf[m] : m \in DOMAIN CellOf} : Shows(q, c) = Strongest(c)
              [] q.what = "devices" -> TRUE
              [] OTHER -> q.told = DOMAIN CellOf

Finished(r) ==
    LET q == req[r] IN
    /\ q.handler = "over" /\ q.closed
    /\ q.base = "ended" /\ q.devices \in {"none", "ended"}
    /\ q.summarizer # "run" /\ q.aggregator # "run"

(* Requests never wait for each other, or one for itself, until a deadline *)
(* frees them, and no goroutine of a request is left behind: as long as    *)
(* there is any, some can go on ("so playback can start once the first     *)
(* track buffer is ready", chicha-isotope-map.go:7256).                    *)
NobodyStuck == panicked \/ (\A r \in Requests : Finished(r)) \/ CanGoOn

(* The channels of a playback are open as long as the job that sends into  *)
(* them: "cancellation is delivered through the owned stream channels"     *)
(* (pkg/database/database.go:3931).                                        *)
NoSendOnClosed == ~panicked
=============================================================================
