------------------------------ MODULE MarkerPaths ------------------------------
(***************************************************************************)
(* The ways of markers, from a file to the browser: the speeds they get in *)
(* memory; uploads and archives that fill the table of one site; the live  *)
(* devices whose history becomes tracks; a site on PostgreSQL whose        *)
(* database comes from an older version and is rebuilt while tracks come   *)
(* in, and one whose registry is filled meanwhile and read by listings and *)
(* archives; and the streams in which any site sends what it has.  They    *)
(* are parts of different sites, or read a table that stands still, and so *)
(* share no state: one of them moves while the others stand.               *)
(***************************************************************************)
EXTENDS ZoomRebuild, Sequences

CONSTANTS
    UploadEngine, Uploads, UploadKind, UploadFile, UploadOwn,
    Shapes, Unit, MaxSpeed,
    Requests, Mixes, Engines, StreamCell, StreamTrack, StreamRank, StreamFaults, Nobody,
    Devices, Mobile, Promotions, Transactional, Replacing, MaxReadings, MaxCrashes,
    Listable, ListLegacy, Dated, PageSize, ListFaults

VARIABLES
    moving,     \* the part that moves
    rows, tracks, uploadStep, uploadTrack, uploadBatch, uploadFaults, uploadEarlier,
    shape, speed, pass, i, last,
    engine, req, gone, worker, expired, streamFaults, panicked,
    served, live, recent, promoted, poller, poll, visits, carried, gathering, crashes,
    listStored, listRegistry, filled, backfill, reader, at, page, listed, since, listFaults

Uploading == INSTANCE TrackImport
    WITH Engine <- UploadEngine, Imports <- Uploads, Kind <- UploadKind,
         File <- UploadFile, Own <- UploadOwn,
         markers <- rows, registry <- tracks, step <- uploadStep, track <- uploadTrack,
         batch <- uploadBatch, faults <- uploadFaults, earlier <- uploadEarlier
Speeds == INSTANCE TrackSpeeds WITH Tracks <- Shapes, markers <- shape, phase <- pass
Streams == INSTANCE MarkerStreams
    WITH CellOf <- StreamCell, TrackOf <- StreamTrack, Rank <- StreamRank,
         MaxFaults <- StreamFaults, faults <- streamFaults
Realtime == INSTANCE RealtimeHistory
    WITH Runs <- Promotions, markers <- promoted, batch <- poll, todo <- visits, held <- carried
Catalogue == INSTANCE TrackCatalogue
    WITH Tracks <- Listable, Legacy <- ListLegacy, MaxFaults <- ListFaults,
         stored <- listStored, registry <- listRegistry, status <- filled,
         rows <- page, faults <- listFaults

ASSUME PathsAssumption ==
    /\ UploadEngine \in {"pgx", "sqlite", "duckdb"}
    /\ UploadKind \in [Uploads -> {"upload", "export", "fixed"}]
    /\ UploadFile \in [Uploads -> SUBSET Points]
    /\ UploadOwn \in [Uploads -> Tracks]
    /\ Speeds!Assumption /\ Streams!Assumption /\ Realtime!Assumption /\ Catalogue!Assumption

uploadVars == <<rows, tracks, uploadStep, uploadTrack, uploadBatch, uploadFaults, uploadEarlier>>
speedVars == <<shape, speed, pass, i, last>>
streamVars == <<engine, req, gone, worker, expired, streamFaults, panicked>>
realtimeVars == <<served, live, recent, promoted, poller, poll, visits, carried, gathering, crashes>>
catalogueVars == <<listStored, listRegistry, filled, backfill, reader, at, page, listed, since,
                   listFaults>>
pathVars ==
    <<moving, allVars, uploadVars, speedVars, streamVars, realtimeVars, catalogueVars>>

(* Only the part that moves has more than one initial state. *)
PathsInit ==
    /\ moving \in {"rebuild", "uploads", "speeds", "streams", "realtime", "catalogue"}
    /\ RebuildInit /\ Uploading!Init /\ Speeds!Init /\ Streams!Init
    /\ Realtime!Init /\ Catalogue!Init
    /\ moving # "speeds" => shape = <<>>
    /\ moving # "streams" =>
         /\ engine = CHOOSE e \in Engines : TRUE
         /\ LET m == CHOOSE m \in Mixes : TRUE IN \A r \in Requests : req[r].asked = m[r]

MoveRebuild ==
    /\ moving = "rebuild" /\ RebuildNext
    /\ UNCHANGED <<moving, uploadVars, speedVars, streamVars, realtimeVars, catalogueVars>>

MoveUploads ==
    /\ moving = "uploads" /\ Uploading!Next
    /\ UNCHANGED <<moving, allVars, speedVars, streamVars, realtimeVars, catalogueVars>>

MoveSpeeds ==
    /\ moving = "speeds" /\ Speeds!Next
    /\ UNCHANGED <<moving, allVars, uploadVars, streamVars, realtimeVars, catalogueVars>>

MoveStreams ==
    /\ moving = "streams" /\ Streams!Next
    /\ UNCHANGED <<moving, allVars, uploadVars, speedVars, realtimeVars, catalogueVars>>

MoveRealtime ==
    /\ moving = "realtime" /\ Realtime!Next
    /\ UNCHANGED <<moving, allVars, uploadVars, speedVars, streamVars, catalogueVars>>

MoveCatalogue ==
    /\ moving = "catalogue" /\ Catalogue!Next
    /\ UNCHANGED <<moving, allVars, uploadVars, speedVars, streamVars, realtimeVars>>

PathsNext ==
    \/ MoveRebuild \/ MoveUploads \/ MoveSpeeds
    \/ MoveStreams \/ MoveRealtime \/ MoveCatalogue

PathsSpec == PathsInit /\ [][PathsNext]_pathVars
-----------------------------------------------------------------------------
(* A part that stands still is in its initial state; its properties are    *)
(* asked of it where it moves.                                             *)

(* What an import reports as stored is in the table, also when rows of two *)
(* imports into one track collide chunk by chunk.                          *)
UploadsStored == moving = "uploads" => Uploading!FinishedIsStored

(* Once no import to a track is under way or was broken off, the map shows *)
(* its peaks at every zoom, also when several files were merged into it.   *)
UploadsShowPeaks == moving = "uploads" => Uploading!SettledPeaksShown

(* A file that was stored before opens no second track. *)
UploadsReuse == moving = "uploads" => Uploading!ReuploadReuses

(* The loop in place computes for every point what its nearest neighbours  *)
(* with a speed of their own imply: nothing that was filled in is borrowed *)
(* again.                                                                  *)
NeighboursDecide == moving = "speeds" => Speeds!NeighboursDecide

(* A client whose stream came to its end, and whose query did not fail,    *)
(* has the strongest marker of each cell of the map, or each marker of its *)
(* track or playback.                                                      *)
EndedIsComplete == moving = "streams" => Streams!EndedIsComplete

(* With the connections of SQLite or PostgreSQL requests do not wait for   *)
(* each other until a deadline frees them, and none leaves a goroutine or  *)
(* a connection behind.                                                    *)
NobodyStuck == moving = "streams" => Streams!NobodyStuck

(* A live row disappears only by becoming a marker, or because it was      *)
(* written after a promotion had read the history of its device.           *)
NothingVanishes == Realtime!NothingVanishes

(* What the registry's backfill records is so: after it nothing with       *)
(* markers is missing there, although imports run meanwhile.               *)
BackfillHonest == moving = "catalogue" => Catalogue!BackfillHonest

(* Over a complete registry no two tracks of an archive get one number,    *)
(* although imports shift the numbers between its pages.                   *)
NumbersRise == moving = "catalogue" => Catalogue!NumbersRise

(* An archive has every track once that had markers when it began.         *)
ArchiveWhole == moving = "catalogue" => Catalogue!ArchiveWhole
=============================================================================
