------------------------------ MODULE TrackImport ------------------------------
(***************************************************************************)
(* Storing a track: processAndStoreMarkersWithContextOptions and           *)
(* processTrackExportReader in chicha-isotope-map.go, with the functions   *)
(* of pkg/database they call.  A file is probed against the markers table  *)
(* to find the track it may already belong to; its track is entered in the *)
(* registry; then its points are inserted together with one aggregate per  *)
(* zoom level and map cell, the point with the highest dose rate there.    *)
(* Imports run side by side and none of them is atomic, except that        *)
(* PostgreSQL inserts all rows in one transaction.                         *)
(*                                                                         *)
(* A point stands for its identity (place, time, dose rate), which names   *)
(* it in the unique key, and is the number of its dose rate: markerDose-   *)
(* Winner orders points totally.  Probe samples cover the whole file.      *)
(***************************************************************************)
EXTENDS Integers, FiniteSetsExt

CONSTANTS
    Engine,     \* "pgx", "sqlite" (Chai is the same) or "duckdb"
    Imports,    \* calls of the import pipeline
    Kind,       \* Kind[i]: "upload", "export" (a .cim/.json of an archive) or "fixed"
    File,       \* File[i]: the points of the file
    Own,        \* Own[i]: the track ID in the file or generated for it
    Tracks,     \* the track IDs, in their order
    Points,
    Invalid,    \* the points filterZeroMarkers and filterInvalidDateMarkers drop
    Zooms,      \* the zoom levels: 1..20 in the source
    CellOf,     \* CellOf[z][p]: the map cell of point p at zoom z
    Threshold,  \* rows that make a track the same one: 10 in the source
    ChunkSize,  \* rows of one INSERT: 1000 in the source, 256 on DuckDB
    MaxFaults   \* bound on failures and crashes

ASSUME EngineAssumption == Engine \in {"pgx", "sqlite", "duckdb"}
ASSUME DataAssumption ==
    /\ Points \subseteq Nat /\ IsFiniteSet(Points) /\ Invalid \subseteq Points
    /\ Zooms \subseteq Nat \ {0} /\ IsFiniteSet(Zooms)
    /\ Tracks \subseteq Nat \ {0}
ASSUME FilesAssumption ==
    /\ Kind \in [Imports -> {"upload", "export", "fixed"}]
    /\ File \in [Imports -> SUBSET Points]
    /\ Own \in [Imports -> Tracks]
ASSUME LimitsAssumption == {Threshold, ChunkSize} \subseteq Nat \ {0} /\ MaxFaults \in Nat

VARIABLES
    markers,    \* the markers table
    registry,   \* the tracks table
    step,       \* step[i]: where import i is
    track,      \* track[i]: the track it stores to
    batch,      \* batch[i]: the rows it has still to insert
    faults,
    earlier     \* history: the imports that had finished when i was probed

tables == <<markers, registry>>
vars == <<markers, registry, step, track, batch, faults, earlier>>

(* A row's id is written as the unique key of the row that it was          *)
(* generated for; a raw point has zoom 0.                                  *)
Keys == Tracks \X Points \X ({0} \cup Zooms)
Rows == [track : Tracks, point : Points, zoom : {0} \cup Zooms, id : Keys]

Key(r) == <<r.track, r.point, r.zoom>>
Row(t, p, z) == [track |-> t, point |-> p, zoom |-> z, id |-> <<t, p, z>>]

Raws(t) == {m \in markers : m.track = t /\ m.zoom = 0}
RawPoints(t) == {m.point : m \in Raws(t)}

(* fastMergeMarkersByZoom: the points of ps that stand for their cells. *)
Winners(ps, z) == {p \in ps : \A q \in ps : CellOf[z][q] = CellOf[z][p] => q <= p}

(* The row that stands in for r at zoom z: a copy with r's id. *)
AtZoom(r, z) == [r EXCEPT !.zoom = z]

(* Faulty variant: an aggregate is taken from any point of its cell. *)
AggregatesOfLowest(rows) ==
    UNION {{AtZoom(r, z) : r \in {s \in rows : \A q \in rows :
        CellOf[z][q.point] = CellOf[z][s.point] => s.point <= q.point}} : z \in Zooms}

(* precomputeMarkersForAllZoomLevels *)
Aggregates(rows) ==
    UNION {{AtZoom(r, z) : r \in {s \in rows : s.point \in Winners({q.point : q \in rows}, z)}}
           : z \in Zooms}

(* Rows without an id get one from the sequence. *)
WithFreshIds(rows) == {Row(r.track, r.point, r.zoom) : r \in rows}

(* Faulty variant: a row that conflicts takes its whole statement with it. *)
AdmittedTogether(rows) ==
    IF \E r \in rows, m \in markers : Key(m) = Key(r) THEN {} ELSE WithFreshIds(rows)

(* What one INSERT ... ON CONFLICT DO NOTHING adds to the table.  On pgx   *)
(* the table generates the ids, elsewhere the row brings its own.          *)
Admitted(rows) ==
    IF Engine = "pgx"
    THEN {r \in WithFreshIds(rows) : \A m \in markers : Key(m) # Key(r)}
    ELSE {r \in rows : /\ \A m \in markers : Key(m) # Key(r) /\ m.id # r.id
                       /\ \A q \in rows : q.id = r.id => r.zoom <= q.zoom}

(* The next INSERT of InsertMarkersBulk, of what is left to insert: the    *)
(* raw points are at the front, and DuckDB sorts by the dose rate.         *)
Chunk(rows) ==
    IF Engine = "pgx"
    THEN {rows}
    ELSE {c \in kSubset(Min({ChunkSize, Cardinality(rows)}), rows) :
            \A r \in c, s \in rows \ c :
                IF Engine = "duckdb" THEN r.point <= s.point ELSE s.zoom = 0 => r.zoom = 0}

(* DetectExistingTrackID counts rows of every zoom level. *)
Hits(t, points) == Cardinality({m \in markers : m.track = t /\ m.point \in points})

(* Faulty variant: the threshold itself is not enough. *)
ExistingAbove(points, threshold) == {t \in Tracks : Hits(t, points) > threshold}

Existing(points, threshold) == {t \in Tracks : Hits(t, points) >= threshold}

Valid(i) == File[i] \ Invalid

Fault == faults < MaxFaults /\ faults' = faults + 1
Active(i) == step[i] \in {"checking", "probing", "registering", "storing"}
-----------------------------------------------------------------------------
ImportsInit ==
    /\ step = [i \in Imports |-> CASE Kind[i] = "export" -> "checking"
                                   [] Kind[i] = "upload" -> "probing"
                                   [] Kind[i] = "fixed" -> "registering"]
    /\ track = Own
    /\ batch = [i \in Imports |-> {}]
    /\ faults = 0
    /\ earlier = [i \in Imports |-> {}]

Init == markers = {} /\ registry = {} /\ ImportsInit

(* An entry of an archive that the table seems to hold is left out. *)
Check(i) ==
    /\ step[i] = "checking"
    /\ LET least == Min({Threshold, Cardinality(File[i])})
       IN  step' = [step EXCEPT ![i] = IF Existing(File[i], least) # {} THEN "skipped"
                                                                       ELSE "probing"]
    /\ UNCHANGED <<tables, track, batch, faults, earlier>>

Probe(i) ==
    /\ step[i] = "probing"
    /\ \E t \in (IF Existing(File[i], Threshold) = {} THEN {Own[i]}
                                                      ELSE Existing(File[i], Threshold)) :
          track' = [track EXCEPT ![i] = t]
    /\ step' = [step EXCEPT ![i] = "registering"]
    /\ earlier' = [earlier EXCEPT ![i] = {j \in Imports : step[j] = "finished"}]
    /\ UNCHANGED <<tables, batch, faults>>

(* Faulty variant: the registry is left to the backfill. *)
RegisterLater(i) ==
    /\ step[i] = "registering"
    /\ Valid(i) # {}
    /\ LET rows == {Row(track[i], p, 0) : p \in Valid(i)}
       IN  batch' = [batch EXCEPT ![i] = rows \cup WithFreshIds(Aggregates(rows))]
    /\ step' = [step EXCEPT ![i] = "storing"]
    /\ UNCHANGED <<tables, track, faults, earlier>>

(* EnsureTrackPresence, after the filters and before the first marker. *)
Register(i) ==
    /\ step[i] = "registering"
    /\ Valid(i) # {}
    /\ registry' = registry \cup {track[i]}
    /\ LET rows == {Row(track[i], p, 0) : p \in Valid(i)}
       IN  batch' = [batch EXCEPT ![i] = rows \cup WithFreshIds(Aggregates(rows))]
    /\ step' = [step EXCEPT ![i] = "storing"]
    /\ UNCHANGED <<markers, track, faults, earlier>>

(* "all markers filtered out" *)
Reject(i) ==
    /\ step[i] = "registering"
    /\ Valid(i) = {}
    /\ step' = [step EXCEPT ![i] = "rejected"]
    /\ UNCHANGED <<tables, track, batch, faults, earlier>>

Store(i) ==
    /\ step[i] = "storing"
    /\ \E c \in Chunk(batch[i]) :
          /\ markers' = markers \cup Admitted(c)
          /\ batch' = [batch EXCEPT ![i] = @ \ c]
          /\ step' = IF batch[i] = c THEN [step EXCEPT ![i] = "finished"] ELSE step
    /\ UNCHANGED <<registry, track, faults, earlier>>

(* A statement fails or the caller's context ends; a transaction is        *)
(* rolled back, inserted chunks stay.                                      *)
Fail(i) ==
    /\ Active(i)
    /\ step' = [step EXCEPT ![i] = "failed"]
    /\ batch' = [batch EXCEPT ![i] = {}]
    /\ Fault
    /\ UNCHANGED <<tables, track, earlier>>

(* The process dies and is started again. *)
Crash ==
    /\ step' = [i \in Imports |-> IF Active(i) THEN "failed" ELSE step[i]]
    /\ batch' = [i \in Imports |-> {}]
    /\ Fault
    /\ UNCHANGED <<tables, track, earlier>>

Import(i) == Check(i) \/ Probe(i) \/ Register(i) \/ Reject(i) \/ Store(i) \/ Fail(i)

Next == (\E i \in Imports : Import(i)) \/ Crash

Spec == Init /\ [][Next]_vars
-----------------------------------------------------------------------------
Stored == {m.track : m \in markers}

TypeOK ==
    /\ markers \subseteq Rows
    /\ registry \subseteq Tracks
    /\ step \in [Imports -> {"checking", "probing", "registering", "storing",
                             "finished", "failed", "skipped", "rejected"}]
    /\ track \in [Imports -> Tracks]
    /\ batch \in [Imports -> SUBSET Rows]
    /\ faults \in 0..MaxFaults
    /\ earlier \in [Imports -> SUBSET Imports]

(* No failure or crash leaves markers whose track the registry, and with   *)
(* it the whole API, does not know.                                        *)
MarkersRegistered == \A m \in markers : m.track \in registry

(* Every cell of the map shows a point of track t at least as hot as every *)
(* raw point of t in it: aggregation hides no local peak.                  *)
PeaksShown(t) ==
    \A r \in Raws(t), z \in Zooms :
        \E a \in markers : /\ a.track = t /\ a.zoom = z
                           /\ CellOf[z][a.point] = CellOf[z][r.point]
                           /\ a.point >= r.point

(* Once no import to a track is under way or was broken off, its peaks are *)
(* shown, also when several files were merged into it.                     *)
SettledPeaksShown ==
    \A t \in Tracks :
        (\A i \in Imports : track[i] = t => step[i] \notin {"storing", "failed"}) => PeaksShown(t)

(* What an import reports as stored is in the table. *)
FinishedIsStored ==
    \A i \in Imports : step[i] = "finished" => Valid(i) \subseteq RawPoints(track[i])

(* A file that was stored before opens no second track. *)
ReuploadReuses ==
    \A i \in Imports :
        (\E j \in earlier[i] : File[j] = File[i] /\ track[j] # Own[i])
            => track[i] # Own[i] /\ Raws(Own[i]) = {}
=============================================================================
