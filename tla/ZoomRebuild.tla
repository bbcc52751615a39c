------------------------------ MODULE ZoomRebuild ------------------------------
(***************************************************************************)
(* rebuildMarkerZoomAggregates (chicha-isotope-map.go) beside the imports  *)
(* of TrackImport: at every start of the process, until a run gets through *)
(* and is recorded as done, each track's aggregates are deleted and made   *)
(* again from its raw points.  Reading, deleting and inserting are three   *)
(* statements; imports and crashes come between them.                      *)
(*                                                                         *)
(* The table starts with what an older version stored: raw points with     *)
(* aggregates that hide the peaks, and tracks that have aggregates only.   *)
(***************************************************************************)
EXTENDS TrackImport

CONSTANTS
    Legacy,     \* Legacy[t]: the raw points of the tracks of the older version
    Bare        \* Bare[t]: the aggregated points of tracks that never had raw ones

ASSUME LegacyAssumption ==
    /\ Legacy \in [Tracks -> SUBSET Points]
    /\ Bare \in [Tracks -> SUBSET Points]

VARIABLES
    status,     \* the row of maintenance_state, "none" without one
    phase,      \* where the rebuild is
    todo,       \* summaries: the tracks still to come
    current,    \* the track it works on, 0 for none
    pending     \* aggregates: the rows to insert

rebuildVars == <<status, phase, todo, current, pending>>
importVars == <<registry, step, track, batch, earlier>>
allVars == <<vars, rebuildVars>>

(* The rows of the older version: the coolest point stands for a cell. *)
OldRows(t) ==
    LET coolest(z) == {p \in Legacy[t] : \A q \in Legacy[t] : CellOf[z][q] = CellOf[z][p] => p <= q}
    IN  {Row(t, p, 0) : p \in Legacy[t]} \cup UNION {{Row(t, p, z) : p \in coolest(z)} : z \in Zooms}

BareRows(t) == {Row(t, p, z) : p \in Bare[t], z \in Zooms}

NoRebuild == UNCHANGED rebuildVars
-----------------------------------------------------------------------------
RebuildInit ==
    /\ markers = UNION {OldRows(t) \cup BareRows(t) : t \in Tracks}
    /\ registry = Stored
    /\ ImportsInit
    /\ status = "none" /\ phase = "starting"
    /\ todo = {} /\ current = 0 /\ pending = {}

(* The state is read and set to "running"; the rebuild goes on without it. *)
Start ==
    /\ phase = "starting"
    /\ phase' = IF status = "done" THEN "over" ELSE "listing"
    /\ status' = IF status = "done" THEN status ELSE "running"
    /\ UNCHANGED <<vars, todo, current, pending>>

StartBlindly ==
    /\ phase = "starting"
    /\ phase' = "listing"
    /\ status' \in {status, "running"}
    /\ Fault
    /\ UNCHANGED <<markers, importVars, todo, current, pending>>

List ==
    /\ phase = "listing"
    /\ todo' = Stored
    /\ phase' = "reading"
    /\ UNCHANGED <<vars, status, current, pending>>

(* Faulty variant: a track without raw points is deleted like the others. *)
ReadAnyTrack ==
    /\ phase = "reading" /\ todo # {}
    /\ todo' = todo \ {Min(todo)}
    /\ current' = Min(todo) /\ phase' = "deleting"
    /\ pending' = Aggregates(Raws(Min(todo)))
    /\ UNCHANGED <<vars, status>>

(* loadRawMarkersForZoomRebuild; a track without raw points is passed over. *)
Read ==
    /\ phase = "reading" /\ todo # {}
    /\ todo' = todo \ {Min(todo)}
    /\ IF Raws(Min(todo)) = {}
       THEN UNCHANGED <<current, phase, pending>>
       ELSE /\ current' = Min(todo) /\ phase' = "deleting"
            /\ pending' = Aggregates(Raws(Min(todo)))
    /\ UNCHANGED <<vars, status>>

(* DeleteTrackZoomAggregates *)
Delete ==
    /\ phase = "deleting"
    /\ markers' = {m \in markers : m.track = current => m.zoom = 0}
    /\ phase' = "inserting"
    /\ UNCHANGED <<importVars, faults, status, todo, current, pending>>

(* COPY in one transaction, or without COPY chunk by chunk. *)
PendingChunk ==
    IF Engine = "pgx"
    THEN {pending} \cup kSubset(Min({ChunkSize, Cardinality(pending)}), pending)
    ELSE Chunk(pending)

Insert ==
    /\ phase = "inserting"
    /\ \E c \in PendingChunk :
          /\ markers' = markers \cup Admitted(c)
          /\ pending' = pending \ c
          /\ phase' = IF pending = c THEN "reading" ELSE phase
          /\ current' = IF pending = c THEN 0 ELSE current
    /\ UNCHANGED <<importVars, faults, status, todo>>

Complete ==
    /\ phase = "reading" /\ todo = {}
    /\ phase' = "over"
    /\ \/ status' = "done" /\ UNCHANGED faults
       \/ UNCHANGED status /\ Fault
    /\ UNCHANGED <<markers, importVars, todo, current, pending>>

Stop == phase' = "over" /\ todo' = {} /\ current' = 0 /\ pending' = {}

(* Faulty variant: the track that fails is left out. *)
GiveUpTrack ==
    /\ phase \in {"listing", "reading", "deleting", "inserting"}
    /\ phase' = "reading" /\ current' = 0 /\ pending' = {}
    /\ UNCHANGED <<status, todo>>
    /\ Fault
    /\ UNCHANGED <<markers, importVars>>

(* A statement fails, or main cancels the context: then even "failed" may  *)
(* not get recorded.                                                       *)
GiveUp ==
    /\ phase \in {"listing", "reading", "deleting", "inserting"}
    /\ Stop
    /\ status' \in {"failed", status}
    /\ Fault
    /\ UNCHANGED <<markers, importVars>>

Restart ==
    /\ Crash
    /\ phase' = "starting" /\ todo' = {} /\ current' = 0 /\ pending' = {}
    /\ UNCHANGED status

Rebuild == Start \/ List \/ Read \/ Delete \/ Insert \/ Complete

RebuildNext ==
    \/ (\E i \in Imports : Import(i)) /\ NoRebuild
    \/ Start \/ StartBlindly \/ List \/ Read \/ Delete \/ Insert
    \/ Complete \/ GiveUp \/ Restart

RebuildSpec == RebuildInit /\ [][RebuildNext]_allVars
-----------------------------------------------------------------------------
RebuildTypeOK ==
    /\ TypeOK
    /\ status \in {"none", "running", "failed", "done"}
    /\ phase \in {"starting", "listing", "reading", "deleting", "inserting", "over"}
    /\ todo \subseteq Tracks /\ current \in {0} \cup Tracks
    /\ pending \subseteq Rows
    /\ phase \in {"deleting", "inserting"} <=> current # 0

(* Once the rebuild is recorded as done, no track of the older version and *)
(* none imported since hides a peak; a track without raw points is the     *)
(* exception.  With three faults there is another: a rebuild of a database *)
(* that is recorded as done begins because the state cannot be read, is    *)
(* not recorded as running, and breaks off after a deletion.               *)
DoneShowsPeaks ==
    status = "done" /\ phase = "over" => SettledPeaksShown

(* Raw points are never lost, nor any row of a track without raw points,   *)
(* wherever the rebuild is broken off.                                     *)
SourcesKept ==
    [][\A m \in markers : m.zoom = 0 \/ Raws(m.track) = {} => m \in markers']_allVars
=============================================================================
