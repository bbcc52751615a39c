--------------------------- MODULE ZoomRebuildProofs ---------------------------
(***************************************************************************)
(* Proofs about TrackImport and ZoomRebuild, for every engine, number of   *)
(* imports, set of files, map of cells and bound on the faults: types,     *)
(* the registry covers the markers, the rebuild never loses a source, and  *)
(* on PostgreSQL it shows all peaks once it is recorded as done.           *)
(***************************************************************************)
EXTENDS ZoomRebuild, FiniteSetTheorems, TLAPS

(* The rows an import or the rebuild still holds belong to a registered    *)
(* track, and so do those in the table.                                    *)
RowsRegistered(rows) == \A r \in rows : r.track \in registry

Registered ==
    /\ RowsRegistered(markers)
    /\ \A i \in Imports : RowsRegistered(batch[i])

(* The rebuild deletes only below a track whose raw points it has read. *)
RebuildSound ==
    /\ RowsRegistered(pending)
    /\ phase \in {"deleting", "inserting"} => Raws(current) # {}

ImportInv == TypeOK /\ Registered
RebuildInv == RebuildTypeOK /\ Registered /\ RebuildSound
-----------------------------------------------------------------------------
(* Rows: copies of rows, whole tables and chunks stay well-typed and keep  *)
(* their tracks.                                                           *)
LEMMA RowTypes ==
    ASSUME NEW t \in Tracks, NEW p \in Points, NEW z \in {0} \cup Zooms
    PROVE  Row(t, p, z) \in Rows /\ Row(t, p, z).track = t
BY DEF Row, Rows, Keys

LEMMA AtZoomTypes ==
    ASSUME NEW r \in Rows, NEW z \in Zooms
    PROVE  AtZoom(r, z) \in Rows /\ AtZoom(r, z).track = r.track
BY DEF AtZoom, Rows

LEMMA AggregateRows ==
    ASSUME NEW rows \in SUBSET Rows
    PROVE  /\ Aggregates(rows) \subseteq Rows
           /\ \A a \in Aggregates(rows) : \E r \in rows : a.track = r.track
<1>1. ASSUME NEW a \in Aggregates(rows)
      PROVE  \E r \in rows : \E z \in Zooms : a = AtZoom(r, z)
  BY <1>1 DEF Aggregates
<1>2. ASSUME NEW r \in rows, NEW z \in Zooms
      PROVE  AtZoom(r, z) \in Rows /\ AtZoom(r, z).track = r.track
  <2>1. r \in Rows
    OBVIOUS
  <2> QED BY <2>1, AtZoomTypes
<1> QED BY <1>1, <1>2

LEMMA FreshRows ==
    ASSUME NEW rows \in SUBSET Rows
    PROVE  /\ WithFreshIds(rows) \subseteq Rows
           /\ \A a \in WithFreshIds(rows) : \E r \in rows : a.track = r.track
<1>1. ASSUME NEW r \in rows
      PROVE  Row(r.track, r.point, r.zoom) \in Rows
             /\ Row(r.track, r.point, r.zoom).track = r.track
  <2>1. r.track \in Tracks /\ r.point \in Points /\ r.zoom \in {0} \cup Zooms
    BY DEF Rows
  <2> QED BY <2>1, RowTypes
<1> QED BY <1>1 DEF WithFreshIds

LEMMA AdmittedRows ==
    ASSUME NEW rows \in SUBSET Rows
    PROVE  /\ Admitted(rows) \subseteq Rows
           /\ \A a \in Admitted(rows) : \E r \in rows : a.track = r.track
BY FreshRows DEF Admitted

LEMMA ChunkRows ==
    ASSUME NEW rows, NEW c \in Chunk(rows)
    PROVE  c \subseteq rows
BY DEF Chunk, kSubset

(* What Register puts in a batch. *)
LEMMA BatchRows ==
    ASSUME NEW t \in Tracks, NEW ps \in SUBSET Points
    PROVE  LET rows == {Row(t, p, 0) : p \in ps}
               all == rows \cup WithFreshIds(Aggregates(rows))
           IN  all \subseteq Rows /\ \A r \in all : r.track = t
<1> DEFINE rows == {Row(t, p, 0) : p \in ps}
<1>1. rows \subseteq Rows /\ \A r \in rows : r.track = t
  BY RowTypes
<1>2. Aggregates(rows) \subseteq Rows /\ \A r \in Aggregates(rows) : r.track = t
  BY <1>1, AggregateRows
<1>3. WithFreshIds(Aggregates(rows)) \subseteq Rows
      /\ \A r \in WithFreshIds(Aggregates(rows)) : r.track = t
  BY <1>2, FreshRows
<1> QED BY <1>1, <1>3
-----------------------------------------------------------------------------
(* TrackImport. *)
LEMMA FaultTypes ==
    ASSUME faults \in 0..MaxFaults, Fault
    PROVE  faults' \in 0..MaxFaults
BY LimitsAssumption DEF Fault

LEMMA ImportsInitInv ==
    ASSUME ImportsInit, markers \subseteq Rows, registry \subseteq Tracks,
           RowsRegistered(markers)
    PROVE  ImportInv
<1>1. step \in [Imports -> {"checking", "probing", "registering", "storing",
                            "finished", "failed", "skipped", "rejected"}]
  BY FilesAssumption DEF ImportsInit
<1>2. track \in [Imports -> Tracks] /\ batch \in [Imports -> SUBSET Rows]
      /\ earlier \in [Imports -> SUBSET Imports]
  BY FilesAssumption DEF ImportsInit
<1>3. faults \in 0..MaxFaults
  BY LimitsAssumption DEF ImportsInit
<1>4. \A i \in Imports : RowsRegistered(batch[i])
  BY DEF ImportsInit, RowsRegistered
<1> QED BY <1>1, <1>2, <1>3, <1>4 DEF ImportInv, TypeOK, Registered

LEMMA CheckInv ==
    ASSUME ImportInv, NEW i \in Imports, Check(i)
    PROVE  ImportInv'
BY DEF ImportInv, TypeOK, Registered, RowsRegistered, Check, tables

LEMMA ProbeInv ==
    ASSUME ImportInv, NEW i \in Imports, Probe(i)
    PROVE  ImportInv'
<1>1. track' \in [Imports -> Tracks]
  BY FilesAssumption DEF ImportInv, TypeOK, Probe, Existing
<1>2. step' \in [Imports -> {"checking", "probing", "registering", "storing",
                             "finished", "failed", "skipped", "rejected"}]
  BY DEF ImportInv, TypeOK, Probe
<1>3. earlier' \in [Imports -> SUBSET Imports]
  BY DEF ImportInv, TypeOK, Probe
<1> QED BY <1>1, <1>2, <1>3 DEF ImportInv, TypeOK, Registered, RowsRegistered, Probe, tables

LEMMA RegisterInv ==
    ASSUME ImportInv, NEW i \in Imports, Register(i)
    PROVE  ImportInv'
<1> DEFINE rows == {Row(track[i], p, 0) : p \in Valid(i)}
           all == rows \cup WithFreshIds(Aggregates(rows))
<1>1. track[i] \in Tracks /\ Valid(i) \subseteq Points
  BY FilesAssumption DEF ImportInv, TypeOK, Valid
<1>2. all \subseteq Rows /\ \A r \in all : r.track = track[i]
  BY <1>1, BatchRows
<1>3. batch' = [batch EXCEPT ![i] = all] /\ registry' = registry \cup {track[i]}
  BY DEF Register
<1> HIDE DEF all
<1>4. TypeOK'
  BY <1>1, <1>2, <1>3 DEF ImportInv, TypeOK, Register
<1>5. Registered'
  BY <1>2, <1>3 DEF ImportInv, TypeOK, Registered, RowsRegistered, Register
<1> QED BY <1>4, <1>5 DEF ImportInv

LEMMA RejectInv ==
    ASSUME ImportInv, NEW i \in Imports, Reject(i)
    PROVE  ImportInv'
BY DEF ImportInv, TypeOK, Registered, RowsRegistered, Reject, tables

LEMMA StoreInv ==
    ASSUME ImportInv, NEW i \in Imports, Store(i)
    PROVE  ImportInv' /\ markers \subseteq markers'
<1>1. PICK c \in Chunk(batch[i]) :
          /\ markers' = markers \cup Admitted(c)
          /\ batch' = [batch EXCEPT ![i] = @ \ c]
          /\ step' = IF batch[i] = c THEN [step EXCEPT ![i] = "finished"] ELSE step
  BY DEF Store
<1>2. c \subseteq batch[i] /\ batch[i] \subseteq Rows
  BY ChunkRows DEF ImportInv, TypeOK
<1>3. Admitted(c) \subseteq Rows /\ \A a \in Admitted(c) : \E r \in c : a.track = r.track
  BY <1>2, AdmittedRows
<1>4. TypeOK'
  BY <1>1, <1>2, <1>3 DEF ImportInv, TypeOK, Store
<1>5. Registered'
  BY <1>1, <1>2, <1>3 DEF ImportInv, TypeOK, Registered, RowsRegistered, Store
<1> QED BY <1>1, <1>4, <1>5 DEF ImportInv

LEMMA FailInv ==
    ASSUME ImportInv, NEW i \in Imports, Fail(i)
    PROVE  ImportInv'
BY FaultTypes DEF ImportInv, TypeOK, Registered, RowsRegistered, Fail, tables

LEMMA CrashInv ==
    ASSUME ImportInv, Crash
    PROVE  ImportInv'
BY FaultTypes DEF ImportInv, TypeOK, Registered, RowsRegistered, Crash, tables

(* An import leaves the rows that are there. *)
LEMMA ImportStep ==
    ASSUME ImportInv, NEW i \in Imports, Import(i)
    PROVE  ImportInv' /\ markers \subseteq markers' /\ registry \subseteq registry'
<1>1. CASE Check(i)    BY <1>1, CheckInv DEF Check, tables
<1>2. CASE Probe(i)    BY <1>2, ProbeInv DEF Probe, tables
<1>3. CASE Register(i) BY <1>3, RegisterInv DEF Register
<1>4. CASE Reject(i)   BY <1>4, RejectInv DEF Reject, tables
<1>5. CASE Store(i)    BY <1>5, StoreInv DEF Store
<1>6. CASE Fail(i)     BY <1>6, FailInv DEF Fail, tables
<1> QED BY <1>1, <1>2, <1>3, <1>4, <1>5, <1>6 DEF Import

LEMMA ImportStutter ==
    ASSUME ImportInv, UNCHANGED vars
    PROVE  ImportInv'
BY DEF ImportInv, TypeOK, Registered, RowsRegistered, vars

LEMMA ImportInvariant == Spec => []ImportInv
<1>1. Init => ImportInv
  BY ImportsInitInv DEF Init, RowsRegistered
<1>2. ImportInv /\ [Next]_vars => ImportInv'
  BY ImportStep, CrashInv, ImportStutter DEF Next
<1> QED BY <1>1, <1>2, PTL DEF Spec

(* Type correctness of the imports on every engine. *)
THEOREM ImportTypes == Spec => []TypeOK
BY ImportInvariant, PTL DEF ImportInv

(* Whatever fails, no marker's track is unknown to the registry: each      *)
(* import enters its track before its first marker.                        *)
THEOREM ImportsRegistered == Spec => []MarkersRegistered
<1>1. ImportInv => MarkersRegistered
  BY DEF ImportInv, Registered, RowsRegistered, MarkersRegistered
<1> QED BY <1>1, ImportInvariant, PTL
-----------------------------------------------------------------------------
(* ZoomRebuild. *)
LEMMA RebuildInitInv ==
    ASSUME RebuildInit
    PROVE  RebuildInv
<1>1. \A t \in Tracks : /\ OldRows(t) \subseteq Rows /\ BareRows(t) \subseteq Rows
  <2> SUFFICES ASSUME NEW t \in Tracks
               PROVE  OldRows(t) \subseteq Rows /\ BareRows(t) \subseteq Rows
    OBVIOUS
  <2>1. Legacy[t] \subseteq Points /\ Bare[t] \subseteq Points
    BY LegacyAssumption
  <2> QED BY <2>1, RowTypes DEF OldRows, BareRows
<1>2. markers \subseteq Rows
  <2>1. ASSUME NEW m \in markers
        PROVE  \E t \in Tracks : m \in OldRows(t) \/ m \in BareRows(t)
    BY <2>1 DEF RebuildInit
  <2> QED BY <2>1, <1>1
<1>3. registry \subseteq Tracks /\ RowsRegistered(markers)
  BY <1>2 DEF RebuildInit, Stored, RowsRegistered, Rows
<1>4. ImportInv
  BY <1>2, <1>3, ImportsInitInv DEF RebuildInit
<1>5. /\ current = 0 /\ phase = "starting" /\ pending = {} /\ todo = {}
      /\ status = "none"
  BY DEF RebuildInit
<1>6. RebuildTypeOK
  BY <1>4, <1>5 DEF RebuildTypeOK, ImportInv
<1>7. RebuildSound
  BY <1>5 DEF RebuildSound, RowsRegistered
<1> QED BY <1>4, <1>6, <1>7 DEF RebuildInv, ImportInv

(* More rows keep what the rebuild relies on. *)
LEMMA SoundGrows ==
    ASSUME RebuildInv, ImportInv', UNCHANGED rebuildVars,
           markers \subseteq markers', registry \subseteq registry'
    PROVE  RebuildInv'
<1>1. RebuildTypeOK'
  BY DEF RebuildInv, RebuildTypeOK, ImportInv, rebuildVars
<1>2. Raws(current) \subseteq Raws(current)' /\ current' = current
  BY DEF Raws, rebuildVars
<1>3. RowsRegistered(pending)'
  BY DEF RebuildInv, RebuildSound, RowsRegistered, rebuildVars
<1>4. RebuildSound'
  BY <1>2, <1>3 DEF RebuildInv, RebuildSound, rebuildVars
<1> QED BY <1>1, <1>4 DEF RebuildInv, ImportInv

(* Steps outside the deletion and the insertion with no rows pending. *)
LEMMA IdleInv ==
    ASSUME RebuildInv, ImportInv',
           markers' = markers, registry' = registry,
           status' \in {"none", "running", "failed", "done"},
           phase' \in {"starting", "listing", "reading", "over"},
           todo' \subseteq Tracks, current' = 0, pending' \subseteq pending
    PROVE  RebuildInv'
<1>1. RebuildTypeOK'
  BY DEF RebuildInv, RebuildTypeOK, ImportInv
<1>2. RebuildSound'
  BY DEF RebuildInv, RebuildSound, RowsRegistered
<1> QED BY <1>1, <1>2 DEF RebuildInv, ImportInv

LEMMA ImportsUntouched ==
    ASSUME ImportInv, UNCHANGED <<markers, importVars>>, faults' \in 0..MaxFaults
    PROVE  ImportInv'
BY DEF ImportInv, TypeOK, Registered, RowsRegistered, importVars

LEMMA RebuildImports == RebuildInv => ImportInv
BY DEF RebuildInv, RebuildTypeOK, ImportInv

LEMMA StartInv ==
    ASSUME RebuildInv, Start
    PROVE  RebuildInv'
<1>1. ImportInv'
  BY RebuildImports, ImportStutter DEF Start
<1>2. current = 0
  BY DEF RebuildInv, RebuildTypeOK, Start
<1> QED BY <1>1, <1>2, IdleInv DEF Start, vars, RebuildInv, RebuildTypeOK

LEMMA StartBlindlyInv ==
    ASSUME RebuildInv, StartBlindly
    PROVE  RebuildInv'
<1>1. ImportInv'
  BY RebuildImports, ImportsUntouched, FaultTypes
     DEF StartBlindly, ImportInv, TypeOK
<1>2. current = 0
  BY DEF RebuildInv, RebuildTypeOK, StartBlindly
<1> QED BY <1>1, <1>2, IdleInv DEF StartBlindly, importVars, RebuildInv, RebuildTypeOK

LEMMA ListInv ==
    ASSUME RebuildInv, List
    PROVE  RebuildInv'
<1>1. ImportInv'
  BY RebuildImports, ImportStutter DEF List
<1>2. current = 0 /\ Stored \subseteq Tracks
  BY DEF RebuildInv, RebuildTypeOK, TypeOK, List, Stored, Rows
<1> QED BY <1>1, <1>2, IdleInv DEF List, vars, RebuildInv, RebuildTypeOK

LEMMA ReadInv ==
    ASSUME RebuildInv, Read
    PROVE  RebuildInv'
<1>0. PICK t : t = Min(todo)
  OBVIOUS
<1>1. ImportInv'
  BY RebuildImports, ImportStutter DEF Read
<1>2. current = 0 /\ UNCHANGED vars /\ status' = status
  BY DEF RebuildInv, RebuildTypeOK, Read
<1>3. CASE Raws(t) = {}
  BY <1>0, <1>1, <1>2, <1>3, IdleInv DEF Read, vars, RebuildInv, RebuildTypeOK
<1>4. CASE Raws(t) # {}
  <2>1. /\ current' = t /\ phase' = "deleting" /\ pending' = Aggregates(Raws(t))
        /\ todo' = todo \ {t}
    BY <1>0, <1>4 DEF Read
  <2>2. Raws(t) \subseteq Rows /\ \A r \in Raws(t) : r.track \in registry /\ r.track = t
    BY RebuildImports DEF Raws, ImportInv, TypeOK, Registered, RowsRegistered
  <2>3. t \in Tracks /\ t # 0
    BY <1>4, <2>2, DataAssumption DEF Rows
  <2>4. Aggregates(Raws(t)) \subseteq Rows
        /\ \A a \in Aggregates(Raws(t)) : a.track \in registry
    BY <2>2, AggregateRows
  <2>5. UNCHANGED <<markers, registry, status>> /\ Raws(t)' = Raws(t)
    BY DEF Read, vars, Raws
  <2>6. RebuildTypeOK'
    BY <1>1, <2>1, <2>3, <2>4, <2>5 DEF ImportInv, RebuildInv, RebuildTypeOK
  <2>7. RowsRegistered(pending)'
    BY <2>1, <2>4, <2>5 DEF RowsRegistered
  <2>8. Raws(current)' # {}
    BY <1>4, <2>1, <2>5 DEF Raws
  <2> QED BY <1>1, <2>6, <2>7, <2>8 DEF ImportInv, RebuildInv, RebuildSound
<1> QED BY <1>3, <1>4

LEMMA DeleteInv ==
    ASSUME RebuildInv, Delete
    PROVE  RebuildInv'
<1>1. markers' \subseteq markers /\ UNCHANGED <<importVars, faults>>
  BY DEF Delete
<1>2. UNCHANGED <<status, todo, current, pending, registry, batch>>
      /\ phase = "deleting" /\ phase' = "inserting"
  BY DEF Delete, importVars
<1>3. TypeOK'
  BY <1>1 DEF RebuildInv, RebuildTypeOK, TypeOK, importVars
<1>4. Registered'
  BY <1>1, <1>2 DEF RebuildInv, Registered, RowsRegistered
<1>5. Raws(current) \subseteq Raws(current)'
  BY <1>2 DEF Delete, Raws
<1>6. RebuildTypeOK'
  BY <1>2, <1>3 DEF RebuildInv, RebuildTypeOK
<1>7. RebuildSound'
  BY <1>2, <1>5 DEF RebuildInv, RebuildSound, RowsRegistered
<1> QED BY <1>4, <1>6, <1>7 DEF RebuildInv

LEMMA PendingRows ==
    ASSUME NEW c \in PendingChunk
    PROVE  c \subseteq pending
BY ChunkRows DEF PendingChunk, kSubset

LEMMA InsertInv ==
    ASSUME RebuildInv, Insert
    PROVE  RebuildInv' /\ markers \subseteq markers'
<1>1. PICK c \in PendingChunk :
          /\ markers' = markers \cup Admitted(c)
          /\ pending' = pending \ c
          /\ phase' = IF pending = c THEN "reading" ELSE phase
          /\ current' = IF pending = c THEN 0 ELSE current
  BY DEF Insert
<1>2. c \subseteq pending /\ pending \subseteq Rows
  BY PendingRows DEF RebuildInv, RebuildTypeOK
<1>3. Admitted(c) \subseteq Rows /\ \A a \in Admitted(c) : \E r \in c : a.track = r.track
  BY <1>2, AdmittedRows
<1>4. UNCHANGED <<registry, step, track, batch, earlier, faults, status, todo>>
      /\ phase = "inserting"
  BY DEF Insert, importVars
<1>5. TypeOK'
  BY <1>1, <1>3, <1>4 DEF RebuildInv, RebuildTypeOK, TypeOK
<1>6. Registered'
  BY <1>1, <1>2, <1>3, <1>4 DEF RebuildInv, RebuildSound, Registered, RowsRegistered
<1>7. RebuildTypeOK'
  BY <1>1, <1>2, <1>4, <1>5 DEF RebuildInv, RebuildTypeOK
<1>8. RowsRegistered(pending)'
  BY <1>1, <1>4 DEF RebuildInv, RebuildSound, RowsRegistered
<1>9. \/ phase' = "reading"
      \/ current' = current /\ Raws(current) \subseteq Raws(current)'
  BY <1>1, <1>4 DEF Raws
<1>10. RebuildSound'
  BY <1>4, <1>8, <1>9 DEF RebuildInv, RebuildSound
<1> QED BY <1>1, <1>6, <1>7, <1>10 DEF RebuildInv

LEMMA CompleteInv ==
    ASSUME RebuildInv, Complete
    PROVE  RebuildInv'
<1>1. current = 0 /\ faults \in 0..MaxFaults /\ status \in {"none", "running", "failed", "done"}
      /\ todo \subseteq Tracks
  BY DEF RebuildInv, RebuildTypeOK, TypeOK, Complete
<1>2. /\ UNCHANGED <<markers, importVars, todo, current, pending>>
      /\ phase' = "over" /\ faults' \in 0..MaxFaults
      /\ status' \in {"none", "running", "failed", "done"}
  BY <1>1, FaultTypes DEF Complete
<1>3. ImportInv'
  BY <1>2, RebuildImports, ImportsUntouched
<1> QED BY <1>1, <1>2, <1>3, IdleInv DEF importVars

LEMMA GiveUpInv ==
    ASSUME RebuildInv, GiveUp
    PROVE  RebuildInv'
<1>1. /\ UNCHANGED <<markers, importVars>> /\ faults' \in 0..MaxFaults
      /\ status' \in {"none", "running", "failed", "done"}
      /\ phase' = "over" /\ todo' = {} /\ current' = 0 /\ pending' = {}
  BY FaultTypes DEF GiveUp, Stop, RebuildInv, RebuildTypeOK, TypeOK
<1>2. ImportInv'
  BY <1>1, RebuildImports, ImportsUntouched
<1> QED BY <1>1, <1>2, IdleInv DEF importVars

LEMMA RestartInv ==
    ASSUME RebuildInv, Restart
    PROVE  RebuildInv'
<1>1. ImportInv' /\ UNCHANGED tables
  BY RebuildImports, CrashInv DEF Restart, Crash
<1>2. status' \in {"none", "running", "failed", "done"}
      /\ phase' = "starting" /\ todo' = {} /\ current' = 0 /\ pending' = {}
  BY DEF Restart, RebuildInv, RebuildTypeOK
<1> QED BY <1>1, <1>2, IdleInv DEF tables

LEMMA RebuildStep ==
    ASSUME RebuildInv, [RebuildNext]_allVars
    PROVE  RebuildInv'
<1>1. ASSUME NEW i \in Imports, Import(i), NoRebuild PROVE RebuildInv'
  BY <1>1, RebuildImports, ImportStep, SoundGrows DEF NoRebuild
<1>2. CASE UNCHANGED allVars
  BY <1>2, RebuildImports, ImportStutter, SoundGrows DEF allVars, vars
<1> QED BY <1>1, <1>2, StartInv, StartBlindlyInv, ListInv, ReadInv, DeleteInv, InsertInv,
           CompleteInv, GiveUpInv, RestartInv DEF RebuildNext

LEMMA RebuildInvariant == RebuildSpec => []RebuildInv
BY RebuildInitInv, RebuildStep, PTL DEF RebuildSpec

(* Type correctness of the rebuild beside the imports. *)
THEOREM RebuildTypes == RebuildSpec => []RebuildTypeOK
BY RebuildInvariant, PTL DEF RebuildInv

(* The rebuild makes no marker of a track that the registry does not know. *)
THEOREM RebuildRegistered == RebuildSpec => []MarkersRegistered
<1>1. RebuildInv => MarkersRegistered
  BY DEF RebuildInv, Registered, RowsRegistered, MarkersRegistered
<1> QED BY <1>1, RebuildInvariant, PTL

(* No step of an import or of the rebuild, no failure and no crash loses a *)
(* raw point or a row of a track without raw points: the rows deleted are  *)
(* aggregates of a track whose raw points are still there.                 *)
THEOREM SourcesNeverLost == RebuildSpec => SourcesKept
<1> DEFINE Kept == \A m \in markers : m.zoom = 0 \/ Raws(m.track) = {} => m \in markers'
<1>1. ASSUME RebuildInv, [RebuildNext]_allVars PROVE Kept
  <2>1. CASE Delete
    <3>1. Raws(current) # {} /\ markers' = {m \in markers : m.track = current => m.zoom = 0}
      BY <1>1, <2>1 DEF RebuildInv, RebuildSound, Delete
    <3> QED BY <3>1
  <2>2. CASE ~Delete
    <3>1. markers \subseteq markers'
      <4>1. ASSUME NEW i \in Imports, Import(i) PROVE markers \subseteq markers'
        BY <1>1, <4>1, RebuildImports, ImportStep
      <4>2. CASE Insert
        BY <1>1, <4>2, InsertInv
      <4>3. CASE Start \/ StartBlindly \/ List \/ Read \/ Complete \/ GiveUp \/ Restart
                 \/ UNCHANGED allVars
        BY <4>3 DEF Start, StartBlindly, List, Read, Complete, GiveUp, Restart, Crash,
                    tables, vars, allVars
      <4> QED BY <1>1, <2>2, <4>1, <4>2, <4>3 DEF RebuildNext
    <3> QED BY <3>1
  <2> QED BY <2>1, <2>2
<1>2. RebuildInv /\ [RebuildNext]_allVars => [Kept]_allVars
  BY <1>1
<1> QED BY <1>2, RebuildInvariant, PTL DEF RebuildSpec, SourcesKept
-----------------------------------------------------------------------------
(* What the aggregates show. *)

(* A finite set of naturals has a greatest element: a smallest set without *)
(* one would still lack it after losing an element.                        *)
LEMMA Greatest ==
    ASSUME NEW S \in SUBSET Nat, S # {}, IsFiniteSet(S)
    PROVE  \E m \in S : \A n \in S : n <= m
<1> DEFINE Bad == {T \in SUBSET Nat : T # {} /\ IsFiniteSet(T) /\ ~\E m \in T : \A n \in T : n <= m}
<1> SUFFICES ASSUME Bad # {} PROVE FALSE
  OBVIOUS
<1>1. IsWellFoundedOn(StrictSubsetOrdering(Nat), FiniteSubsetsOf(Nat))
  BY FS_StrictSubsetOrderingWellFounded
<1>2. Bad \subseteq FiniteSubsetsOf(Nat)
  BY DEF FiniteSubsetsOf
<1>3. PICK T \in Bad : \A R \in Bad : ~(<<R, T>> \in StrictSubsetOrdering(Nat))
  <2> HIDE DEF Bad
  <2> QED BY <1>1, <1>2, WFMin
<1>4. /\ T \in SUBSET Nat /\ T # {} /\ IsFiniteSet(T)
      /\ ~\E m \in T : \A n \in T : n <= m
  OBVIOUS
<1>5. PICK x \in T : x \in Nat
  BY <1>4
<1> DEFINE R == T \ {x}
<1>6. R \in SUBSET Nat /\ IsFiniteSet(R)
  BY <1>4, FS_RemoveElement
<1>7. <<R, T>> \in StrictSubsetOrdering(Nat)
  BY <1>4, <1>5, <1>6 DEF StrictSubsetOrdering
<1>8. R \notin Bad
  BY <1>3, <1>7
<1>9. CASE R = {}
  <2>1. \A n \in T : n = x
    BY <1>9
  <2> QED BY <1>4, <1>5, <2>1
<1>10. CASE R # {}
  <2>1. PICK m \in R : \A n \in R : n <= m
    BY <1>6, <1>8, <1>10
  <2>2. m \in Nat /\ m \in T
    BY <1>6
  <2>3. \A n \in T : n \in R \/ n = x
    OBVIOUS
  <2>4. CASE x <= m
    BY <1>4, <2>1, <2>2, <2>3, <2>4
  <2>5. CASE m < x
    <3>1. \A n \in T : n <= x
      BY <1>4, <1>5, <2>1, <2>2, <2>3, <2>5
    <3> QED BY <1>4, <1>5, <3>1
  <2>6. x <= m \/ m < x
    BY <1>5, <2>2
  <2> QED BY <2>4, <2>5, <2>6
<1> QED BY <1>9, <1>10

(* Set shows at zoom z, in the cell of m and on its track, a point at least *)
(* as hot.                                                                  *)
PeakIn(set, m, z) ==
    \E a \in set : /\ a.track = m.track /\ a.zoom = z
                   /\ CellOf[z][a.point] = CellOf[z][m.point] /\ a.point >= m.point

(* Set shows the peaks of raws at every zoom. *)
ShownIn(raws, set) == \A m \in raws, z \in Zooms : PeakIn(set, m, z)

(* A peak is shown by whatever row has the key of the one that showed it.  *)
LEMMA PeakFollows ==
    ASSUME NEW old, NEW new, \A a \in old : \E b \in new : Key(b) = Key(a),
           NEW m, NEW n, Key(n) = Key(m), NEW z, PeakIn(old, m, z)
    PROVE  PeakIn(new, n, z)
<1>1. PICK a \in old : /\ a.track = m.track /\ a.zoom = z
                       /\ CellOf[z][a.point] = CellOf[z][m.point] /\ a.point >= m.point
  BY DEF PeakIn
<1>2. PICK b \in new : Key(b) = Key(a)
  OBVIOUS
<1>3. b.track = a.track /\ b.zoom = a.zoom /\ b.point = a.point
      /\ n.track = m.track /\ n.point = m.point
  BY <1>2 DEF Key
<1> QED BY <1>1, <1>3 DEF PeakIn

(* The hottest point of a cell wins it. *)
LEMMA HottestWins ==
    ASSUME NEW ps \in SUBSET Points, NEW p \in ps, NEW z \in Zooms
    PROVE  \E q \in Winners(ps, z) : CellOf[z][q] = CellOf[z][p] /\ q >= p
<1> DEFINE cell == {q \in ps : CellOf[z][q] = CellOf[z][p]}
<1>1. cell \in SUBSET Points /\ cell # {} /\ Points \subseteq Nat /\ IsFiniteSet(Points)
  BY DataAssumption
<1>2. IsFiniteSet(cell)
  BY <1>1, FS_Subset
<1>3. PICK q \in cell : \A n \in cell : n <= q
  <2> HIDE DEF cell
  <2> QED BY <1>1, <1>2, Greatest
<1>4. q \in Winners(ps, z)
  BY <1>3 DEF Winners
<1>5. p \in cell /\ p \in Nat /\ q \in Nat
  BY <1>1
<1> QED BY <1>3, <1>4, <1>5

(* The aggregates of a track's raw rows are of its zooms and show their    *)
(* peaks.                                                                  *)
LEMMA AggregatesShow ==
    ASSUME NEW raws \in SUBSET Rows, NEW t, \A r \in raws : r.track = t
    PROVE  /\ \A a \in Aggregates(raws) : a.zoom \in Zooms
           /\ ShownIn(raws, Aggregates(raws))
<1> DEFINE won(y) == {s \in raws : s.point \in Winners({x.point : x \in raws}, y)}
           stands(y) == {AtZoom(s, y) : s \in won(y)}
<1>1. Aggregates(raws) = UNION {stands(y) : y \in Zooms}
  BY DEF Aggregates
<1>2. ASSUME NEW r \in raws, NEW z \in Zooms
      PROVE  AtZoom(r, z).track = t /\ AtZoom(r, z).zoom = z /\ AtZoom(r, z).point = r.point
  <2>1. r \in Rows
    OBVIOUS
  <2> QED BY <2>1 DEF AtZoom, Rows
<1>3. \A a \in Aggregates(raws) : a.zoom \in Zooms
  <2>1. \A a \in Aggregates(raws) : \E r \in raws, z \in Zooms : a = AtZoom(r, z)
    BY DEF Aggregates
  <2> QED BY <1>2, <2>1
<1>4. ASSUME NEW m \in raws, NEW z \in Zooms
      PROVE  PeakIn(Aggregates(raws), m, z)
  <2> DEFINE ps == {x.point : x \in raws}
  <2>1. ps \in SUBSET Points /\ m.point \in ps /\ m.track = t
    BY DEF Rows
  <2> HIDE DEF ps
  <2>2. PICK q \in Winners(ps, z) : CellOf[z][q] = CellOf[z][m.point] /\ q >= m.point
    BY <2>1, HottestWins
  <2>3. q \in ps
    BY DEF Winners
  <2>4. PICK r \in raws : r.point = q
    BY <2>3 DEF ps
  <2>5. r \in won(z)
    BY <2>2, <2>4 DEF ps
  <2> HIDE DEF won
  <2>6. AtZoom(r, z) \in stands(z)
    BY <2>5
  <2> HIDE DEF stands
  <2>7. AtZoom(r, z) \in Aggregates(raws)
    BY <1>1, <2>6
  <2> QED BY <1>2, <2>1, <2>2, <2>4, <2>7 DEF PeakIn
<1> QED BY <1>3, <1>4 DEF ShownIn

(* What Register puts in a batch shows its own peaks. *)
LEMMA BatchShows ==
    ASSUME NEW t \in Tracks, NEW ps \in SUBSET Points
    PROVE  LET raws == {Row(t, p, 0) : p \in ps}
               all == raws \cup WithFreshIds(Aggregates(raws))
           IN  \A m \in all, z \in Zooms : m.zoom = 0 => PeakIn(all, m, z)
<1> DEFINE raws == {Row(t, p, 0) : p \in ps}
           aggs == Aggregates(raws)
           fresh == WithFreshIds(aggs)
<1>1. raws \in SUBSET Rows /\ \A r \in raws : r.track = t
  BY RowTypes
<1> HIDE DEF raws
<1>2. (\A a \in aggs : a.zoom \in Zooms) /\ ShownIn(raws, aggs)
  BY <1>1, AggregatesShow
<1> HIDE DEF aggs
<1>3. /\ \A a \in aggs : \E b \in fresh : Key(b) = Key(a)
      /\ \A b \in fresh : \E a \in aggs : Key(b) = Key(a)
  <2> DEFINE copy(a) == Row(a.track, a.point, a.zoom)
  <2>1. \A a : Key(copy(a)) = Key(a)
    BY DEF Row, Key
  <2>2. fresh = {copy(a) : a \in aggs}
    BY DEF WithFreshIds
  <2> HIDE DEF copy, fresh
  <2> QED BY <2>1, <2>2
<1> HIDE DEF fresh
<1>4. ASSUME NEW m \in raws \cup fresh, NEW z \in Zooms, m.zoom = 0
      PROVE  PeakIn(raws \cup fresh, m, z)
  <2>1. m \in raws
    <3>1. ASSUME m \in fresh PROVE FALSE
      <4>1. PICK a \in aggs : Key(m) = Key(a)
        BY <1>3, <3>1
      <4>2. 0 \in Zooms
        BY <1>2, <1>4, <4>1 DEF Key
      <4> QED BY <4>2, DataAssumption
    <3> QED BY <3>1
  <2>2. PeakIn(aggs, m, z)
    BY <1>2, <2>1 DEF ShownIn
  <2>3. \A a \in aggs : \E b \in raws \cup fresh : Key(b) = Key(a)
    BY <1>3
  <2> QED BY <2>2, <2>3, PeakFollows
<1> QED BY <1>4 DEF aggs, raws, fresh
-----------------------------------------------------------------------------
(* Done means that peaks are shown.  On PostgreSQL an insert gives a row   *)
(* without an id one, and takes all rows of an import at once.  Two things *)
(* have to be left out: an import that stores to a track between the       *)
(* moment its raw points were read and the deletion of its aggregates, and *)
(* a rebuild of a database that is recorded as done, which begins because  *)
(* the state could not be read and was not recorded as running either.     *)
NoneBetween ==
    [][\A i \in Imports : phase = "deleting" /\ Store(i) => track[i] # current]_allVars

RunsRecorded == [][StartBlindly /\ status = "done" => status' # "done"]_allVars

(* What an import holds shows its own peaks, until all of it is stored.    *)
BatchOk(i) ==
    /\ batch[i] # {} => step[i] = "storing"
    /\ \A m \in batch[i] : m.track = track[i]
    /\ \A m \in batch[i], z \in Zooms : m.zoom = 0 => PeakIn(batch[i], m, z)

(* Peaks are shown of every track that the rebuild is through with, and of *)
(* tracks it need not look at; those of the current one are on their way.  *)
Progress ==
    /\ phase \in {"reading", "deleting", "inserting"} =>
          \A t \in Tracks \ (todo \cup {current}) : PeaksShown(t)
    /\ phase = "deleting" => ShownIn(Raws(current), pending)
    /\ phase = "inserting" => ShownIn(Raws(current), markers \cup pending)

(* "done" is recorded only at rest, and of a table that shows its peaks.   *)
DoneIsSo ==
    status = "done" => /\ phase \in {"starting", "over"}
                       /\ \A t \in Tracks : PeaksShown(t)

ShowsInv ==
    /\ RebuildInv
    /\ \A i \in Imports : BatchOk(i)
    /\ \A m \in pending : m.zoom # 0
    /\ Progress /\ DoneIsSo

LEMMA ShownAgain ==
    ASSUME NEW t
    PROVE  PeaksShown(t) <=> ShownIn(Raws(t), markers)
BY DEF PeaksShown, ShownIn, PeakIn, Raws

(* After an INSERT on PostgreSQL the table has every key of the chunk, and *)
(* only those were added.                                                  *)
LEMMA AllAreIn ==
    ASSUME Engine = "pgx", NEW c, markers' = markers \cup Admitted(c)
    PROVE  /\ \A r \in c : \E m \in markers' : Key(m) = Key(r)
           /\ \A m \in markers' : m \in markers \/ \E r \in c : Key(m) = Key(r)
<1> DEFINE copy(a) == Row(a.track, a.point, a.zoom)
<1>1. \A a : Key(copy(a)) = Key(a)
  BY DEF Row, Key
<1>2. WithFreshIds(c) = {copy(a) : a \in c}
  BY DEF WithFreshIds
<1> HIDE DEF copy
<1>3. Admitted(c) = {r \in WithFreshIds(c) : \A m \in markers : Key(m) # Key(r)}
  BY DEF Admitted
<1>4. ASSUME NEW r \in c PROVE \E m \in markers' : Key(m) = Key(r)
  <2>1. copy(r) \in WithFreshIds(c) /\ Key(copy(r)) = Key(r)
    BY <1>1, <1>2
  <2>2. CASE copy(r) \in Admitted(c)
    BY <2>1, <2>2
  <2>3. CASE copy(r) \notin Admitted(c)
    <3>1. PICK m \in markers : Key(m) = Key(copy(r))
      BY <1>3, <2>1, <2>3
    <3> QED BY <2>1, <3>1
  <2> QED BY <2>2, <2>3
<1>5. ASSUME NEW m \in Admitted(c) PROVE \E r \in c : Key(m) = Key(r)
  BY <1>1, <1>2, <1>3
<1> QED BY <1>4, <1>5

(* The rebuild's part of the invariant where raw rows do not change and    *)
(* the table only grows.                                                   *)
LEMMA PeaksStay ==
    ASSUME NEW t, PeaksShown(t), markers \subseteq markers', Raws(t)' = Raws(t)
    PROVE  PeaksShown(t)'
BY DEF PeaksShown

(* A step that touches neither the table nor the rebuild. *)
LEMMA ShowsStand ==
    ASSUME ShowsInv, RebuildInv', UNCHANGED <<markers, status, phase, todo, current, pending>>,
           \A i \in Imports : BatchOk(i)'
    PROVE  ShowsInv'
<1>1. \A t : Raws(t)' = Raws(t)
  BY DEF Raws
<1>2. \A t : PeaksShown(t)' <=> PeaksShown(t)
  BY <1>1 DEF PeaksShown
<1>3. DoneIsSo'
  BY <1>2 DEF ShowsInv, DoneIsSo
<1>4. Progress'
  BY <1>1, <1>2 DEF ShowsInv, Progress, ShownIn
<1> QED BY <1>3, <1>4 DEF ShowsInv

(* A step of an import that has nothing to store, or gives it up. *)
LEMMA BatchesStand ==
    ASSUME ShowsInv, RebuildInv', UNCHANGED <<markers, rebuildVars>>,
           \A i \in Imports : \/ batch'[i] = {}
                               \/ /\ batch'[i] = batch[i] /\ track'[i] = track[i]
                                  /\ step'[i] = step[i]
    PROVE  ShowsInv'
<1>1. \A i \in Imports : BatchOk(i)'
  BY DEF ShowsInv, BatchOk
<1> QED BY <1>1, ShowsStand DEF rebuildVars

LEMMA RegisterShows ==
    ASSUME ShowsInv, RebuildInv', NoRebuild, NEW i \in Imports, Register(i)
    PROVE  ShowsInv'
<1> DEFINE raws == {Row(track[i], p, 0) : p \in Valid(i)}
           all == raws \cup WithFreshIds(Aggregates(raws))
<1>1. track[i] \in Tracks /\ Valid(i) \in SUBSET Points
  BY FilesAssumption DEF ShowsInv, RebuildInv, RebuildTypeOK, TypeOK, Valid
<1>2. /\ \A m \in all : m.track = track[i]
      /\ \A m \in all, z \in Zooms : m.zoom = 0 => PeakIn(all, m, z)
  BY <1>1, BatchRows, BatchShows
<1>3. /\ batch' = [batch EXCEPT ![i] = all] /\ step' = [step EXCEPT ![i] = "storing"]
      /\ UNCHANGED <<markers, track>>
  BY DEF Register
<1> HIDE DEF all
<1>4. batch'[i] = all /\ step'[i] = "storing" /\ track' = track
      /\ \A j \in Imports : j # i => batch'[j] = batch[j] /\ step'[j] = step[j]
  BY <1>3 DEF ShowsInv, RebuildInv, RebuildTypeOK, TypeOK
<1>5. \A j \in Imports : BatchOk(j)'
  <2>1. BatchOk(i)'
    BY <1>2, <1>4 DEF BatchOk
  <2>2. ASSUME NEW j \in Imports, j # i PROVE BatchOk(j)'
    BY <1>4, <2>2 DEF ShowsInv, BatchOk
  <2> QED BY <2>1, <2>2
<1> QED BY <1>3, <1>5, ShowsStand DEF NoRebuild, rebuildVars

(* On PostgreSQL an import puts points and peaks into the table at once. *)
LEMMA StoreShows ==
    ASSUME Engine = "pgx", ShowsInv, RebuildInv', NoRebuild, NEW i \in Imports, Store(i),
           phase = "deleting" => track[i] # current
    PROVE  ShowsInv'
<1> DEFINE c == batch[i]
<1>1. /\ markers' = markers \cup Admitted(c) /\ batch' = [batch EXCEPT ![i] = @ \ c]
      /\ step' = [step EXCEPT ![i] = "finished"] /\ UNCHANGED track
  BY DEF Store, Chunk
<1>2. UNCHANGED <<status, phase, todo, current, pending>>
  BY DEF NoRebuild, rebuildVars
<1>3. /\ \A m \in c : m.track = track[i]
      /\ \A m \in c, z \in Zooms : m.zoom = 0 => PeakIn(c, m, z)
  BY DEF ShowsInv, BatchOk
<1>4. \A j \in Imports : BatchOk(j)'
  <2>1. batch'[i] = {}
        /\ \A j \in Imports : j # i => batch'[j] = batch[j] /\ step'[j] = step[j]
    BY <1>1 DEF ShowsInv, RebuildInv, RebuildTypeOK, TypeOK
  <2> QED BY <1>1, <2>1 DEF ShowsInv, BatchOk
<1> HIDE DEF c
<1>5. /\ \A r \in c : \E m \in markers' : Key(m) = Key(r)
      /\ \A m \in markers' : m \in markers \/ \E r \in c : Key(m) = Key(r)
      /\ markers \subseteq markers'
  BY <1>1, AllAreIn
<1>6. ASSUME NEW t, NEW m \in Raws(t)'
      PROVE  m \in Raws(t) \/ (t = track[i] /\ \A z \in Zooms : PeakIn(markers', m, z))
  <2>1. m \in markers' /\ m.track = t /\ m.zoom = 0
    BY <1>6 DEF Raws
  <2>2. CASE m \in markers
    BY <2>1, <2>2 DEF Raws
  <2>3. ASSUME NEW r \in c, Key(m) = Key(r) PROVE t = track[i] /\ \A z \in Zooms : PeakIn(markers', m, z)
    <3>1. r.track = t /\ r.zoom = 0
      BY <2>1, <2>3 DEF Key
    <3>2. \A z \in Zooms : PeakIn(c, r, z)
      BY <1>3, <3>1
    <3>3. ASSUME NEW z \in Zooms PROVE PeakIn(markers', m, z)
      BY <1>5, <2>3, <3>2, PeakFollows
    <3> QED BY <1>3, <3>1, <3>3
  <2> QED BY <1>5, <2>1, <2>2, <2>3
<1>7. ASSUME NEW t, PeaksShown(t) PROVE PeaksShown(t)'
  <2>1. ShownIn(Raws(t), markers)
    BY <1>7, ShownAgain
  <2>2. \A m \in Raws(t)', z \in Zooms : PeakIn(markers', m, z)
    BY <1>5, <1>6, <2>1 DEF ShownIn, PeakIn
  <2> QED BY <2>2 DEF PeaksShown, PeakIn, Raws
<1>8. Progress'
  <2>1. phase \in {"reading", "deleting", "inserting"} =>
          \A t \in Tracks \ (todo \cup {current}) : PeaksShown(t)'
    BY <1>7 DEF ShowsInv, Progress
  <2>2. PICK t : t = current
    OBVIOUS
  <2>3. CASE phase = "deleting"
    <3>1. ShownIn(Raws(t), pending) /\ t # track[i]
      BY <2>2, <2>3 DEF ShowsInv, Progress
    <3>2. Raws(t)' \subseteq Raws(t)
      BY <1>6, <3>1
    <3>3. ShownIn(Raws(t)', pending)
      BY <3>1, <3>2 DEF ShownIn
    <3> QED BY <1>2, <2>1, <2>2, <2>3, <3>3 DEF Progress, ShownIn, Raws
  <2>4. CASE phase = "inserting"
    <3>1. ShownIn(Raws(t), markers \cup pending)
      BY <2>2, <2>4 DEF ShowsInv, Progress
    <3>2. \A m \in Raws(t)', z \in Zooms : PeakIn(markers' \cup pending, m, z)
      BY <1>5, <1>6, <3>1 DEF ShownIn, PeakIn
    <3> QED BY <1>2, <2>1, <2>2, <2>4, <3>2 DEF Progress, ShownIn, Raws
  <2> QED BY <1>2, <2>1, <2>3, <2>4 DEF Progress
<1>9. DoneIsSo'
  BY <1>2, <1>7 DEF ShowsInv, DoneIsSo
<1> QED BY <1>2, <1>4, <1>8, <1>9 DEF ShowsInv

LEMMA ImportShows ==
    ASSUME Engine = "pgx", ShowsInv, RebuildInv', NoRebuild, NEW i \in Imports, Import(i),
           phase = "deleting" /\ Store(i) => track[i] # current
    PROVE  ShowsInv'
<1>1. ASSUME step[i] \in {"checking", "probing", "registering"} PROVE batch[i] = {}
  BY <1>1 DEF ShowsInv, BatchOk
<1>2. DOMAIN step = Imports /\ DOMAIN track = Imports /\ DOMAIN batch = Imports
  BY DEF ShowsInv, RebuildInv, RebuildTypeOK, TypeOK
<1>3. CASE Check(i)
  <2>1. UNCHANGED <<markers, batch, track>> /\ \A j \in Imports : j # i => step'[j] = step[j]
    BY <1>2, <1>3 DEF Check, tables
  <2> QED BY <1>1, <1>3, <2>1, BatchesStand DEF Check, NoRebuild
<1>4. CASE Probe(i)
  <2>1. UNCHANGED <<markers, batch>>
        /\ \A j \in Imports : j # i => step'[j] = step[j] /\ track'[j] = track[j]
    BY <1>2, <1>4 DEF Probe, tables
  <2> QED BY <1>1, <1>4, <2>1, BatchesStand DEF Probe, NoRebuild
<1>5. CASE Reject(i)
  <2>1. UNCHANGED <<markers, batch, track>> /\ \A j \in Imports : j # i => step'[j] = step[j]
    BY <1>2, <1>5 DEF Reject, tables
  <2> QED BY <1>1, <1>5, <2>1, BatchesStand DEF Reject, NoRebuild
<1>6. CASE Fail(i)
  <2>1. UNCHANGED <<markers, track>> /\ batch'[i] = {}
        /\ \A j \in Imports : j # i => step'[j] = step[j] /\ batch'[j] = batch[j]
    BY <1>2, <1>6 DEF Fail, tables
  <2> QED BY <2>1, BatchesStand DEF NoRebuild
<1> QED BY <1>3, <1>4, <1>5, <1>6, RegisterShows, StoreShows DEF Import

(* A step of the rebuild leaves the batches of the imports alone. *)
LEMMA BatchesKeep ==
    ASSUME ShowsInv, UNCHANGED <<step, track, batch>>
    PROVE  \A i \in Imports : BatchOk(i)'
BY DEF ShowsInv, BatchOk

(* Steps to or from a rest: peaks stay what they are. *)
LEMMA RestShows ==
    ASSUME ShowsInv, RebuildInv', markers' = markers, pending' = {},
           \A i \in Imports : BatchOk(i)',
           phase' \in {"starting", "listing", "over"},
           status' = "done" => /\ phase' \in {"starting", "over"}
                               /\ \A t \in Tracks : PeaksShown(t)
    PROVE  ShowsInv'
<1>1. \A t : PeaksShown(t)' <=> PeaksShown(t)
  BY DEF PeaksShown, Raws
<1>2. Progress' /\ DoneIsSo'
  BY <1>1 DEF Progress, DoneIsSo
<1> QED BY <1>2 DEF ShowsInv

LEMMA CompleteShows ==
    ASSUME ShowsInv, RebuildInv', Complete
    PROVE  ShowsInv'
<1>1. /\ phase = "reading" /\ todo = {} /\ current = 0 /\ phase' = "over"
      /\ UNCHANGED <<markers, step, track, batch, pending>>
  BY DEF Complete, importVars, ShowsInv, RebuildInv, RebuildTypeOK
<1>2. \A t \in Tracks : PeaksShown(t)
  BY <1>1, DataAssumption DEF ShowsInv, Progress
<1>3. \A t : PeaksShown(t)' <=> PeaksShown(t)
  BY <1>1 DEF PeaksShown, Raws
<1>4. Progress' /\ DoneIsSo' /\ \A m \in pending' : m.zoom # 0
  BY <1>1, <1>2, <1>3 DEF Progress, DoneIsSo, ShowsInv
<1> QED BY <1>1, <1>4, BatchesKeep DEF ShowsInv

LEMMA ListShows ==
    ASSUME ShowsInv, RebuildInv', List
    PROVE  ShowsInv'
<1>1. /\ phase = "listing" /\ phase' = "reading" /\ todo' = Stored /\ current' = current
      /\ UNCHANGED <<markers, step, track, batch, status, pending>>
  BY DEF List, vars
<1>2. \A t : PeaksShown(t)' <=> PeaksShown(t)
  BY <1>1 DEF PeaksShown, Raws
<1>3. \A t : t \notin Stored => PeaksShown(t)
  BY DEF PeaksShown, Raws, Stored
<1>4. Progress'
  BY <1>1, <1>2, <1>3 DEF Progress
<1>5. DoneIsSo'
  BY <1>1 DEF ShowsInv, DoneIsSo
<1> QED BY <1>1, <1>4, <1>5, BatchesKeep DEF ShowsInv

LEMMA ReadShows ==
    ASSUME ShowsInv, RebuildInv', Read
    PROVE  ShowsInv'
<1>0. PICK t : t = Min(todo)
  OBVIOUS
<1>1. /\ phase = "reading" /\ todo' = todo \ {t} /\ current = 0
      /\ UNCHANGED <<markers, step, track, batch, status>>
  BY <1>0 DEF Read, vars, ShowsInv, RebuildInv, RebuildTypeOK
<1>2. \A s : /\ PeaksShown(s)' <=> PeaksShown(s)
             /\ Raws(s)' = Raws(s)
  BY <1>1 DEF PeaksShown, Raws
<1>3. \A s \in Tracks \ todo : PeaksShown(s)
  BY <1>1, DataAssumption DEF ShowsInv, Progress
<1>4. DoneIsSo'
  BY <1>1 DEF ShowsInv, DoneIsSo
<1>5. CASE Raws(t) = {}
  <2>1. PeaksShown(t) /\ UNCHANGED <<current, phase, pending>>
    BY <1>0, <1>5 DEF Read, PeaksShown
  <2>2. Progress'
    BY <1>1, <1>2, <1>3, <2>1 DEF Progress
  <2> QED BY <1>1, <1>4, <2>1, <2>2, BatchesKeep DEF ShowsInv
<1>6. CASE Raws(t) # {}
  <2>1. current' = t /\ phase' = "deleting" /\ pending' = Aggregates(Raws(t))
    BY <1>0, <1>6 DEF Read
  <2>2. Raws(t) \in SUBSET Rows /\ \A r \in Raws(t) : r.track = t
    BY DEF Raws, ShowsInv, RebuildInv, RebuildTypeOK, TypeOK
  <2>3. (\A a \in pending' : a.zoom \in Zooms) /\ ShownIn(Raws(t), pending')
    BY <2>1, <2>2, AggregatesShow
  <2>4. \A a \in pending' : a.zoom # 0
    BY <2>3, DataAssumption
  <2>5. ShownIn(Raws(current), pending)'
    BY <1>2, <2>1, <2>3 DEF ShownIn, Raws
  <2>6. \A s \in Tracks \ (todo \cup {current})' : PeaksShown(s)'
    BY <1>1, <1>2, <1>3, <2>1
  <2>7. Progress'
    BY <2>1, <2>5, <2>6 DEF Progress
  <2> QED BY <1>1, <1>4, <2>4, <2>7, BatchesKeep DEF ShowsInv
<1> QED BY <1>5, <1>6

LEMMA DeleteShows ==
    ASSUME ShowsInv, RebuildInv', Delete
    PROVE  ShowsInv'
<1>1. /\ phase = "deleting" /\ phase' = "inserting"
      /\ markers' = {m \in markers : m.track = current => m.zoom = 0}
      /\ UNCHANGED <<step, track, batch, status, todo, current, pending>>
  BY DEF Delete, importVars
<1>2. \A t : Raws(t)' = Raws(t)
  BY <1>1 DEF Raws
<1>3. ASSUME NEW t, t # current, PeaksShown(t) PROVE PeaksShown(t)'
  <2>1. \A m \in markers : m.track = t => m \in markers'
    BY <1>1, <1>3
  <2> QED BY <1>2, <1>3, <2>1 DEF PeaksShown
<1>4. PICK t : t = current
  OBVIOUS
<1>5. ShownIn(Raws(t), pending)
  BY <1>1, <1>4 DEF ShowsInv, Progress
<1>6. \A m \in Raws(t)', z \in Zooms : PeakIn(markers' \cup pending', m, z)
  BY <1>1, <1>2, <1>5 DEF ShownIn, PeakIn
<1>7. ShownIn(Raws(current), markers \cup pending)'
  BY <1>1, <1>4, <1>6 DEF ShownIn, Raws
<1>8. \A s \in Tracks \ (todo \cup {current})' : PeaksShown(s)'
  BY <1>1, <1>3 DEF ShowsInv, Progress
<1>9. Progress'
  BY <1>1, <1>7, <1>8 DEF Progress
<1>10. DoneIsSo'
  BY <1>1 DEF ShowsInv, DoneIsSo
<1> QED BY <1>1, <1>9, <1>10, BatchesKeep DEF ShowsInv

LEMMA InsertShows ==
    ASSUME Engine = "pgx", ShowsInv, RebuildInv', Insert
    PROVE  ShowsInv'
<1>1. PICK c \in PendingChunk :
          /\ markers' = markers \cup Admitted(c)
          /\ pending' = pending \ c
          /\ phase' = IF pending = c THEN "reading" ELSE phase
          /\ current' = IF pending = c THEN 0 ELSE current
  BY DEF Insert
<1>2. /\ phase = "inserting" /\ c \subseteq pending
      /\ UNCHANGED <<step, track, batch, status, todo>>
  BY PendingRows DEF Insert, importVars
<1>3. /\ \A r \in c : \E m \in markers' : Key(m) = Key(r)
      /\ \A m \in markers' : m \in markers \/ \E r \in c : Key(m) = Key(r)
      /\ markers \subseteq markers'
  BY <1>1, AllAreIn
<1>4. \A m \in markers' : m.zoom = 0 => m \in markers
  BY <1>2, <1>3 DEF ShowsInv, Key
<1>5. \A t : Raws(t)' = Raws(t)
  BY <1>3, <1>4 DEF Raws
<1>6. \A t : PeaksShown(t) => PeaksShown(t)'
  BY <1>3, <1>5, PeaksStay
<1>7. PICK t : t = current
  OBVIOUS
<1>8. ASSUME NEW m \in Raws(t)', NEW z \in Zooms
      PROVE  PeakIn(markers' \cup pending', m, z)
  <2>1. PeakIn(markers \cup pending, m, z)
    BY <1>2, <1>5, <1>7, <1>8 DEF ShowsInv, Progress, ShownIn
  <2>2. \A a \in markers \cup pending : \E b \in markers' \cup pending' : Key(b) = Key(a)
    BY <1>1, <1>3
  <2> QED BY <2>1, <2>2, PeakFollows
<1>9. \A s \in Tracks \ (todo \cup {t}) : PeaksShown(s)'
  BY <1>2, <1>6, <1>7 DEF ShowsInv, Progress
<1>10. Progress'
  <2>1. CASE pending = c
    <3>1. pending' = {} /\ phase' = "reading" /\ todo' = todo
      BY <1>1, <1>2, <2>1
    <3>2. \A m \in Raws(t)', z \in Zooms : PeakIn(markers', m, z)
      BY <1>8, <3>1
    <3>3. PeaksShown(t)'
      BY <3>2 DEF PeaksShown, PeakIn, Raws
    <3> QED BY <1>9, <3>1, <3>3 DEF Progress
  <2>2. CASE pending # c
    <3>1. phase' = "inserting" /\ current' = t /\ todo' = todo
      BY <1>1, <1>2, <1>7, <2>2
    <3>2. ShownIn(Raws(current), markers \cup pending)'
      BY <1>8, <3>1 DEF ShownIn, Raws
    <3> QED BY <1>9, <3>1, <3>2 DEF Progress
  <2> QED BY <2>1, <2>2
<1>11. DoneIsSo'
  BY <1>2 DEF ShowsInv, DoneIsSo
<1>12. \A m \in pending' : m.zoom # 0
  BY <1>1 DEF ShowsInv
<1> QED BY <1>2, <1>10, <1>11, <1>12, BatchesKeep DEF ShowsInv

(* A rebuild that is under way is not recorded as done. *)
LEMMA BreakShows ==
    ASSUME ShowsInv, RebuildInv', GiveUp \/ Restart
    PROVE  ShowsInv'
<1>1. /\ markers' = markers /\ pending' = {} /\ phase' \in {"starting", "over"}
      /\ status' = "done" => status = "done"
  BY DEF GiveUp, Stop, Restart, Crash, tables
<1>2. \A i \in Imports : BatchOk(i)'
  <2>1. CASE GiveUp
    BY <2>1, BatchesKeep DEF GiveUp, importVars
  <2>2. CASE Restart
    BY <2>2 DEF Restart, Crash, BatchOk
  <2> QED BY <2>1, <2>2
<1> QED BY <1>1, <1>2, RestShows DEF ShowsInv, DoneIsSo

LEMMA BeginShows ==
    ASSUME ShowsInv, RebuildInv', Start \/ StartBlindly,
           StartBlindly /\ status = "done" => status' # "done"
    PROVE  ShowsInv'
<1>1. /\ UNCHANGED <<markers, step, track, batch, todo, current, pending>>
      /\ phase = "starting" /\ phase' \in {"listing", "over"}
      /\ status' = "done" => status = "done" /\ phase' = "over"
  BY DEF Start, StartBlindly, vars, importVars
<1>2. \A t : PeaksShown(t)' <=> PeaksShown(t)
  BY <1>1 DEF PeaksShown, Raws
<1>3. Progress' /\ DoneIsSo'
  BY <1>1, <1>2 DEF ShowsInv, Progress, DoneIsSo
<1> QED BY <1>1, <1>3, BatchesKeep DEF ShowsInv

LEMMA ShowsStep ==
    ASSUME Engine = "pgx", ShowsInv, RebuildInv', [RebuildNext]_allVars,
           \A i \in Imports : phase = "deleting" /\ Store(i) => track[i] # current,
           StartBlindly /\ status = "done" => status' # "done"
    PROVE  ShowsInv'
<1>1. ASSUME NEW i \in Imports, Import(i), NoRebuild PROVE ShowsInv'
  BY <1>1, ImportShows
<1>2. CASE UNCHANGED allVars
  BY <1>2, BatchesStand DEF allVars, vars
<1> QED BY <1>1, <1>2, BeginShows, ListShows, ReadShows, DeleteShows, InsertShows,
           CompleteShows, BreakShows DEF RebuildNext

(* Once the rebuild is recorded as done, no track of the older version and *)
(* none imported since hides a peak (rebuildMarkerZoomAggregates), on      *)
(* PostgreSQL and up to the two exceptions above, whatever fails and       *)
(* wherever the process is restarted.                                      *)
THEOREM RebuildShowsPeaks ==
    ASSUME Engine = "pgx"
    PROVE  RebuildSpec /\ NoneBetween /\ RunsRecorded => []DoneShowsPeaks
<1> DEFINE Apart == \A i \in Imports : phase = "deleting" /\ Store(i) => track[i] # current
           Recorded == StartBlindly /\ status = "done" => status' # "done"
<1>1. RebuildInit => ShowsInv
  <2> SUFFICES ASSUME RebuildInit PROVE ShowsInv
    OBVIOUS
  <2>1. RebuildInv
    BY RebuildInitInv
  <2>2. status = "none" /\ phase = "starting" /\ pending = {} /\ \A i \in Imports : batch[i] = {}
    BY DEF RebuildInit, ImportsInit
  <2> QED BY <2>1, <2>2 DEF ShowsInv, BatchOk, Progress, DoneIsSo
<1>2. ShowsInv /\ [RebuildNext]_allVars /\ [Apart]_allVars /\ [Recorded]_allVars => ShowsInv'
  <2> SUFFICES ASSUME ShowsInv, [RebuildNext]_allVars, [Apart]_allVars, [Recorded]_allVars
               PROVE  ShowsInv'
    OBVIOUS
  <2>1. RebuildInv'
    BY RebuildStep DEF ShowsInv
  <2>2. CASE UNCHANGED allVars
    BY <2>1, <2>2, BatchesStand DEF allVars, vars
  <2>3. CASE Apart /\ Recorded
    BY <2>1, <2>3, ShowsStep
  <2> QED BY <2>2, <2>3
<1>3. ShowsInv => DoneShowsPeaks
  BY DEF ShowsInv, DoneIsSo, DoneShowsPeaks, SettledPeaksShown
<1> QED BY <1>1, <1>2, <1>3, PTL DEF RebuildSpec, NoneBetween, RunsRecorded
=============================================================================
