---------------------------- MODULE MarkerPathsProofs ----------------------------
(***************************************************************************)
(* Proofs about the ways of markers, for any devices, readings, tracks,    *)
(* readers, promotions, failures and crashes: no live row is lost on its   *)
(* way to the markers, the backfill of the registry is honest, an import   *)
(* has stored what it reports, a settled track shows the peaks of its raw  *)
(* points at every zoom, a file that comes again opens no track of its     *)
(* own, a gap in the speeds of a track is filled from its neighbours,      *)
(* listings rise and archives are whole, a client whose stream came to its *)
(* end has all of it, for any requests side by side, and a rebuild that is *)
(* recorded as done hides no peak.                                         *)
(***************************************************************************)
EXTENDS MarkerPaths, ZoomRebuildProofs, FiniteSetTheorems, TLAPS

(* --- the catalogue --------------------------------------------------------- *)

Honest == {"synced", "skipped"}

(* The recorded state is not inductive by itself: it is written one        *)
(* statement after the one that makes it true, so the invariant also       *)
(* covers a backfill that is about to record.                              *)
CatalogueInv ==
    /\ filled \in Honest => listStored \subseteq listRegistry
    /\ backfill \in Honest => listStored \subseteq listRegistry

(* A step that leaves the tables alone and finds nothing new keeps it. *)
LEMMA TablesStand ==
    ASSUME CatalogueInv, UNCHANGED <<listStored, listRegistry>>,
           filled' \in Honest => filled \in Honest \/ backfill \in Honest,
           backfill' \in Honest => backfill \in Honest
    PROVE  CatalogueInv'
BY DEF CatalogueInv

LEMMA BackfillKeeps == ASSUME CatalogueInv, Catalogue!Startup PROVE CatalogueInv'
<1> USE DEF Catalogue!Backfill, Honest
<1>1. CASE Catalogue!Sync
  BY <1>1 DEF Catalogue!Sync, CatalogueInv
<1>2. CASE Catalogue!SyncFails
  BY <1>2 DEF Catalogue!SyncFails, CatalogueInv
<1>3. CASE Catalogue!CheckMarkers
  BY <1>3 DEF Catalogue!CheckMarkers, CatalogueInv
<1>4. CASE Catalogue!ReadState \/ Catalogue!CheckRegistry \/ Catalogue!CheckFails
  BY <1>4, TablesStand DEF Catalogue!ReadState, Catalogue!CheckRegistry, Catalogue!CheckFails
<1>5. CASE Catalogue!Record
  BY <1>5, TablesStand DEF Catalogue!Record
<1> QED BY <1>1, <1>2, <1>3, <1>4, <1>5 DEF Catalogue!Startup

(* Whoever reads the catalogue leaves tables and backfill alone.           *)
LEMMA ReadersKeep ==
    ASSUME CatalogueInv,
           \/ \E t \in Listable : Catalogue!AskTrack(t)
           \/ \E n \in 1..Catalogue!Cardinality(Listable) : Catalogue!AskNumber(n)
           \/ Catalogue!Begin \/ Catalogue!Query \/ Catalogue!Number
           \/ Catalogue!Fetch \/ Catalogue!Describe \/ Catalogue!ReadFails
    PROVE  CatalogueInv'
<1> DEFINE Reads == UNCHANGED <<listStored, listRegistry, filled, backfill>>
<1> SUFFICES Reads
  BY TablesStand
<1>1. \A next : Catalogue!Reader(next) => Reads
  BY DEF Catalogue!Reader, Catalogue!tables
<1>2. \A answer, next : Catalogue!Ask(answer, next) => Reads
  BY DEF Catalogue!Ask, Catalogue!tables
<1>3. CASE Catalogue!Begin
  BY <1>3 DEF Catalogue!Begin, Catalogue!tables
<1>4. CASE \E t \in Listable : Catalogue!AskTrack(t)
  BY <1>2, <1>4 DEF Catalogue!AskTrack
<1>5. CASE \E n \in 1..Catalogue!Cardinality(Listable) : Catalogue!AskNumber(n)
  BY <1>2, <1>5 DEF Catalogue!AskNumber
<1>6. CASE \/ Catalogue!Query \/ Catalogue!Number \/ Catalogue!Fetch
           \/ Catalogue!Describe \/ Catalogue!ReadFails
  BY <1>1, <1>6 DEF Catalogue!Query, Catalogue!Number, Catalogue!Fetch, Catalogue!Describe,
                    Catalogue!ReadFails
<1> QED BY <1>3, <1>4, <1>5, <1>6

LEMMA CatalogueStep == ASSUME CatalogueInv, Catalogue!Next PROVE CatalogueInv'
<1>1. ASSUME NEW t \in Listable, Catalogue!Register(t) \/ Catalogue!Store(t)
      PROVE  CatalogueInv'
  BY <1>1 DEF Catalogue!Register, Catalogue!Store, CatalogueInv
<1>2. CASE Catalogue!Crash
  BY <1>2, TablesStand DEF Catalogue!Crash, Catalogue!tables, Honest
<1> QED BY <1>1, <1>2, BackfillKeeps, ReadersKeep DEF Catalogue!Next

(* The property of the run: a registry that is recorded as synced, or as   *)
(* needing nothing, holds every track with markers for ever after          *)
(* (tracks.go backfillTracksTable).                                        *)
THEOREM BackfillIsHonest == PathsSpec => []BackfillHonest
<1>1. PathsInit => CatalogueInv
  BY DEF PathsInit, Catalogue!Init, CatalogueInv, Honest
<1>2. CatalogueInv /\ [PathsNext]_pathVars => CatalogueInv'
  <2>1. CatalogueInv /\ UNCHANGED catalogueVars => CatalogueInv'
    BY DEF catalogueVars, CatalogueInv
  <2> QED BY <2>1, CatalogueStep
          DEF PathsNext, MoveRebuild, MoveUploads, MoveSpeeds, MoveStreams, MoveRealtime,
              MoveCatalogue, pathVars
<1>3. CatalogueInv => BackfillHonest
  BY DEF CatalogueInv, BackfillHonest, Catalogue!BackfillHonest, Catalogue!Complete, Honest
<1> QED BY <1>1, <1>2, <1>3, PTL DEF PathsSpec
-----------------------------------------------------------------------------
(* --- the live devices -------------------------------------------------------- *)

(* The two tables have an entry for each device. *)
TablesInv ==
    /\ live = [d \in Devices |-> live[d]]
    /\ promoted = [d \in Devices |-> promoted[d]]

(* A row that goes from live is a marker, or came after the history of its *)
(* device was read by the promotion that deletes.                          *)
Accounted ==
    \A d \in Devices : \A n \in live[d] \ live'[d] :
        \/ n \in promoted'[d]
        \/ \E p \in Promotions : carried[p].device = d /\ n \notin carried[p].rows

(* Nothing but the move deletes. *)
LEMMA NothingGoes ==
    ASSUME TablesInv, UNCHANGED live,
           promoted' = [d \in Devices |-> promoted'[d]]
    PROVE  TablesInv' /\ Accounted
BY DEF TablesInv, Accounted

LEMMA MoveAccounts ==
    ASSUME TablesInv, NEW p \in Promotions, Realtime!Move(p)
    PROVE  TablesInv' /\ Accounted
<1> DEFINE d == carried[p].device
           rowsMoved == carried[p].rows
<1>1. /\ promoted' = [promoted EXCEPT ![d] = @ \cup rowsMoved]
      /\ live' = [live EXCEPT ![d] = {}]
  BY DEF Realtime!Move
<1>2. TablesInv'
  BY <1>1 DEF TablesInv
<1>3. ASSUME NEW e \in Devices, NEW n \in live[e] \ live'[e]
      PROVE  \/ n \in promoted'[e]
             \/ carried[p].device = e /\ n \notin carried[p].rows
  <2>1. e = d
    BY <1>1, <1>3 DEF TablesInv
  <2>2. promoted'[e] = promoted[e] \cup rowsMoved
    BY <1>1, <2>1 DEF TablesInv
  <2> QED BY <2>1, <2>2
<1> QED BY <1>2, <1>3 DEF Accounted

LEMMA RealtimeStep == ASSUME TablesInv, Realtime!Next PROVE TablesInv' /\ Accounted
<1> USE DEF Realtime!feedVars, Realtime!pollVars, Realtime!runVars
<1>0. UNCHANGED <<live, promoted>> => TablesInv' /\ Accounted
  BY NothingGoes DEF TablesInv
<1>1. ASSUME NEW d \in Devices, Realtime!Report(d) \/ Realtime!Age(d)
      PROVE  TablesInv' /\ Accounted
  BY <1>0, <1>1 DEF Realtime!Report, Realtime!Age
<1>2. CASE Realtime!Tick \/ Realtime!Fetch \/ Realtime!FetchFails
  BY <1>0, <1>2 DEF Realtime!Tick, Realtime!Fetch, Realtime!FetchFails, Realtime!Poll
<1>3. ASSUME NEW d \in Devices, NEW n \in 1..MaxReadings, Realtime!InsertFails(d, n)
      PROVE  TablesInv' /\ Accounted
  BY <1>0, <1>3 DEF Realtime!InsertFails, Realtime!Poll
<1>4. ASSUME NEW d \in Devices, NEW n \in 1..MaxReadings, Realtime!Insert(d, n)
      PROVE  TablesInv' /\ Accounted
  <2>1. live' = [live EXCEPT ![d] = @ \cup {n}] /\ UNCHANGED promoted
    BY <1>4 DEF Realtime!Insert, Realtime!Poll
  <2> QED BY <2>1 DEF TablesInv, Accounted
<1>5. ASSUME NEW p \in Promotions, Realtime!Launch(p) \/ Realtime!Gather(p) \/ Realtime!ReadFails(p)
      PROVE  TablesInv' /\ Accounted
  BY <1>0, <1>5 DEF Realtime!Launch, Realtime!Poll, Realtime!Gather, Realtime!ReadFails,
                    Realtime!Abort
<1>6. ASSUME NEW p \in Promotions, NEW d \in Devices, Realtime!FetchRows(p, d)
      PROVE  TablesInv' /\ Accounted
  BY <1>0, <1>6 DEF Realtime!FetchRows
<1>7. ASSUME NEW p \in Promotions, Realtime!MoveFails(p)
      PROVE  TablesInv' /\ Accounted
  <2>1. UNCHANGED live
    BY <1>7 DEF Realtime!MoveFails, Realtime!Abort
  <2>2. PICK written : promoted' = [promoted EXCEPT ![carried[p].device] = @ \cup written]
    BY <1>7 DEF Realtime!MoveFails
  <2> QED BY <2>1, <2>2, NothingGoes DEF TablesInv
<1>8. CASE Realtime!Crash
  <2>1. UNCHANGED live
    BY <1>8 DEF Realtime!Crash
  <2>2. \/ UNCHANGED promoted
        \/ \E d, written : promoted' = [promoted EXCEPT ![d] = @ \cup written]
    BY <1>8 DEF Realtime!Crash
  <2> QED BY <2>1, <2>2, NothingGoes DEF TablesInv
<1> QED
  BY <1>1, <1>2, <1>3, <1>4, <1>5, <1>6, <1>7, <1>8, MoveAccounts
  DEF Realtime!Next, Realtime!Promotion

LEMMA PathsStep == ASSUME TablesInv, [PathsNext]_pathVars PROVE TablesInv' /\ Accounted
<1>1. CASE UNCHANGED realtimeVars
  BY <1>1, NothingGoes DEF realtimeVars, TablesInv
<1> QED
  BY <1>1, RealtimeStep
  DEF PathsNext, MoveRebuild, MoveUploads, MoveSpeeds, MoveStreams, MoveRealtime,
      MoveCatalogue, pathVars

(* The property of the run: a live row disappears only by becoming a       *)
(* marker, or because it was written after the promotion had read the      *)
(* history of its device (database.go PromoteStaleRealtime).               *)
THEOREM NothingIsLost == PathsSpec => NothingVanishes
<1>1. PathsInit => TablesInv
  BY DEF PathsInit, Realtime!Init, TablesInv
<1>2. TablesInv /\ [PathsNext]_pathVars => TablesInv'
  BY PathsStep
<1>3. TablesInv /\ [PathsNext]_pathVars => [Accounted]_(Realtime!vars)
  BY PathsStep
<1> QED
  BY <1>1, <1>2, <1>3, PTL DEF PathsSpec, NothingVanishes, Realtime!NothingVanishes, Accounted
-----------------------------------------------------------------------------
(* --- the uploads ------------------------------------------------------------- *)

(* Every row has the id it was made with, which is its unique key.         *)
Keyed(set) == set \subseteq Uploading!Rows /\ \A r \in set : r.id = Uploading!Key(r)

UploadTypes ==
    /\ Keyed(rows)
    /\ uploadTrack \in [Uploads -> Tracks]
    /\ DOMAIN uploadStep = Uploads /\ uploadStep = [u \in Uploads |-> uploadStep[u]]
    /\ uploadBatch = [u \in Uploads |-> uploadBatch[u]]
    /\ \A u \in Uploads : Keyed(uploadBatch[u])

(* The raw point p of the upload is in the table, or on its way there; a   *)
(* row that conflicts with it on the way is the same point.                *)
Sure(u, p) ==
    \E m \in rows \cup uploadBatch[u] :
        m.track = uploadTrack[u] /\ m.point = p /\ m.zoom = 0

UploadsInv ==
    /\ UploadTypes
    /\ \A u \in Uploads :
          /\ uploadStep[u] \in {"storing", "finished"} => \A p \in Uploading!Valid(u) : Sure(u, p)
          /\ uploadStep[u] = "finished" => uploadBatch[u] = {}

LEMMA UploadRow ==
    ASSUME NEW t \in Tracks, NEW p \in Points, NEW z \in {0} \cup Zooms
    PROVE  Keyed({Uploading!Row(t, p, z)})
BY DEF Keyed, Uploading!Row, Uploading!Rows, Uploading!Keys, Uploading!Key

LEMMA FreshlyKeyed ==
    ASSUME NEW set \in SUBSET Uploading!Rows
    PROVE  /\ Keyed(Uploading!WithFreshIds(set))
           /\ \A r \in set : \E q \in Uploading!WithFreshIds(set) : Uploading!Key(q) = Uploading!Key(r)
           /\ \A q \in Uploading!WithFreshIds(set) : \E r \in set : Uploading!Key(q) = Uploading!Key(r)
<1>1. ASSUME NEW r \in set
      PROVE  /\ Keyed({Uploading!Row(r.track, r.point, r.zoom)})
             /\ Uploading!Key(Uploading!Row(r.track, r.point, r.zoom)) = Uploading!Key(r)
  <2>1. r.track \in Tracks /\ r.point \in Points /\ r.zoom \in {0} \cup Zooms
    BY DEF Uploading!Rows
  <2> QED BY <2>1, UploadRow DEF Uploading!Key, Uploading!Row
<1> QED BY <1>1 DEF Uploading!WithFreshIds, Keyed

LEMMA AggregatesTyped ==
    ASSUME NEW set \in SUBSET Uploading!Rows
    PROVE  Uploading!Aggregates(set) \subseteq Uploading!Rows
<1>1. ASSUME NEW a \in Uploading!Aggregates(set) PROVE a \in Uploading!Rows
  <2>1. PICK r \in set : \E z \in Zooms : a = Uploading!AtZoom(r, z)
    BY <1>1 DEF Uploading!Aggregates
  <2>2. r \in Uploading!Rows
    OBVIOUS
  <2> QED BY <2>1, <2>2 DEF Uploading!AtZoom, Uploading!Rows
<1> QED BY <1>1

(* After an INSERT every key of the chunk is in the table: what was not    *)
(* admitted was there before.                                              *)
LEMMA InsertCovers ==
    ASSUME Keyed(rows), NEW c, Keyed(c)
    PROVE  /\ Keyed(rows \cup Uploading!Admitted(c))
           /\ \A r \in c : \E m \in rows \cup Uploading!Admitted(c) : Uploading!Key(m) = Uploading!Key(r)
<1>1. CASE UploadEngine = "pgx"
  <2>1. c \in SUBSET Uploading!Rows
    BY DEF Keyed
  <2>2. Uploading!Admitted(c) =
          {r \in Uploading!WithFreshIds(c) : \A m \in rows : Uploading!Key(m) # Uploading!Key(r)}
    BY <1>1 DEF Uploading!Admitted
  <2> QED BY <2>1, <2>2, FreshlyKeyed DEF Keyed
<1>2. CASE UploadEngine # "pgx"
  <2>1. Uploading!Admitted(c) =
          {r \in c : /\ \A m \in rows : Uploading!Key(m) # Uploading!Key(r) /\ m.id # r.id
                     /\ \A q \in c : q.id = r.id => r.zoom <= q.zoom}
    BY <1>2 DEF Uploading!Admitted
  <2>2. ASSUME NEW r \in c, \A m \in rows : Uploading!Key(m) # Uploading!Key(r)
        PROVE  r \in Uploading!Admitted(c)
    <3>1. \A m \in rows : m.id # r.id
      BY <2>2 DEF Keyed
    <3>2. ASSUME NEW q \in c, q.id = r.id PROVE r.zoom <= q.zoom
      <4>1. Uploading!Key(q) = Uploading!Key(r)
        BY <3>2 DEF Keyed
      <4>2. q.zoom = r.zoom /\ r.zoom \in {0} \cup Zooms
        BY <4>1 DEF Uploading!Key, Keyed, Uploading!Rows
      <4>3. r.zoom \in Nat
        <5>1. {0} \cup Zooms \subseteq Nat
          BY DataAssumption
        <5> QED BY <4>2, <5>1
      <4> QED BY <4>2, <4>3
    <3> QED BY <2>1, <2>2, <3>1, <3>2
  <2>3. Uploading!Admitted(c) \subseteq c
    BY <2>1
  <2> QED BY <2>2, <2>3 DEF Keyed
<1> QED BY <1>1, <1>2

LEMMA UploadsStart == ASSUME Uploading!Init PROVE UploadsInv
<1>1. UploadTypes
  BY PathsAssumption DEF Uploading!Init, Uploading!ImportsInit, UploadTypes, Keyed
<1>2. ASSUME NEW u \in Uploads PROVE uploadStep[u] \notin {"storing", "finished"}
  <2>1. UploadKind[u] \in {"upload", "export", "fixed"}
    BY PathsAssumption
  <2>2. uploadStep[u] = CASE UploadKind[u] = "export" -> "checking"
                          [] UploadKind[u] = "upload" -> "probing"
                          [] UploadKind[u] = "fixed" -> "registering"
    BY DEF Uploading!Init, Uploading!ImportsInit
  <2> QED BY <2>1, <2>2
<1> QED BY <1>1, <1>2 DEF UploadsInv

(* A step that moves one upload to a place where it owes nothing.          *)
LEMMA NothingOwed ==
    ASSUME UploadsInv, NEW u \in Uploads, NEW place, place \notin {"storing", "finished"},
           uploadStep' = [uploadStep EXCEPT ![u] = place],
           UNCHANGED rows, uploadTrack' \in [Uploads -> Tracks],
           \A v \in Uploads \ {u} : uploadTrack'[v] = uploadTrack[v],
           \/ UNCHANGED uploadBatch
           \/ uploadBatch' = [uploadBatch EXCEPT ![u] = {}]
    PROVE  UploadsInv'
<1>1. \A v \in Uploads : v # u => uploadBatch'[v] = uploadBatch[v] /\ uploadStep'[v] = uploadStep[v]
  BY DEF UploadsInv, UploadTypes
<1>2. UploadTypes'
  BY DEF UploadsInv, UploadTypes, Keyed
<1>3. uploadStep'[u] = place
  BY DEF UploadsInv, UploadTypes
<1> QED BY <1>1, <1>2, <1>3 DEF UploadsInv, Sure, Uploading!Valid

LEMMA RegisterKeeps ==
    ASSUME UploadsInv, NEW u \in Uploads, Uploading!Register(u)
    PROVE  UploadsInv'
<1> DEFINE raws == {Uploading!Row(uploadTrack[u], p, 0) : p \in Uploading!Valid(u)}
           all == raws \cup Uploading!WithFreshIds(Uploading!Aggregates(raws))
<1>1. /\ uploadBatch' = [uploadBatch EXCEPT ![u] = all]
      /\ uploadStep' = [uploadStep EXCEPT ![u] = "storing"]
      /\ UNCHANGED <<rows, uploadTrack>>
  BY DEF Uploading!Register
<1>2. uploadTrack[u] \in Tracks /\ Uploading!Valid(u) \subseteq Points
  BY PathsAssumption DEF UploadsInv, UploadTypes, Uploading!Valid
<1>3. Keyed(raws)
  BY <1>2, UploadRow DEF Keyed
<1>4. Keyed(all)
  <2>1. raws \in SUBSET Uploading!Rows
    BY <1>3 DEF Keyed
  <2> HIDE DEF raws
  <2> QED BY <1>3, <2>1, AggregatesTyped, FreshlyKeyed DEF Keyed
<1>5. \A p \in Uploading!Valid(u) :
        \E m \in all : m.track = uploadTrack[u] /\ m.point = p /\ m.zoom = 0
  <2> TAKE p \in Uploading!Valid(u)
  <2> WITNESS Uploading!Row(uploadTrack[u], p, 0) \in all
  <2> QED BY DEF Uploading!Row
<1> HIDE DEF raws, all
<1>6. uploadBatch'[u] = all /\ uploadStep'[u] = "storing"
      /\ \A v \in Uploads : v # u => uploadBatch'[v] = uploadBatch[v] /\ uploadStep'[v] = uploadStep[v]
  BY <1>1 DEF UploadsInv, UploadTypes
<1>7. UploadTypes'
  BY <1>1, <1>4, <1>6 DEF UploadsInv, UploadTypes, Keyed
<1> QED BY <1>1, <1>5, <1>6, <1>7 DEF UploadsInv, Sure, Uploading!Valid

LEMMA StoreKeeps ==
    ASSUME UploadsInv, NEW u \in Uploads, Uploading!Store(u)
    PROVE  UploadsInv'
<1>1. PICK c \in Uploading!Chunk(uploadBatch[u]) :
        /\ rows' = rows \cup Uploading!Admitted(c)
        /\ uploadBatch' = [uploadBatch EXCEPT ![u] = @ \ c]
        /\ uploadStep' = IF uploadBatch[u] = c THEN [uploadStep EXCEPT ![u] = "finished"] ELSE uploadStep
  BY DEF Uploading!Store
<1>2. c \subseteq uploadBatch[u]
  BY <1>1 DEF Uploading!Chunk, Uploading!kSubset
<1>3. Keyed(rows) /\ Keyed(uploadBatch[u]) /\ Keyed(c)
  BY <1>2 DEF UploadsInv, UploadTypes, Keyed
<1>4. /\ Keyed(rows') /\ rows \subseteq rows'
      /\ \A r \in c : \E m \in rows' : Uploading!Key(m) = Uploading!Key(r)
  BY <1>1, <1>3, InsertCovers
<1>5. /\ UNCHANGED uploadTrack /\ uploadStep[u] = "storing"
      /\ \A v \in Uploads : v # u => uploadBatch'[v] = uploadBatch[v] /\ uploadStep'[v] = uploadStep[v]
      /\ uploadBatch'[u] = uploadBatch[u] \ c
      /\ uploadStep'[u] \in {"storing", "finished"}
      /\ uploadStep'[u] = "finished" => uploadBatch[u] = c
  BY <1>1 DEF Uploading!Store, UploadsInv, UploadTypes
<1>6. UploadTypes'
  BY <1>1, <1>3, <1>4, <1>5 DEF UploadsInv, UploadTypes, Keyed
<1>7. ASSUME NEW p \in Uploading!Valid(u) PROVE Sure(u, p)'
  <2>1. PICK m \in rows \cup uploadBatch[u] :
          m.track = uploadTrack[u] /\ m.point = p /\ m.zoom = 0
    BY <1>5, <1>7 DEF UploadsInv, Sure
  <2>2. CASE m \in c
    BY <2>1, <2>2, <1>4, <1>5 DEF Sure, Uploading!Key
  <2>3. CASE m \notin c
    BY <2>1, <2>3, <1>4, <1>5 DEF Sure
  <2> QED BY <2>2, <2>3
<1>8. ASSUME NEW v \in Uploads, v # u, NEW p, Sure(v, p) PROVE Sure(v, p)'
  BY <1>4, <1>5, <1>8 DEF Sure
<1>9. \A v \in Uploads : Uploading!Valid(v)' = Uploading!Valid(v)
  BY DEF Uploading!Valid
<1>10. ASSUME NEW v \in Uploads
       PROVE  /\ uploadStep'[v] \in {"storing", "finished"} => \A p \in Uploading!Valid(v) : Sure(v, p)'
              /\ uploadStep'[v] = "finished" => uploadBatch'[v] = {}
  <2>1. CASE v = u
    BY <2>1, <1>5, <1>7
  <2>2. CASE v # u
    BY <2>2, <1>5, <1>8 DEF UploadsInv
  <2> QED BY <2>1, <2>2
<1> QED BY <1>6, <1>9, <1>10 DEF UploadsInv

LEMMA UploadsStep == ASSUME UploadsInv, Uploading!Next PROVE UploadsInv'
<1>1. ASSUME NEW u \in Uploads, Uploading!Import(u) PROVE UploadsInv'
  <2>1. CASE Uploading!Check(u)
    <3>1. PICK place \in {"skipped", "probing"} : uploadStep' = [uploadStep EXCEPT ![u] = place]
      BY <2>1 DEF Uploading!Check
    <3>2. UNCHANGED <<rows, uploadTrack, uploadBatch>>
      BY <2>1 DEF Uploading!Check, Uploading!tables
    <3> QED BY <3>1, <3>2, NothingOwed DEF UploadsInv, UploadTypes
  <2>2. CASE Uploading!Probe(u)
    <3>1. PICK t \in Tracks : uploadTrack' = [uploadTrack EXCEPT ![u] = t]
      BY <2>2, PathsAssumption DEF Uploading!Probe, Uploading!Existing
    <3>2. /\ uploadStep' = [uploadStep EXCEPT ![u] = "registering"]
          /\ UNCHANGED <<rows, uploadBatch>>
      BY <2>2 DEF Uploading!Probe, Uploading!tables
    <3>3. uploadTrack' \in [Uploads -> Tracks] /\ \A v \in Uploads \ {u} : uploadTrack'[v] = uploadTrack[v]
      BY <3>1 DEF UploadsInv, UploadTypes
    <3> QED BY <3>2, <3>3, NothingOwed
  <2>3. CASE Uploading!Reject(u)
    BY <2>3, NothingOwed DEF Uploading!Reject, Uploading!tables, UploadsInv, UploadTypes
  <2>4. CASE Uploading!Fail(u)
    BY <2>4, NothingOwed DEF Uploading!Fail, Uploading!tables, UploadsInv, UploadTypes
  <2> QED BY <1>1, <2>1, <2>2, <2>3, <2>4, RegisterKeeps, StoreKeeps DEF Uploading!Import
<1>2. CASE Uploading!Crash
  <2>1. /\ uploadStep' = [u \in Uploads |-> IF Uploading!Active(u) THEN "failed" ELSE uploadStep[u]]
        /\ uploadBatch' = [u \in Uploads |-> {}]
        /\ UNCHANGED <<rows, uploadTrack>>
    BY <1>2 DEF Uploading!Crash, Uploading!tables
  <2>2. UploadTypes'
    BY <2>1 DEF UploadsInv, UploadTypes, Keyed
  <2>3. \A u \in Uploads : uploadStep'[u] \in {"storing", "finished"} =>
          uploadStep[u] = "finished" /\ uploadBatch[u] = {}
    BY <2>1 DEF UploadsInv, Uploading!Active
  <2> QED BY <2>1, <2>2, <2>3 DEF UploadsInv, Sure, Uploading!Valid
<1> QED BY <1>1, <1>2 DEF Uploading!Next

(* The property of the run: what an import reports as stored is in the     *)
(* table, although rows of other imports into the same track may have come *)
(* first, chunk by chunk (InsertMarkersBulk, ON CONFLICT DO NOTHING).      *)
THEOREM StoredIsStored == PathsSpec => []UploadsStored
<1>1. PathsInit => UploadsInv
  BY UploadsStart DEF PathsInit
<1>2. UploadsInv /\ [PathsNext]_pathVars => UploadsInv'
  <2>1. UploadsInv /\ UNCHANGED uploadVars => UploadsInv'
    BY DEF uploadVars, UploadsInv, UploadTypes, Keyed, Sure, Uploading!Valid
  <2> QED BY <2>1, UploadsStep
          DEF PathsNext, MoveRebuild, MoveUploads, MoveSpeeds, MoveStreams, MoveRealtime,
              MoveCatalogue, pathVars
<1>3. UploadsInv => UploadsStored
  BY DEF UploadsInv, Sure, UploadsStored, Uploading!FinishedIsStored, Uploading!RawPoints,
         Uploading!Raws
<1> QED BY <1>1, <1>2, <1>3, PTL DEF PathsSpec

(* --- the peaks of the uploads ------------------------------------------------ *)

(* The peaks of what is still to insert are in the table or come with it.  *)
BatchesPeak ==
    \A u \in Uploads :
        /\ uploadBatch[u] # {} => uploadStep[u] = "storing"
        /\ \A m \in uploadBatch[u] : m.track = uploadTrack[u]
        /\ \A m \in uploadBatch[u], z \in Zooms : m.zoom = 0 => PeakIn(rows \cup uploadBatch[u], m, z)

(* The peaks of what is in the table are there, too, or on their way; or   *)
(* an import to the track was broken off.                                  *)
TablePeaks ==
    \A m \in rows, z \in Zooms : m.zoom = 0 =>
        \/ PeakIn(rows, m, z)
        \/ \E u \in Uploads : uploadTrack[u] = m.track /\ uploadStep[u] = "failed"
        \/ \E u \in Uploads : PeakIn(uploadBatch[u], m, z)

PeaksInv == UploadsInv /\ BatchesPeak /\ TablePeaks

(* A peak is shown by whatever row has the key of the one that showed it.  *)
LEMMA PeakMoves ==
    ASSUME NEW old, NEW new, \A a \in old : \E b \in new : Uploading!Key(b) = Uploading!Key(a),
           NEW m, NEW n, Uploading!Key(n) = Uploading!Key(m), NEW z, PeakIn(old, m, z)
    PROVE  PeakIn(new, n, z)
<1>1. PICK a \in old : /\ a.track = m.track /\ a.zoom = z
                       /\ CellOf[z][a.point] = CellOf[z][m.point] /\ a.point >= m.point
  BY DEF PeakIn
<1>2. PICK b \in new : Uploading!Key(b) = Uploading!Key(a)
  OBVIOUS
<1>3. b.track = a.track /\ b.zoom = a.zoom /\ b.point = a.point
      /\ n.track = m.track /\ n.point = m.point
  BY <1>2 DEF Uploading!Key
<1> QED BY <1>1, <1>3 DEF PeakIn

LEMMA PeakGrows ==
    ASSUME NEW old, NEW new, old \subseteq new, NEW m, NEW z, PeakIn(old, m, z)
    PROVE  PeakIn(new, m, z)
BY DEF PeakIn

(* The uploads make their rows as the imports beside the rebuild do. *)
LEMMA SameRows ==
    /\ \A t, p, z : Uploading!Row(t, p, z) = Row(t, p, z)
    /\ \A set : Uploading!Aggregates(set) = Aggregates(set)
    /\ \A set : Uploading!WithFreshIds(set) = WithFreshIds(set)
    /\ Uploading!Rows = Rows
BY DEF Uploading!Row, Row, Uploading!Aggregates, Aggregates, Uploading!AtZoom, AtZoom,
       Uploading!Winners, Winners, Uploading!WithFreshIds, WithFreshIds,
       Uploading!Rows, Rows, Uploading!Keys, Keys

(* What Register puts in a batch shows its own peaks. *)
LEMMA BatchShowsPeaks ==
    ASSUME NEW t \in Tracks, NEW ps \in SUBSET Points
    PROVE  LET raws == {Uploading!Row(t, p, 0) : p \in ps}
               all == raws \cup Uploading!WithFreshIds(Uploading!Aggregates(raws))
           IN  \A m \in all : /\ m.track = t
                              /\ \A z \in Zooms : m.zoom = 0 => PeakIn(all, m, z)
<1> DEFINE raws == {Uploading!Row(t, p, 0) : p \in ps}
           same == {Row(t, p, 0) : p \in ps}
<1>1. raws = same
  BY SameRows
<1>2. \A m \in same \cup WithFreshIds(Aggregates(same)) :
          m.track = t /\ \A z \in Zooms : m.zoom = 0 => PeakIn(same \cup WithFreshIds(Aggregates(same)), m, z)
  BY BatchRows, BatchShows
<1> HIDE DEF raws, same
<1> QED BY <1>1, <1>2, SameRows DEF raws

(* Fresh ids leave a row its key. *)
LEMMA AdmittedAreOf ==
    ASSUME NEW c, Keyed(c), NEW m \in Uploading!Admitted(c)
    PROVE  \E r \in c : Uploading!Key(m) = Uploading!Key(r)
<1>1. c \in SUBSET Uploading!Rows
  BY DEF Keyed
<1> QED BY <1>1, FreshlyKeyed DEF Uploading!Admitted

(* A step of an upload that has nothing to insert. *)
LEMMA PeaksStand ==
    ASSUME PeaksInv, NEW u \in Uploads, NEW place, uploadStep[u] \notin {"storing", "failed"},
           uploadStep' = [uploadStep EXCEPT ![u] = place],
           UNCHANGED <<rows, uploadBatch>>,
           \A v \in Uploads \ {u} : uploadTrack'[v] = uploadTrack[v]
    PROVE  BatchesPeak' /\ TablePeaks'
<1>1. uploadBatch[u] = {} /\ \A v \in Uploads \ {u} : uploadStep'[v] = uploadStep[v]
  BY DEF PeaksInv, BatchesPeak, UploadsInv, UploadTypes
<1>2. BatchesPeak'
  BY <1>1 DEF PeaksInv, BatchesPeak
<1>3. ASSUME NEW m \in rows, NEW z \in Zooms, m.zoom = 0
      PROVE  \/ PeakIn(rows, m, z)
             \/ \E v \in Uploads : uploadTrack'[v] = m.track /\ uploadStep'[v] = "failed"
             \/ \E v \in Uploads : PeakIn(uploadBatch[v], m, z)
  BY <1>1, <1>3 DEF PeaksInv, TablePeaks
<1> QED BY <1>2, <1>3 DEF TablePeaks

(* Imports that are broken off, one or all, leave their tracks failed.     *)
LEMMA PeaksBroken ==
    ASSUME PeaksInv, UNCHANGED <<rows, uploadTrack>>,
           \A v \in Uploads : \/ uploadBatch'[v] = uploadBatch[v] /\ uploadStep'[v] = uploadStep[v]
                              \/ uploadBatch'[v] = {} /\ uploadStep'[v] = "failed"
                              \/ uploadBatch'[v] = {} /\ uploadBatch[v] = {} /\ uploadStep[v] # "failed"
    PROVE  BatchesPeak' /\ TablePeaks'
<1>1. BatchesPeak'
  BY DEF PeaksInv, BatchesPeak
<1>2. ASSUME NEW m \in rows, NEW z \in Zooms, m.zoom = 0
      PROVE  \/ PeakIn(rows, m, z)
             \/ \E v \in Uploads : uploadTrack[v] = m.track /\ uploadStep'[v] = "failed"
             \/ \E v \in Uploads : PeakIn(uploadBatch'[v], m, z)
  <2>1. CASE PeakIn(rows, m, z)
    BY <2>1
  <2>2. ASSUME NEW v \in Uploads, uploadTrack[v] = m.track, uploadStep[v] = "failed"
        PROVE  uploadStep'[v] = "failed"
    BY <2>2
  <2>3. ASSUME NEW v \in Uploads, PeakIn(uploadBatch[v], m, z)
        PROVE  \/ uploadTrack[v] = m.track /\ uploadStep'[v] = "failed"
               \/ PeakIn(uploadBatch'[v], m, z)
    <3>1. uploadBatch[v] # {} /\ uploadTrack[v] = m.track
      BY <2>3 DEF PeakIn, PeaksInv, BatchesPeak
    <3> QED BY <2>3, <3>1
  <2> QED BY <1>2, <2>1, <2>2, <2>3 DEF PeaksInv, TablePeaks
<1> QED BY <1>1, <1>2 DEF TablePeaks

(* A batch begins with all its peaks. *)
LEMMA RegisterPeaks ==
    ASSUME PeaksInv, NEW u \in Uploads, Uploading!Register(u)
    PROVE  BatchesPeak' /\ TablePeaks'
<1> DEFINE raws == {Uploading!Row(uploadTrack[u], p, 0) : p \in Uploading!Valid(u)}
           all == raws \cup Uploading!WithFreshIds(Uploading!Aggregates(raws))
<1>1. /\ uploadBatch' = [uploadBatch EXCEPT ![u] = all]
      /\ uploadStep' = [uploadStep EXCEPT ![u] = "storing"]
      /\ uploadStep[u] = "registering" /\ UNCHANGED <<rows, uploadTrack>>
  BY DEF Uploading!Register
<1>2. uploadTrack[u] \in Tracks /\ Uploading!Valid(u) \in SUBSET Points
  BY PathsAssumption DEF PeaksInv, UploadsInv, UploadTypes, Uploading!Valid
<1>3. \A m \in all : m.track = uploadTrack[u] /\ \A z \in Zooms : m.zoom = 0 => PeakIn(all, m, z)
  BY <1>2, BatchShowsPeaks
<1> HIDE DEF all
<1>4. uploadBatch'[u] = all /\ uploadStep'[u] = "storing" /\ uploadBatch[u] = {}
      /\ \A v \in Uploads : v # u => uploadBatch'[v] = uploadBatch[v] /\ uploadStep'[v] = uploadStep[v]
  BY <1>1 DEF PeaksInv, BatchesPeak, UploadsInv, UploadTypes
<1>5. \A m \in all, z \in Zooms : m.zoom = 0 => PeakIn(rows \cup all, m, z)
  BY <1>3, PeakGrows
<1>6. BatchesPeak'
  BY <1>1, <1>3, <1>4, <1>5 DEF PeaksInv, BatchesPeak
<1>7. ASSUME NEW m \in rows, NEW z \in Zooms, m.zoom = 0
      PROVE  \/ PeakIn(rows, m, z)
             \/ \E v \in Uploads : uploadTrack[v] = m.track /\ uploadStep'[v] = "failed"
             \/ \E v \in Uploads : PeakIn(uploadBatch'[v], m, z)
  <2>1. \A v \in Uploads : PeakIn(uploadBatch[v], m, z) => v # u
    BY <1>4 DEF PeakIn
  <2>2. \A v \in Uploads : uploadStep[v] = "failed" => v # u
    BY <1>1
  <2> QED BY <1>4, <1>7, <2>1, <2>2 DEF PeaksInv, TablePeaks
<1> QED BY <1>1, <1>6, <1>7 DEF TablePeaks

(* A chunk takes peaks and points from a batch into the table. *)
LEMMA StorePeaks ==
    ASSUME PeaksInv, NEW u \in Uploads, Uploading!Store(u)
    PROVE  BatchesPeak' /\ TablePeaks'
<1>1. PICK c \in Uploading!Chunk(uploadBatch[u]) :
        /\ rows' = rows \cup Uploading!Admitted(c)
        /\ uploadBatch' = [uploadBatch EXCEPT ![u] = @ \ c]
        /\ uploadStep' = IF uploadBatch[u] = c THEN [uploadStep EXCEPT ![u] = "finished"] ELSE uploadStep
  BY DEF Uploading!Store
<1>2. c \subseteq uploadBatch[u] /\ UNCHANGED uploadTrack /\ uploadStep[u] = "storing"
  BY <1>1 DEF Uploading!Chunk, Uploading!kSubset, Uploading!Store
<1>3. Keyed(rows) /\ Keyed(c)
  BY <1>2 DEF PeaksInv, UploadsInv, UploadTypes, Keyed
<1>4. /\ rows \subseteq rows'
      /\ \A r \in c : \E m \in rows' : Uploading!Key(m) = Uploading!Key(r)
      /\ \A m \in rows' : m \in rows \/ \E r \in c : Uploading!Key(m) = Uploading!Key(r)
  BY <1>1, <1>3, InsertCovers, AdmittedAreOf
<1>5. /\ \A v \in Uploads : v # u => uploadBatch'[v] = uploadBatch[v] /\ uploadStep'[v] = uploadStep[v]
      /\ uploadBatch'[u] = uploadBatch[u] \ c
      /\ uploadStep'[u] \in {"storing", "finished"}
      /\ uploadBatch'[u] # {} => uploadStep'[u] = "storing"
  BY <1>1, <1>2 DEF PeaksInv, UploadsInv, UploadTypes
<1>6. \A r \in rows \cup uploadBatch[u] :
        \E m \in rows' \cup uploadBatch'[u] : Uploading!Key(m) = Uploading!Key(r)
  BY <1>4, <1>5
<1>7. \A r \in uploadBatch[u] :
        \E m \in rows' \cup uploadBatch'[u] : Uploading!Key(m) = Uploading!Key(r)
  BY <1>6
<1>8. ASSUME NEW m \in uploadBatch'[u], NEW z \in Zooms, m.zoom = 0
      PROVE  PeakIn(rows' \cup uploadBatch'[u], m, z)
  <2>1. PeakIn(rows \cup uploadBatch[u], m, z)
    BY <1>5, <1>8 DEF PeaksInv, BatchesPeak
  <2> QED BY <1>6, <2>1, PeakMoves
<1>9. ASSUME NEW v \in Uploads, v # u, NEW m \in uploadBatch[v], NEW z \in Zooms, m.zoom = 0
      PROVE  PeakIn(rows' \cup uploadBatch[v], m, z)
  <2>1. PeakIn(rows \cup uploadBatch[v], m, z)
    BY <1>9 DEF PeaksInv, BatchesPeak
  <2>2. rows \cup uploadBatch[v] \subseteq rows' \cup uploadBatch[v]
    BY <1>4
  <2> QED BY <2>1, <2>2, PeakGrows
<1>10. BatchesPeak'
  <2>1. ASSUME NEW v \in Uploads
        PROVE  /\ uploadBatch'[v] # {} => uploadStep'[v] = "storing"
               /\ \A m \in uploadBatch'[v] : m.track = uploadTrack[v]
               /\ \A m \in uploadBatch'[v], z \in Zooms : m.zoom = 0 => PeakIn(rows' \cup uploadBatch'[v], m, z)
    <3>1. CASE v = u
      BY <1>5, <1>8, <3>1 DEF PeaksInv, BatchesPeak
    <3>2. CASE v # u
      BY <1>5, <1>9, <3>2 DEF PeaksInv, BatchesPeak
    <3> QED BY <3>1, <3>2
  <2> QED BY <1>2, <2>1 DEF BatchesPeak
<1>11. ASSUME NEW m, NEW z, PeakIn(rows' \cup uploadBatch'[u], m, z)
       PROVE  PeakIn(rows', m, z) \/ PeakIn(uploadBatch'[u], m, z)
  BY <1>11 DEF PeakIn
<1>12. ASSUME NEW m \in rows', NEW z \in Zooms, m.zoom = 0
       PROVE  \/ PeakIn(rows', m, z)
              \/ \E v \in Uploads : uploadTrack[v] = m.track /\ uploadStep'[v] = "failed"
              \/ \E v \in Uploads : PeakIn(uploadBatch'[v], m, z)
  <2>1. CASE m \in rows
    <3>1. CASE PeakIn(rows, m, z)
      BY <1>4, <3>1, PeakGrows
    <3>2. ASSUME NEW v \in Uploads, uploadTrack[v] = m.track, uploadStep[v] = "failed"
          PROVE  uploadStep'[v] = "failed"
      BY <1>2, <1>5, <3>2
    <3>3. ASSUME NEW v \in Uploads, PeakIn(uploadBatch[v], m, z)
          PROVE  PeakIn(rows', m, z) \/ PeakIn(uploadBatch'[v], m, z)
      <4>1. CASE v = u
        <5>1. PeakIn(rows' \cup uploadBatch'[u], m, z)
          BY <1>7, <3>3, <4>1, PeakMoves
        <5> QED BY <1>11, <4>1, <5>1
      <4>2. CASE v # u
        BY <1>5, <3>3, <4>2
      <4> QED BY <4>1, <4>2
    <3> QED BY <1>12, <2>1, <3>1, <3>2, <3>3 DEF PeaksInv, TablePeaks
  <2>2. CASE m \notin rows
    <3>1. PICK r \in c : Uploading!Key(m) = Uploading!Key(r)
      BY <1>4, <2>2
    <3>2. r.zoom = 0 /\ r \in uploadBatch[u]
      BY <1>2, <1>12, <3>1 DEF Uploading!Key
    <3>3. PeakIn(rows \cup uploadBatch[u], r, z)
      BY <3>2 DEF PeaksInv, BatchesPeak
    <3>4. PeakIn(rows' \cup uploadBatch'[u], m, z)
      BY <1>6, <3>1, <3>3, PeakMoves
    <3> QED BY <1>11, <3>4
  <2> QED BY <2>1, <2>2
<1> QED BY <1>2, <1>10, <1>12 DEF TablePeaks

(* Every step of the uploads, one action at a time. *)
LEMMA PeaksStep == ASSUME PeaksInv, Uploading!Next PROVE PeaksInv'
<1>1. UploadsInv'
  BY UploadsStep DEF PeaksInv
<1>2. ASSUME NEW u \in Uploads, Uploading!Import(u) PROVE BatchesPeak' /\ TablePeaks'
  <2>1. CASE Uploading!Check(u)
    <3>1. PICK place \in {"skipped", "probing"} : uploadStep' = [uploadStep EXCEPT ![u] = place]
      BY <2>1 DEF Uploading!Check
    <3> QED BY <2>1, <3>1, PeaksStand DEF Uploading!Check, Uploading!tables
  <2>2. CASE Uploading!Probe(u)
    <3>1. \A v \in Uploads \ {u} : uploadTrack'[v] = uploadTrack[v]
      BY <2>2 DEF Uploading!Probe, PeaksInv, UploadsInv, UploadTypes
    <3> QED BY <2>2, <3>1, PeaksStand DEF Uploading!Probe, Uploading!tables
  <2>3. CASE Uploading!Reject(u)
    BY <2>3, PeaksStand DEF Uploading!Reject, Uploading!tables
  <2>4. CASE Uploading!Fail(u)
    <3>1. /\ uploadBatch'[u] = {} /\ uploadStep'[u] = "failed"
          /\ \A v \in Uploads : v # u => uploadBatch'[v] = uploadBatch[v] /\ uploadStep'[v] = uploadStep[v]
          /\ UNCHANGED <<rows, uploadTrack>>
      BY <2>4 DEF Uploading!Fail, Uploading!tables, PeaksInv, UploadsInv, UploadTypes
    <3> QED BY <3>1, PeaksBroken
  <2> QED BY <1>2, <2>1, <2>2, <2>3, <2>4, RegisterPeaks, StorePeaks DEF Uploading!Import
<1>3. CASE Uploading!Crash
  <2>1. /\ UNCHANGED <<rows, uploadTrack>>
        /\ uploadStep' = [v \in Uploads |-> IF Uploading!Active(v) THEN "failed" ELSE uploadStep[v]]
        /\ uploadBatch' = [v \in Uploads |-> {}]
    BY <1>3 DEF Uploading!Crash, Uploading!tables
  <2>2. ASSUME NEW v \in Uploads
        PROVE  \/ uploadBatch'[v] = uploadBatch[v] /\ uploadStep'[v] = uploadStep[v]
               \/ uploadBatch'[v] = {} /\ uploadStep'[v] = "failed"
               \/ uploadBatch'[v] = {} /\ uploadBatch[v] = {} /\ uploadStep[v] # "failed"
    <3>1. uploadBatch[v] # {} => uploadStep[v] = "storing"
      BY DEF PeaksInv, BatchesPeak
    <3> QED BY <2>1, <3>1 DEF Uploading!Active
  <2> QED BY <1>1, <2>1, <2>2, PeaksBroken DEF PeaksInv
<1> QED BY <1>1, <1>2, <1>3 DEF Uploading!Next, PeaksInv

(* The property of the run: once no upload to a track is under way or was  *)
(* broken off, every cell of the map shows a point at least as hot as each *)
(* raw point of the track in it, also when several files were merged into  *)
(* it chunk by chunk (precomputeMarkersForAllZoomLevels).                  *)
THEOREM PeaksAreShown == PathsSpec => []UploadsShowPeaks
<1>1. PathsInit => PeaksInv
  <2> SUFFICES ASSUME PathsInit PROVE PeaksInv
    OBVIOUS
  <2>1. UploadsInv
    BY UploadsStart DEF PathsInit
  <2>2. rows = {} /\ \A u \in Uploads : uploadBatch[u] = {}
    BY DEF PathsInit, Uploading!Init, Uploading!ImportsInit
  <2> QED BY <2>1, <2>2 DEF PeaksInv, BatchesPeak, TablePeaks
<1>2. PeaksInv /\ [PathsNext]_pathVars => PeaksInv'
  <2> SUFFICES ASSUME PeaksInv, [PathsNext]_pathVars PROVE PeaksInv'
    OBVIOUS
  <2>1. CASE Uploading!Next
    BY <2>1, PeaksStep
  <2>2. CASE UNCHANGED uploadVars
    BY <2>2 DEF uploadVars, PeaksInv, BatchesPeak, TablePeaks, PeakIn, UploadsInv, UploadTypes, Keyed,
                Sure, Uploading!Valid
  <2> QED BY <2>1, <2>2
          DEF PathsNext, MoveRebuild, MoveUploads, MoveSpeeds, MoveStreams, MoveRealtime,
              MoveCatalogue, pathVars
<1>3. PeaksInv => UploadsShowPeaks
  <2> SUFFICES ASSUME PeaksInv, NEW t \in Tracks,
                      \A u \in Uploads : uploadTrack[u] = t => uploadStep[u] \notin {"storing", "failed"},
                      NEW m \in Uploading!Raws(t), NEW z \in Zooms
               PROVE  \E a \in rows : /\ a.track = t /\ a.zoom = z
                                      /\ CellOf[z][a.point] = CellOf[z][m.point]
                                      /\ a.point >= m.point
    BY DEF UploadsShowPeaks, Uploading!SettledPeaksShown, Uploading!PeaksShown
  <2>1. m \in rows /\ m.track = t /\ m.zoom = 0
    BY DEF Uploading!Raws
  <2>2. ASSUME NEW u \in Uploads, PeakIn(uploadBatch[u], m, z) PROVE FALSE
    <3>1. uploadStep[u] = "storing" /\ uploadTrack[u] = t
      BY <2>1, <2>2 DEF PeakIn, PeaksInv, BatchesPeak
    <3> QED BY <3>1
  <2>3. PeakIn(rows, m, z)
    BY <2>1, <2>2 DEF PeaksInv, TablePeaks
  <2> QED BY <2>1, <2>3 DEF PeakIn
<1> QED BY <1>1, <1>2, <1>3, PTL DEF PathsSpec

(* --- files that come again ----------------------------------------------------- *)

(* The rows of a file with the points ps: each point, and at each zoom the *)
(* hottest ones of its cells.                                              *)
Marks(ps) == {<<p, 0>> : p \in ps} \cup {k \in ps \X Zooms : k[1] \in Winners(ps, k[2])}

(* A file that comes again has rows enough to be known again. *)
EnoughRows ==
    \A u, v \in Uploads :
        u # v /\ UploadFile[u] = UploadFile[v] /\ Uploading!Valid(u) # {} =>
            Cardinality(Marks(Uploading!Valid(u))) >= Threshold

(* Generated IDs are not drawn twice; a file without a usable point needs  *)
(* none.                                                                   *)
OwnApart ==
    \A u, v \in Uploads :
        u # v /\ UploadOwn[u] = UploadOwn[v] => Uploading!Valid(u) = {} \/ Uploading!Valid(v) = {}

(* Mark k of the upload is in the table, or on its way there. *)
MarkIn(u, k) ==
    \E m \in rows \cup uploadBatch[u] :
        m.track = uploadTrack[u] /\ m.point = k[1] /\ m.zoom = k[2]

(* An upload whose ID is track t stores there, or has.                     *)
Backed(t) ==
    \E u \in Uploads : /\ UploadOwn[u] = t /\ uploadTrack[u] = t
                       /\ Uploading!Valid(u) # {}
                       /\ uploadStep[u] \in {"storing", "finished", "failed"}

(* What the probes rely on: an import that is through has all its rows in  *)
(* the table, and a track has rows only if the import that brought its ID  *)
(* kept it.                                                                *)
Known(u) ==
    /\ uploadStep[u] \in {"storing", "finished"} =>
          /\ Uploading!Valid(u) # {}
          /\ \A k \in Marks(Uploading!Valid(u)) : MarkIn(u, k)
    /\ uploadTrack[u] # UploadOwn[u] => Backed(uploadTrack[u])
    /\ uploadStep[u] \in {"checking", "probing"} =>
          uploadTrack[u] = UploadOwn[u] /\ uploadEarlier[u] = {}
    /\ \A v \in uploadEarlier[u] : uploadStep[v] = "finished"
    /\ (\E v \in uploadEarlier[u] : UploadFile[v] = UploadFile[u] /\ uploadTrack[v] # UploadOwn[u])
          => uploadTrack[u] # UploadOwn[u]

ReuseInv ==
    /\ PeaksInv
    /\ uploadEarlier \in [Uploads -> SUBSET Uploads]
    /\ \A m \in rows : Backed(m.track)
    /\ \A u \in Uploads : Known(u)

(* Who keeps a track keeps it.                                             *)
LEMMA BackedStays ==
    ASSUME NEW t, Backed(t),
           \A u \in Uploads :
              \/ uploadTrack'[u] = uploadTrack[u] /\ uploadStep'[u] = uploadStep[u]
              \/ /\ uploadTrack'[u] = uploadTrack[u]
                 /\ uploadStep'[u] \in {"storing", "finished", "failed"}
              \/ uploadStep[u] \notin {"storing", "finished", "failed"}
    PROVE  Backed(t)'
<1>1. PICK u \in Uploads : /\ UploadOwn[u] = t /\ uploadTrack[u] = t
                          /\ Uploading!Valid(u) # {}
                          /\ uploadStep[u] \in {"storing", "finished", "failed"}
  BY DEF Backed
<1>2. uploadTrack'[u] = t /\ uploadStep'[u] \in {"storing", "finished", "failed"}
  BY <1>1
<1> QED BY <1>1, <1>2 DEF Backed, Uploading!Valid

(* A step that stores nothing and changes no track. *)
LEMMA KnownStays ==
    ASSUME ReuseInv, PeaksInv', UNCHANGED <<rows, uploadTrack, uploadEarlier>>,
           \A u \in Uploads :
              \/ uploadStep'[u] = uploadStep[u] /\ uploadBatch'[u] = uploadBatch[u]
              \/ uploadStep[u] # "finished" /\ uploadStep'[u] = "failed"
              \/ uploadStep[u] = "finished" /\ uploadStep'[u] = "finished"
                 /\ uploadBatch'[u] = uploadBatch[u]
              \/ uploadStep[u] = "checking" /\ uploadStep'[u] \in {"skipped", "probing"}
              \/ uploadStep[u] = "registering" /\ uploadStep'[u] = "rejected"
    PROVE  ReuseInv'
<1>1. ASSUME NEW t, Backed(t) PROVE Backed(t)'
  BY <1>1, BackedStays
<1>2. ASSUME NEW u \in Uploads PROVE Known(u)'
  <2>1. Known(u)
    BY DEF ReuseInv
  <2>2. uploadTrack'[u] # UploadOwn[u] => Backed(uploadTrack[u])'
    BY <1>1, <2>1 DEF Known
  <2>3. \A v \in uploadEarlier'[u] : uploadStep'[v] = "finished"
    <3>1. \A v \in uploadEarlier[u] : v \in Uploads /\ uploadStep[v] = "finished"
      BY <2>1 DEF Known, ReuseInv
    <3> QED BY <3>1
  <2>4. uploadStep'[u] \in {"storing", "finished"} =>
          /\ Uploading!Valid(u) # {}
          /\ \A k \in Marks(Uploading!Valid(u)) : MarkIn(u, k)'
    BY <2>1 DEF Known, MarkIn
  <2>5. uploadStep'[u] \in {"checking", "probing"} =>
          uploadTrack'[u] = UploadOwn[u] /\ uploadEarlier'[u] = {}
    BY <2>1 DEF Known
  <2> QED BY <2>1, <2>2, <2>3, <2>4, <2>5 DEF Known, Uploading!Valid
<1> QED BY <1>1, <1>2 DEF ReuseInv

(* What Register puts in a batch are the marks of the file. *)
LEMMA BatchHasMarks ==
    ASSUME NEW t \in Tracks, NEW ps \in SUBSET Points
    PROVE  LET raws == {Row(t, p, 0) : p \in ps}
               all == raws \cup WithFreshIds(Aggregates(raws))
           IN  \A k \in Marks(ps) : \E m \in all : m.track = t /\ m.point = k[1] /\ m.zoom = k[2]
<1> DEFINE raws == {Row(t, p, 0) : p \in ps}
           aggs == Aggregates(raws)
           fresh == WithFreshIds(aggs)
           won(y) == {s \in raws : s.point \in Winners({x.point : x \in raws}, y)}
           stands(y) == {AtZoom(s, y) : s \in won(y)}
<1>1. \A p \in ps : /\ Row(t, p, 0) \in raws /\ Row(t, p, 0).track = t
                    /\ Row(t, p, 0).point = p /\ Row(t, p, 0).zoom = 0
  BY DEF Row
<1>2. {x.point : x \in raws} = ps
  <2>1. \A r \in raws : r.point \in ps
    BY DEF Row
  <2> HIDE DEF raws
  <2> QED BY <1>1, <2>1
<1>3. aggs = UNION {stands(y) : y \in Zooms}
  BY DEF Aggregates
<1>4. ASSUME NEW p \in ps PROVE \E m \in raws : m.track = t /\ m.point = p /\ m.zoom = 0
  BY <1>1
<1>5. ASSUME NEW z \in Zooms, NEW p \in Winners(ps, z)
      PROVE  \E m \in fresh : m.track = t /\ m.point = p /\ m.zoom = z
  <2> DEFINE r == Row(t, p, 0)
             a == AtZoom(r, z)
             b == Row(a.track, a.point, a.zoom)
  <2>1. p \in ps
    BY DEF Winners
  <2>2. a.track = t /\ a.point = p /\ a.zoom = z
    BY DEF AtZoom, Row
  <2>3. b.track = t /\ b.point = p /\ b.zoom = z
    <3> HIDE DEF a
    <3> QED BY <2>2 DEF Row
  <2>4. r \in won(z)
    <3> HIDE DEF raws, r
    <3> QED BY <1>1, <1>2, <2>1 DEF r
  <2>5. a \in stands(z)
    <3> HIDE DEF won, r
    <3> QED BY <2>4
  <2>6. a \in aggs
    <3> HIDE DEF stands, a, aggs
    <3> QED BY <1>3, <2>5
  <2>7. b \in fresh
    <3> HIDE DEF aggs, a
    <3> QED BY <2>6 DEF WithFreshIds
  <2> HIDE DEF b, fresh
  <2> QED BY <2>3, <2>7
<1> HIDE DEF raws, fresh, aggs
<1>6. ASSUME NEW k \in Marks(ps)
      PROVE  \E m \in raws \cup fresh : m.track = t /\ m.point = k[1] /\ m.zoom = k[2]
  <2>1. CASE \E p \in ps : k = <<p, 0>>
    BY <1>4, <2>1
  <2>2. CASE k \in ps \X Zooms /\ k[1] \in Winners(ps, k[2])
    BY <1>5, <2>2
  <2> QED BY <1>6, <2>1, <2>2 DEF Marks
<1> QED BY <1>6 DEF raws, fresh, aggs

LEMMA RegisterKnown ==
    ASSUME ReuseInv, PeaksInv', NEW u \in Uploads, Uploading!Register(u)
    PROVE  ReuseInv'
<1> DEFINE raws == {Row(uploadTrack[u], p, 0) : p \in Uploading!Valid(u)}
           all == raws \cup WithFreshIds(Aggregates(raws))
<1>1. /\ uploadBatch' = [uploadBatch EXCEPT ![u] = all]
      /\ uploadStep' = [uploadStep EXCEPT ![u] = "storing"]
      /\ UNCHANGED <<rows, uploadTrack, uploadEarlier>>
      /\ Uploading!Valid(u) # {} /\ uploadStep[u] = "registering"
  BY SameRows DEF Uploading!Register
<1>2. uploadTrack[u] \in Tracks /\ Uploading!Valid(u) \in SUBSET Points
  BY PathsAssumption DEF ReuseInv, PeaksInv, UploadsInv, UploadTypes, Uploading!Valid
<1>3. \A k \in Marks(Uploading!Valid(u)) :
        \E m \in all : m.track = uploadTrack[u] /\ m.point = k[1] /\ m.zoom = k[2]
  BY <1>2, BatchHasMarks
<1> HIDE DEF all
<1>4. /\ uploadBatch'[u] = all /\ uploadStep'[u] = "storing"
      /\ \A v \in Uploads : v # u => uploadBatch'[v] = uploadBatch[v] /\ uploadStep'[v] = uploadStep[v]
  BY <1>1 DEF ReuseInv, PeaksInv, UploadsInv, UploadTypes
<1>5. ASSUME NEW t, Backed(t) PROVE Backed(t)'
  BY <1>1, <1>4, <1>5, BackedStays
<1>6. Known(u)'
  <2>1. \A k \in Marks(Uploading!Valid(u)) : MarkIn(u, k)'
    BY <1>1, <1>3, <1>4 DEF MarkIn
  <2>2. \A v \in uploadEarlier'[u] : uploadStep'[v] = "finished"
    BY <1>1, <1>4 DEF ReuseInv, Known
  <2> QED BY <1>1, <1>4, <1>5, <2>1, <2>2 DEF ReuseInv, Known, Uploading!Valid
<1>7. ASSUME NEW v \in Uploads, v # u PROVE Known(v)'
  <2>1. \A w \in uploadEarlier'[v] : uploadStep'[w] = "finished"
    BY <1>1, <1>4 DEF ReuseInv, Known
  <2>2. \A k : MarkIn(v, k) => MarkIn(v, k)'
    BY <1>1, <1>4, <1>7 DEF MarkIn
  <2> QED BY <1>1, <1>4, <1>5, <1>7, <2>1, <2>2 DEF ReuseInv, Known, Uploading!Valid
<1> QED BY <1>1, <1>5, <1>6, <1>7 DEF ReuseInv

LEMMA StoreKnown ==
    ASSUME ReuseInv, PeaksInv', NEW u \in Uploads, Uploading!Store(u)
    PROVE  ReuseInv'
<1>1. PICK c \in Uploading!Chunk(uploadBatch[u]) :
        /\ rows' = rows \cup Uploading!Admitted(c)
        /\ uploadBatch' = [uploadBatch EXCEPT ![u] = @ \ c]
        /\ uploadStep' = IF uploadBatch[u] = c THEN [uploadStep EXCEPT ![u] = "finished"] ELSE uploadStep
  BY DEF Uploading!Store
<1>2. c \subseteq uploadBatch[u] /\ UNCHANGED <<uploadTrack, uploadEarlier>> /\ uploadStep[u] = "storing"
  BY <1>1 DEF Uploading!Chunk, Uploading!kSubset, Uploading!Store
<1>3. Keyed(rows) /\ Keyed(c) /\ \A r \in c : r.track = uploadTrack[u]
  BY <1>2 DEF ReuseInv, PeaksInv, BatchesPeak, UploadsInv, UploadTypes, Keyed
<1>4. /\ rows \subseteq rows'
      /\ \A r \in c : \E m \in rows' : Uploading!Key(m) = Uploading!Key(r)
      /\ \A m \in rows' : m \in rows \/ \E r \in c : Uploading!Key(m) = Uploading!Key(r)
  BY <1>1, <1>3, InsertCovers, AdmittedAreOf
<1>5. /\ \A v \in Uploads : v # u => uploadBatch'[v] = uploadBatch[v] /\ uploadStep'[v] = uploadStep[v]
      /\ uploadBatch'[u] = uploadBatch[u] \ c
      /\ uploadStep'[u] \in {"storing", "finished"}
  BY <1>1, <1>2 DEF ReuseInv, PeaksInv, UploadsInv, UploadTypes
<1>6. ASSUME NEW t, Backed(t) PROVE Backed(t)'
  <2>1. \A v \in Uploads :
              \/ uploadTrack'[v] = uploadTrack[v] /\ uploadStep'[v] = uploadStep[v]
              \/ /\ uploadTrack'[v] = uploadTrack[v]
                 /\ uploadStep'[v] \in {"storing", "finished", "failed"}
    BY <1>2, <1>5
  <2> QED BY <1>6, <2>1, BackedStays
<1>7. ASSUME NEW t, t = uploadTrack[u] PROVE Backed(t)'
  <2>1. CASE uploadTrack[u] # UploadOwn[u]
    <3>1. Backed(t)
      BY <1>7, <2>1 DEF ReuseInv, Known
    <3> QED BY <1>6, <3>1
  <2>2. CASE uploadTrack[u] = UploadOwn[u]
    <3>1. Uploading!Valid(u) # {}
      BY <1>2 DEF ReuseInv, Known
    <3> QED BY <1>2, <1>5, <1>7, <2>2, <3>1 DEF Backed, Uploading!Valid
  <2> QED BY <2>1, <2>2
<1>8. ASSUME NEW m \in rows' PROVE Backed(m.track)'
  <2>1. PICK t : t = m.track
    OBVIOUS
  <2>2. CASE m \in rows
    <3>1. Backed(t)
      BY <2>1, <2>2 DEF ReuseInv
    <3>2. Backed(t)'
      BY <1>6, <3>1
    <3> QED BY <2>1, <3>2 DEF Backed
  <2>3. CASE m \notin rows
    <3>1. t = uploadTrack[u]
      BY <1>3, <1>4, <2>1, <2>3 DEF Uploading!Key
    <3>2. Backed(t)'
      BY <1>7, <3>1
    <3> QED BY <2>1, <3>2 DEF Backed
  <2> QED BY <2>2, <2>3
<1>9. ASSUME NEW k, MarkIn(u, k) PROVE MarkIn(u, k)'
  <2>1. PICK m \in rows \cup uploadBatch[u] :
          m.track = uploadTrack[u] /\ m.point = k[1] /\ m.zoom = k[2]
    BY <1>9 DEF MarkIn
  <2>2. PICK n \in rows' \cup uploadBatch'[u] : Uploading!Key(n) = Uploading!Key(m)
    BY <1>4, <1>5
  <2> QED BY <1>2, <2>1, <2>2 DEF MarkIn, Uploading!Key
<1>10. ASSUME NEW v \in Uploads, v # u, NEW k, MarkIn(v, k) PROVE MarkIn(v, k)'
  BY <1>2, <1>4, <1>5, <1>10 DEF MarkIn
<1>11. ASSUME NEW v \in Uploads PROVE Known(v)'
  <2>1. Known(v)
    BY DEF ReuseInv
  <2>2. \A w \in uploadEarlier'[v] : uploadStep'[w] = "finished"
    BY <1>2, <1>5, <2>1 DEF ReuseInv, Known
  <2>3. uploadStep'[v] \in {"storing", "finished"} =>
          /\ Uploading!Valid(v) # {}
          /\ \A k \in Marks(Uploading!Valid(v)) : MarkIn(v, k)'
    BY <1>2, <1>5, <1>9, <1>10, <2>1 DEF Known
  <2> QED BY <1>2, <1>5, <1>6, <2>1, <2>2, <2>3 DEF Known, Uploading!Valid
<1> QED BY <1>2, <1>8, <1>11 DEF ReuseInv

LEMMA SameCounts ==
    ASSUME NEW t, NEW ps
    PROVE  Uploading!Hits(t, ps) = Cardinality({m \in rows : m.track = t /\ m.point \in ps})
BY DEF Uploading!Hits, Uploading!Cardinality, Cardinality

(* A row of a track is told by its point and its zoom, so there are        *)
(* finitely many.                                                          *)
LEMMA RowsOfTrack ==
    ASSUME ReuseInv, NEW t, NEW ps
    PROVE  IsFiniteSet({m \in rows : m.track = t /\ m.point \in ps})
<1> DEFINE T == {m \in rows : m.track = t /\ m.point \in ps}
           Z == {0} \cup Zooms
           f == [m \in T |-> <<m.point, m.zoom>>]
<1>1. Keyed(rows)
  BY DEF ReuseInv, PeaksInv, UploadsInv, UploadTypes
<1>2. \A m \in T : /\ m \in Uploading!Rows /\ m.id = <<t, m.point, m.zoom>> /\ m.track = t
                   /\ m.point \in Points /\ m.zoom \in Z
  BY <1>1 DEF Keyed, Uploading!Rows, Uploading!Key
<1> HIDE DEF T
<1>3. \A m, n \in T : m.point = n.point /\ m.zoom = n.zoom => m = n
  <2> SUFFICES ASSUME NEW m \in T, NEW n \in T, m.point = n.point, m.zoom = n.zoom
               PROVE  m = n
    OBVIOUS
  <2>1. m = [track |-> m.track, point |-> m.point, zoom |-> m.zoom, id |-> m.id]
    BY <1>2 DEF Uploading!Rows
  <2>2. n = [track |-> n.track, point |-> n.point, zoom |-> n.zoom, id |-> n.id]
    BY <1>2 DEF Uploading!Rows
  <2> QED BY <1>2, <2>1, <2>2
<1>4. IsFiniteSet(Z)
  <2>1. Z = Zooms \cup {0}
    OBVIOUS
  <2> QED BY <2>1, DataAssumption, FS_AddElement
<1>5. IsFiniteSet(Points \X Z)
  <2> HIDE DEF Z
  <2> QED BY <1>4, DataAssumption, FS_Product
<1>6. f \in Injection(T, Points \X Z)
  <2> HIDE DEF Z
  <2> QED BY <1>2, <1>3 DEF Injection, IsInjective
<1>7. IsFiniteSet(T)
  <2> HIDE DEF f, Z
  <2> QED BY <1>5, <1>6, FS_Injection
<1> QED BY <1>7 DEF T

(* A probe finds the track of an import that is through.                   *)
LEMMA MarksAreHits ==
    ASSUME ReuseInv, NEW v \in Uploads, uploadStep[v] = "finished"
    PROVE  /\ Uploading!Hits(uploadTrack[v], UploadFile[v]) >= Cardinality(Marks(Uploading!Valid(v)))
           /\ Uploading!Hits(uploadTrack[v], UploadFile[v]) \in Nat
           /\ Cardinality(Marks(Uploading!Valid(v))) \in Nat
<1> DEFINE t == uploadTrack[v]
           M == Marks(Uploading!Valid(v))
           T == {m \in rows : m.track = t /\ m.point \in UploadFile[v]}
           f == [k \in M |-> CHOOSE m \in T : m.point = k[1] /\ m.zoom = k[2]]
<1>1. \A k \in M : k = <<k[1], k[2]>> /\ k[1] \in UploadFile[v]
  BY DEF Marks, Uploading!Valid
<1>2. \A k \in M : MarkIn(v, k)
  BY DEF ReuseInv, Known
<1>3. uploadBatch[v] = {}
  BY DEF ReuseInv, PeaksInv, UploadsInv
<1> HIDE DEF M
<1>4. \A k \in M : \E m \in T : m.point = k[1] /\ m.zoom = k[2]
  BY <1>1, <1>2, <1>3 DEF MarkIn
<1> HIDE DEF T
<1>5. \A k \in M : f[k] \in T /\ f[k].point = k[1] /\ f[k].zoom = k[2]
  BY <1>4
<1>6. f \in [M -> T]
  BY <1>5
<1>7. f \in Injection(M, T)
  <2> HIDE DEF f
  <2> QED BY <1>1, <1>5, <1>6 DEF Injection, IsInjective
<1>8. IsFiniteSet(T)
  BY RowsOfTrack DEF T
<1>9. Cardinality(M) <= Cardinality(T) /\ IsFiniteSet(M)
  <2> HIDE DEF f
  <2> QED BY <1>7, <1>8, FS_Injection
<1>10. Cardinality(M) \in Nat /\ Cardinality(T) \in Nat
  BY <1>8, <1>9, FS_CardinalityType
<1>11. Uploading!Hits(t, UploadFile[v]) = Cardinality(T)
  BY SameCounts DEF T
<1> QED BY <1>9, <1>10, <1>11 DEF M

(* What a probe finds has rows. *)
LEMMA HitsAreRows ==
    ASSUME NEW ps, NEW t \in Uploading!Existing(ps, Threshold)
    PROVE  \E m \in rows : m.track = t
<1> DEFINE T == {m \in rows : m.track = t /\ m.point \in ps}
<1>1. Cardinality(T) >= Threshold
  BY SameCounts DEF Uploading!Existing
<1>2. Threshold \in Nat \ {0}
  BY LimitsAssumption
<1>3. T # {}
  <2> HIDE DEF T
  <2> QED BY <1>1, <1>2, FS_EmptySet
<1> QED BY <1>3

LEMMA ProbeKnown ==
    ASSUME EnoughRows, OwnApart, ReuseInv, PeaksInv', NEW u \in Uploads, Uploading!Probe(u)
    PROVE  ReuseInv'
<1> DEFINE found == Uploading!Existing(UploadFile[u], Threshold)
<1>1. PICK t \in (IF found = {} THEN {UploadOwn[u]} ELSE found) :
          uploadTrack' = [uploadTrack EXCEPT ![u] = t]
  BY DEF Uploading!Probe
<1>2. /\ uploadStep[u] = "probing" /\ uploadStep' = [uploadStep EXCEPT ![u] = "registering"]
      /\ uploadEarlier' = [uploadEarlier EXCEPT ![u] = {v \in Uploads : uploadStep[v] = "finished"}]
      /\ UNCHANGED <<rows, uploadBatch>>
  BY DEF Uploading!Probe, Uploading!tables
<1> HIDE DEF found
<1>3. /\ uploadStep'[u] = "registering" /\ uploadTrack'[u] = t
      /\ uploadEarlier'[u] = {v \in Uploads : uploadStep[v] = "finished"}
      /\ \A v \in Uploads : v # u => /\ uploadStep'[v] = uploadStep[v]
                                    /\ uploadTrack'[v] = uploadTrack[v]
                                    /\ uploadEarlier'[v] = uploadEarlier[v]
  BY <1>1, <1>2 DEF ReuseInv, PeaksInv, UploadsInv, UploadTypes
<1>4. ASSUME NEW s, Backed(s) PROVE Backed(s)'
  <2>1. \A v \in Uploads :
              \/ uploadTrack'[v] = uploadTrack[v] /\ uploadStep'[v] = uploadStep[v]
              \/ uploadStep[v] \notin {"storing", "finished", "failed"}
    BY <1>2, <1>3
  <2> QED BY <1>4, <2>1, BackedStays
<1>5. t # UploadOwn[u] => Backed(t)
  <2> SUFFICES ASSUME t # UploadOwn[u] PROVE Backed(t)
    OBVIOUS
  <2>1. t \in found
    BY <1>1
  <2>2. PICK m \in rows : m.track = t
    BY <2>1, HitsAreRows DEF found
  <2> QED BY <2>2 DEF ReuseInv
<1>6. ASSUME NEW v \in Uploads, uploadStep[v] = "finished", UploadFile[v] = UploadFile[u]
      PROVE  t # UploadOwn[u]
  <2>1. v # u /\ Uploading!Valid(v) = Uploading!Valid(u) /\ Uploading!Valid(v) # {}
    BY <1>2, <1>6 DEF ReuseInv, Known, Uploading!Valid
  <2>2. Cardinality(Marks(Uploading!Valid(v))) >= Threshold
    BY <1>6, <2>1 DEF EnoughRows
  <2>3. uploadTrack[v] \in found
    <3>1. uploadTrack[v] \in Tracks
      BY DEF ReuseInv, PeaksInv, UploadsInv, UploadTypes
    <3>2. /\ Uploading!Hits(uploadTrack[v], UploadFile[u]) >= Cardinality(Marks(Uploading!Valid(v)))
          /\ Uploading!Hits(uploadTrack[v], UploadFile[u]) \in Nat
          /\ Cardinality(Marks(Uploading!Valid(v))) \in Nat
      BY <1>6, MarksAreHits
    <3>3. Threshold \in Nat
      BY LimitsAssumption
    <3>4. Uploading!Hits(uploadTrack[v], UploadFile[u]) >= Threshold
      BY <2>2, <3>2, <3>3
    <3> QED BY <3>1, <3>4 DEF found, Uploading!Existing
  <2>4. ASSUME t = UploadOwn[u] PROVE FALSE
    <3>1. t \in found
      BY <1>1, <2>3
    <3>2. PICK m \in rows : m.track = t
      BY <3>1, HitsAreRows DEF found
    <3>3. PICK w \in Uploads : /\ UploadOwn[w] = t /\ Uploading!Valid(w) # {}
                              /\ uploadStep[w] \in {"storing", "finished", "failed"}
      BY <3>2 DEF ReuseInv, Backed
    <3> QED BY <1>2, <2>1, <2>4, <3>3 DEF OwnApart
  <2> QED BY <2>4
<1>7. Known(u)'
  <2>1. t # UploadOwn[u] => Backed(t)'
    BY <1>4, <1>5
  <2>2. uploadTrack'[u] # UploadOwn[u] => Backed(uploadTrack[u])'
    BY <1>3, <2>1 DEF Backed
  <2>3. \A v \in uploadEarlier'[u] : uploadStep'[v] = "finished"
    BY <1>2, <1>3
  <2>4. (\E v \in uploadEarlier'[u] : UploadFile[v] = UploadFile[u]) => uploadTrack'[u] # UploadOwn[u]
    BY <1>3, <1>6
  <2> QED BY <1>3, <2>2, <2>3, <2>4 DEF Known
<1>8. ASSUME NEW w \in Uploads, w # u PROVE Known(w)'
  <2>1. Known(w)
    BY DEF ReuseInv
  <2>2. \A v \in uploadEarlier[w] : v \in Uploads /\ v # u /\ uploadStep[v] = "finished"
    BY <1>2, <2>1 DEF ReuseInv, Known
  <2>3. uploadTrack'[w] # UploadOwn[w] => Backed(uploadTrack[w])'
    <3>1. PICK s : s = uploadTrack[w]
      OBVIOUS
    <3>2. s # UploadOwn[w] => Backed(s)'
      BY <1>4, <2>1, <3>1 DEF Known
    <3> QED BY <1>3, <1>8, <3>1, <3>2 DEF Backed
  <2>4. \A k : MarkIn(w, k) => MarkIn(w, k)'
    BY <1>2, <1>3, <1>8 DEF MarkIn
  <2> QED BY <1>3, <1>8, <2>1, <2>2, <2>3, <2>4 DEF Known, Uploading!Valid
<1>9. uploadEarlier' \in [Uploads -> SUBSET Uploads]
  BY <1>2 DEF ReuseInv
<1>10. \A m \in rows' : Backed(m.track)'
  <2> SUFFICES ASSUME NEW m \in rows PROVE Backed(m.track)'
    BY <1>2
  <2>1. PICK s : s = m.track
    OBVIOUS
  <2>2. Backed(s)'
    BY <1>4, <2>1 DEF ReuseInv
  <2> QED BY <2>1, <2>2 DEF Backed
<1> QED BY <1>7, <1>8, <1>9, <1>10 DEF ReuseInv

LEMMA ReuseStep ==
    ASSUME EnoughRows, OwnApart, ReuseInv, Uploading!Next
    PROVE  ReuseInv'
<1>1. PeaksInv'
  BY PeaksStep DEF ReuseInv
<1>2. /\ uploadStep = [u \in Uploads |-> uploadStep[u]]
      /\ \A u \in Uploads : /\ uploadStep[u] # "storing" => uploadBatch[u] = {}
                            /\ uploadBatch = [v \in Uploads |-> uploadBatch[v]]
  BY DEF ReuseInv, PeaksInv, BatchesPeak, UploadsInv, UploadTypes
<1>3. ASSUME NEW u \in Uploads, Uploading!Import(u) PROVE ReuseInv'
  <2>1. CASE Uploading!Check(u)
    <3>1. PICK place \in {"skipped", "probing"} : uploadStep' = [uploadStep EXCEPT ![u] = place]
      BY <2>1 DEF Uploading!Check
    <3>2. /\ UNCHANGED <<rows, uploadTrack, uploadEarlier, uploadBatch>> /\ uploadStep[u] = "checking"
          /\ uploadStep'[u] \in {"skipped", "probing"}
          /\ \A v \in Uploads : v # u => uploadStep'[v] = uploadStep[v]
      BY <1>2, <2>1, <3>1 DEF Uploading!Check, Uploading!tables
    <3> QED BY <1>1, <3>2, KnownStays
  <2>2. CASE Uploading!Reject(u)
    <3>1. /\ UNCHANGED <<rows, uploadTrack, uploadEarlier, uploadBatch>> /\ uploadStep[u] = "registering"
          /\ uploadStep'[u] = "rejected"
          /\ \A v \in Uploads : v # u => uploadStep'[v] = uploadStep[v]
      BY <1>2, <2>2 DEF Uploading!Reject, Uploading!tables
    <3> QED BY <1>1, <3>1, KnownStays
  <2>3. CASE Uploading!Fail(u)
    <3>1. /\ UNCHANGED <<rows, uploadTrack, uploadEarlier>> /\ uploadStep[u] # "finished"
          /\ uploadStep'[u] = "failed"
          /\ \A v \in Uploads : v # u => uploadStep'[v] = uploadStep[v] /\ uploadBatch'[v] = uploadBatch[v]
      BY <1>2, <2>3 DEF Uploading!Fail, Uploading!Active, Uploading!tables
    <3> QED BY <1>1, <3>1, KnownStays
  <2> QED BY <1>1, <1>3, <2>1, <2>2, <2>3, ProbeKnown, RegisterKnown, StoreKnown DEF Uploading!Import
<1>4. CASE Uploading!Crash
  <2>1. /\ UNCHANGED <<rows, uploadTrack, uploadEarlier>>
        /\ uploadStep' = [v \in Uploads |-> IF Uploading!Active(v) THEN "failed" ELSE uploadStep[v]]
        /\ uploadBatch' = [v \in Uploads |-> {}]
    BY <1>4 DEF Uploading!Crash, Uploading!tables
  <2>2. ASSUME NEW v \in Uploads
        PROVE  \/ uploadStep'[v] = uploadStep[v] /\ uploadBatch'[v] = uploadBatch[v]
               \/ uploadStep[v] # "finished" /\ uploadStep'[v] = "failed"
    BY <1>2, <2>1 DEF Uploading!Active
  <2> QED BY <1>1, <2>1, <2>2, KnownStays
<1> QED BY <1>3, <1>4 DEF Uploading!Next

(* The property of the run: a file that comes again, once the first import *)
(* of it is through, goes into the track that has it and opens none of its *)
(* own (DetectExistingTrackID), if it has rows enough for the threshold    *)
(* and no two usable files have one ID.                                    *)
THEOREM FilesAreReused ==
    ASSUME EnoughRows, OwnApart
    PROVE  PathsSpec => []UploadsReuse
<1>1. PathsInit => ReuseInv
  <2> SUFFICES ASSUME PathsInit PROVE ReuseInv
    OBVIOUS
  <2>1. UploadsInv
    BY UploadsStart DEF PathsInit
  <2>2. rows = {} /\ uploadTrack = UploadOwn /\ \A u \in Uploads : uploadBatch[u] = {} /\ uploadEarlier[u] = {}
    BY DEF PathsInit, Uploading!Init, Uploading!ImportsInit
  <2>3. uploadEarlier \in [Uploads -> SUBSET Uploads]
    BY DEF PathsInit, Uploading!Init, Uploading!ImportsInit
  <2>4. ASSUME NEW u \in Uploads PROVE uploadStep[u] \in {"checking", "probing", "registering"}
    <3>1. UploadKind[u] \in {"upload", "export", "fixed"}
      BY PathsAssumption
    <3> QED BY <3>1 DEF PathsInit, Uploading!Init, Uploading!ImportsInit
  <2>5. PeaksInv
    BY <2>1, <2>2 DEF PeaksInv, BatchesPeak, TablePeaks
  <2>6. \A u \in Uploads : Known(u)
    BY <2>2, <2>4 DEF Known
  <2> QED BY <2>2, <2>3, <2>5, <2>6 DEF ReuseInv
<1>2. ReuseInv /\ [PathsNext]_pathVars => ReuseInv'
  <2> SUFFICES ASSUME ReuseInv, [PathsNext]_pathVars PROVE ReuseInv'
    OBVIOUS
  <2>1. CASE Uploading!Next
    BY <2>1, ReuseStep
  <2>2. CASE UNCHANGED uploadVars
    <3>1. PeaksInv'
      BY <2>2 DEF uploadVars, ReuseInv, PeaksInv, BatchesPeak, TablePeaks, PeakIn, UploadsInv,
                  UploadTypes, Keyed, Sure, Uploading!Valid
    <3> QED BY <2>2, <3>1 DEF uploadVars, ReuseInv, Known, Backed, MarkIn, Uploading!Valid
  <2> QED BY <2>1, <2>2
          DEF PathsNext, MoveRebuild, MoveUploads, MoveSpeeds, MoveStreams, MoveRealtime,
              MoveCatalogue, pathVars
<1>3. ReuseInv => UploadsReuse
  <2> SUFFICES ASSUME ReuseInv, NEW u \in Uploads, NEW v \in uploadEarlier[u],
                      UploadFile[v] = UploadFile[u], uploadTrack[v] # UploadOwn[u]
               PROVE  uploadTrack[u] # UploadOwn[u] /\ Uploading!Raws(UploadOwn[u]) = {}
    BY DEF UploadsReuse, Uploading!ReuploadReuses
  <2>1. uploadTrack[u] # UploadOwn[u]
    BY DEF ReuseInv, Known
  <2>2. Uploading!Valid(u) # {}
    <3>1. v \in Uploads /\ Uploading!Valid(v) = Uploading!Valid(u)
      BY DEF ReuseInv, Uploading!Valid
    <3>2. uploadStep[v] = "finished"
      BY DEF ReuseInv, Known
    <3> QED BY <3>1, <3>2 DEF ReuseInv, Known
  <2>3. ASSUME NEW m \in rows, m.track = UploadOwn[u] PROVE FALSE
    <3>1. PICK w \in Uploads : /\ UploadOwn[w] = UploadOwn[u] /\ uploadTrack[w] = UploadOwn[u]
                              /\ Uploading!Valid(w) # {}
      BY <2>3 DEF ReuseInv, Backed
    <3> QED BY <2>1, <2>2, <3>1 DEF OwnApart
  <2> QED BY <2>1, <2>3 DEF Uploading!Raws
<1> QED BY <1>1, <1>2, <1>3, PTL DEF PathsSpec

(* --- the streams ------------------------------------------------------------ *)

Number == 1..Len(StreamCell)

(* Requests with their goroutines and channels. *)
StreamRequests ==
    [asked : [what : {"map", "track", "devices", "playback"}, live : BOOLEAN],
     what : {"map", "track", "devices", "playback"},
     handler : {"devices", "stream", "over"},
     devices : {"none", "queued", "waiting", "open", "ended"},
     base : {"queued", "waiting", "open", "nested", "reading", "sending", "ended"},
     broken : BOOLEAN, closed : BOOLEAN, error : BOOLEAN,
     next : 0..Len(StreamCell), hold : 0..Len(StreamCell), lifted : 0..Len(StreamCell),
     cells : SUBSET Number, told : SUBSET Number,
     summarizer : {"none", "run", "over"}, aggregator : {"none", "run", "over"},
     verdict : {"none", "end", "eof", "error"}]

Same(m, n) == StreamCell[m] = StreamCell[n]

(* What the producer has handed over is within what it may have. *)
InOrder(q) ==
    /\ q.hold \in {0, q.next} /\ q.lifted <= q.next
    /\ \A m \in q.told : m <= q.next
    /\ q.what \notin {"map", "track"} => q.hold = 0
    /\ q.aggregator # "none" => q.what = "map"

(* How a query ends, and what its channels say of it. *)
Cursor(q) ==
    /\ q.what = "devices" => q.base = "ended"
    /\ q.base \in {"nested", "sending"} => q.next < Len(StreamCell)
    /\ q.base # "ended" => ~q.broken
    /\ ~q.closed => ~q.error
    /\ q.what # "devices" /\ q.base = "ended" /\ ~q.broken => q.next = Len(StreamCell)
    /\ q.what \in {"map", "track"} /\ q.closed => q.base = "ended"
    /\ q.what = "playback" /\ q.closed /\ ~q.error => q.base = "ended" /\ ~q.broken

(* One winner per cell, the last of it that was sent on. *)
CellWinners(q) ==
    /\ q.lifted \in q.cells \cup {0}
    /\ \A c, d \in q.cells : Same(c, d) => c = d
    /\ \A m \in q.told : \E c \in q.cells : Same(c, m) /\ m <= c

(* While the request goes on nothing is dropped between its goroutines. *)
NothingDropped(q) ==
    /\ q.what = "playback" => q.told = 1..q.next
    /\ q.what = "track" => q.told = (1..q.next) \ {q.hold}
    /\ q.what = "map" =>
         /\ q.cells \subseteq q.told \cup {q.lifted}
         /\ \A m \in (1..q.next) \ {q.hold} : \E c \in q.cells : Same(c, m) /\ StreamRank[c] <= StreamRank[m]
    /\ q.summarizer = "over" => q.closed /\ q.hold = 0
    /\ q.aggregator = "over" => q.summarizer = "over" /\ q.hold = 0 /\ q.lifted = 0

(* The client has everything: of each cell the strongest marker, which is  *)
(* the last that it got for the cell.                                      *)
HasAll(q) ==
    CASE q.what = "map" ->
           \A m \in Number : \E c \in q.told :
               /\ Same(c, m) /\ StreamRank[c] <= StreamRank[m]
               /\ \A d \in q.told : Same(c, d) => d <= c
      [] q.what = "devices" -> TRUE
      [] OTHER -> q.told = Number

(* A client is told of the end when it has everything, unless the query    *)
(* has failed.                                                             *)
Delivered(q) ==
    q.verdict \in {"end", "eof"} =>
        q.handler = "over" /\ (~q.broken /\ ~q.error => HasAll(q))

StreamOk(q, over) ==
    /\ q \in StreamRequests /\ InOrder(q) /\ Cursor(q) /\ Delivered(q)
    /\ q.what = "map" => CellWinners(q)
    /\ ~over => NothingDropped(q)

(* The invariant: for each request, what its goroutines owe the client.    *)
StreamsInv ==
    /\ req \in [Requests -> StreamRequests]
    /\ \A r \in Requests : StreamOk(req[r], Streams!RequestOver(r))

(* What is assumed of the markers in view. *)
LEMMA StreamConstants ==
    /\ Len(StreamCell) \in Nat /\ DOMAIN StreamCell = Number
    /\ StreamRank \in [Number -> Int]
    /\ \A m, n \in Number : m # n => StreamRank[m] # StreamRank[n]
BY PathsAssumption DEF Streams!Assumption, Number

(* A step of the goroutines of one request. *)
LEMMA OneMoves ==
    ASSUME StreamsInv, NEW r \in Requests, NEW q, Streams!Set(r, q), gone' = gone,
           StreamOk(q, r \in gone \/ q.handler = "over")
    PROVE  StreamsInv'
<1>1. req' = [req EXCEPT ![r] = q] /\ q \in StreamRequests
  BY DEF Streams!Set, StreamOk
<1>2. req' \in [Requests -> StreamRequests]
  BY <1>1 DEF StreamsInv
<1>3. ASSUME NEW x \in Requests PROVE StreamOk(req'[x], x \in gone \/ req'[x].handler = "over")
  BY <1>1 DEF StreamsInv, Streams!RequestOver
<1> QED BY <1>2, <1>3 DEF StreamsInv, Streams!RequestOver

(* What the invariant says of one request. *)
LEMMA OkNow ==
    ASSUME StreamsInv, NEW r \in Requests
    PROVE  StreamOk(req[r], r \in gone \/ req[r].handler = "over") /\ req[r] \in StreamRequests
BY DEF StreamsInv, Streams!RequestOver

(* What the queries leave alone while they are under way. *)
Untouched == {"what", "broken", "closed", "error", "next", "hold", "lifted", "cells", "told",
              "summarizer", "aggregator", "verdict", "handler"}

(* What does not concern the markers on their way. *)
LEMMA SameStream ==
    ASSUME NEW q, NEW over \in BOOLEAN, StreamOk(q, over), NEW s \in StreamRequests,
           \A f \in Untouched : s[f] = q[f],
           s.base = "ended" <=> q.base = "ended",
           s.base \in {"nested", "sending"} => s.next < Len(StreamCell)
    PROVE  StreamOk(s, over)
<1>1. /\ s.what = q.what /\ s.broken = q.broken /\ s.closed = q.closed /\ s.error = q.error
      /\ s.next = q.next /\ s.hold = q.hold /\ s.lifted = q.lifted /\ s.cells = q.cells
      /\ s.told = q.told /\ s.summarizer = q.summarizer /\ s.aggregator = q.aggregator
      /\ s.verdict = q.verdict /\ s.handler = q.handler
  BY DEF Untouched
<1>2. InOrder(s) /\ Cursor(s) /\ Delivered(s)
  BY <1>1 DEF StreamOk, InOrder, Cursor, Delivered, HasAll
<1>3. s.what = "map" => CellWinners(s)
  BY <1>1 DEF StreamOk, CellWinners
<1>4. ~over => NothingDropped(s)
  BY <1>1 DEF StreamOk, NothingDropped
<1> QED BY <1>2, <1>3, <1>4 DEF StreamOk

(* A query, told from its request by its kind. *)
Job == Requests \X {"base", "devices"}

(* A query that ends, with an error or at the end of its cursor.           *)
LEMMA QueriesEnd ==
    ASSUME StreamsInv, NEW j \in Job, NEW broken \in BOOLEAN, Streams!Running(j),
           Streams!Ends(j, broken),
           j[2] = "base" /\ ~broken => req[j[1]].next = Len(StreamCell)
    PROVE  StreamsInv'
<1> DEFINE r == j[1]
           q == req[r]
           over == r \in gone \/ q.handler = "over"
<1>1. r \in Requests /\ StreamOk(q, over) /\ q \in StreamRequests /\ over \in BOOLEAN /\ gone' = gone
  BY OkNow DEF Job, Streams!Ends
<1>2. CASE j[2] = "devices"
  <2> DEFINE s == [q EXCEPT !.devices = "ended"]
  <2>1. s \in StreamRequests
    BY <1>1 DEF StreamRequests
  <2>2. (\A f \in Untouched : s[f] = q[f]) /\ s.base = q.base /\ s.next = q.next
        /\ s.handler = q.handler
    BY <1>1 DEF StreamRequests, Untouched
  <2>3. q.base \in {"nested", "sending"} => q.next < Len(StreamCell)
    BY <1>1 DEF StreamOk, Cursor
  <2>4. Streams!Set(r, s)
    BY <1>2 DEF Streams!Ends
  <2> HIDE DEF s, q
  <2>5. StreamOk(s, over) /\ s.handler = q.handler
    BY <1>1, <2>1, <2>2, <2>3, SameStream
  <2> QED BY <1>1, <2>4, <2>5, OneMoves
<1>3. CASE j[2] = "base"
  <2> DEFINE s == IF q.what = "playback" THEN [q EXCEPT !.base = "ended", !.broken = broken]
                  ELSE [q EXCEPT !.base = "ended", !.broken = broken, !.error = broken, !.closed = TRUE]
  <2>1. Streams!Set(r, s)
    BY <1>3 DEF Streams!Ends
  <2>2. /\ s \in StreamRequests /\ s.what = q.what /\ s.handler = q.handler
        /\ s.base = "ended" /\ s.broken = broken
        /\ q.what = "playback" => s.error = q.error /\ s.closed = q.closed
        /\ q.what # "playback" => s.error = broken /\ s.closed = TRUE
        /\ s.next = q.next /\ s.hold = q.hold /\ s.lifted = q.lifted /\ s.cells = q.cells
        /\ s.told = q.told /\ s.summarizer = q.summarizer /\ s.aggregator = q.aggregator
        /\ s.verdict = q.verdict
    BY <1>1 DEF StreamRequests
  <2>3. q.base # "ended" /\ (broken \/ q.next = Len(StreamCell))
    BY <1>3 DEF Streams!Running
  <2> HIDE DEF s, q
  <2>4. InOrder(s) /\ (q.what = "map" => CellWinners(s))
    BY <1>1, <2>2 DEF StreamOk, InOrder, CellWinners
  <2>5. Cursor(s)
    BY <1>1, <2>2, <2>3 DEF StreamOk, Cursor, StreamRequests
  <2>6. Delivered(s)
    BY <1>1, <2>2, <2>3 DEF StreamOk, Cursor, Delivered, HasAll, StreamRequests
  <2>7. ~over => NothingDropped(s)
    BY <1>1, <2>2 DEF StreamOk, NothingDropped
  <2>8. StreamOk(s, over)
    BY <2>2, <2>4, <2>5, <2>6, <2>7 DEF StreamOk
  <2> QED BY <1>1, <2>1, <2>2, <2>8, OneMoves DEF q
<1> QED BY <1>2, <1>3 DEF Job

(* A query that changes its place without ending. *)
LEMMA QueryMoves ==
    ASSUME StreamsInv, NEW r \in Requests, NEW s \in StreamRequests, Streams!Set(r, s), gone' = gone,
           \A f \in Untouched : s[f] = req[r][f],
           s.base = "ended" <=> req[r].base = "ended",
           s.base \in {"nested", "sending"} => s.next < Len(StreamCell)
    PROVE  StreamsInv'
<1> DEFINE q == req[r]
           over == r \in gone \/ q.handler = "over"
<1>1. StreamOk(q, over) /\ over \in BOOLEAN
  BY OkNow
<1>2. s.handler = q.handler
  BY DEF Untouched
<1>3. StreamOk(s, over)
  BY <1>1, SameStream
<1> QED BY <1>2, <1>3, OneMoves

LEMMA TakeJobKeeps == ASSUME StreamsInv, NEW j \in Job, Streams!TakeJob(j) PROVE StreamsInv'
<1> DEFINE r == j[1]
           q == req[r]
           over == r \in gone \/ q.handler = "over"
<1>1. /\ r \in Requests /\ StreamOk(q, over) /\ q \in StreamRequests /\ over \in BOOLEAN /\ gone' = gone
      /\ j[2] \in {"base", "devices"} /\ q[j[2]] = "queued"
  BY OkNow DEF Job, Streams!TakeJob, Streams!CanTakeJob
<1>2. CASE Streams!Set(r, [q EXCEPT ![j[2]] = "waiting"])
  <2> DEFINE s == [q EXCEPT ![j[2]] = "waiting"]
  <2>1. CASE j[2] = "base"
    <3>1. s \in StreamRequests /\ (\A f \in Untouched : s[f] = q[f]) /\ s.base = "waiting"
          /\ q.base = "queued"
      BY <1>1, <2>1 DEF StreamRequests, Untouched
    <3> HIDE DEF s
    <3> QED BY <1>1, <1>2, <3>1, QueryMoves DEF s
  <2>2. CASE j[2] = "devices"
    <3>1. s \in StreamRequests /\ (\A f \in Untouched : s[f] = q[f]) /\ s.base = q.base /\ s.next = q.next
      BY <1>1, <2>2 DEF StreamRequests, Untouched
    <3>2. q.base \in {"nested", "sending"} => q.next < Len(StreamCell)
      BY <1>1 DEF StreamOk, Cursor
    <3>3. Streams!Set(r, s)
      BY <1>2
    <3> HIDE DEF s
    <3> QED BY <1>1, <3>1, <3>2, <3>3, QueryMoves
  <2> QED BY <1>1, <2>1, <2>2
<1>3. CASE Streams!Set(r, [q EXCEPT ![j[2]] = "ended", !.broken = @ \/ j[2] = "base"])
  <2> DEFINE s == [q EXCEPT ![j[2]] = "ended", !.broken = @ \/ j[2] = "base"]
  <2>1. CASE j[2] = "devices"
    <3>1. s \in StreamRequests /\ (\A f \in Untouched : s[f] = q[f]) /\ s.base = q.base /\ s.next = q.next
      BY <1>1, <2>1 DEF StreamRequests, Untouched
    <3>2. q.base \in {"nested", "sending"} => q.next < Len(StreamCell)
      BY <1>1 DEF StreamOk, Cursor
    <3>3. Streams!Set(r, s)
      BY <1>3
    <3> HIDE DEF s
    <3> QED BY <1>1, <3>1, <3>2, <3>3, QueryMoves
  <2>2. CASE j[2] = "base"
    <3>1. /\ s \in StreamRequests /\ s.what = q.what /\ s.handler = q.handler
          /\ s.base = "ended" /\ s.broken = TRUE /\ s.error = q.error /\ s.closed = q.closed
          /\ s.next = q.next /\ s.hold = q.hold /\ s.lifted = q.lifted /\ s.cells = q.cells
          /\ s.told = q.told /\ s.summarizer = q.summarizer /\ s.aggregator = q.aggregator
          /\ s.verdict = q.verdict /\ q.base = "queued"
      BY <1>1, <2>2 DEF StreamRequests
    <3> HIDE DEF s, q
    <3>2. InOrder(s) /\ (q.what = "map" => CellWinners(s)) /\ (~over => NothingDropped(s))
      BY <1>1, <3>1 DEF StreamOk, InOrder, CellWinners, NothingDropped
    <3>3. Cursor(s) /\ Delivered(s)
      BY <1>1, <3>1 DEF StreamOk, Cursor, Delivered
    <3>4. StreamOk(s, over)
      BY <3>1, <3>2, <3>3 DEF StreamOk
    <3> QED BY <1>1, <1>3, <3>1, <3>4, OneMoves DEF s, q
  <2> QED BY <1>1, <2>1, <2>2
<1> QED BY <1>2, <1>3 DEF Streams!TakeJob, Streams!CanTakeJob

LEMMA ConnectKeeps == ASSUME StreamsInv, NEW j \in Job, Streams!Connect(j) PROVE StreamsInv'
<1> DEFINE r == j[1]
           q == req[r]
           over == r \in gone \/ q.handler = "over"
           s == [q EXCEPT ![j[2]] = "open"]
<1>1. /\ r \in Requests /\ StreamOk(q, over) /\ q \in StreamRequests /\ gone' = gone
      /\ j[2] \in {"base", "devices"} /\ q[j[2]] = "waiting" /\ Streams!Set(r, s)
  BY OkNow DEF Job, Streams!Connect, Streams!CanConnect
<1>2. CASE j[2] = "base"
  <2>1. s \in StreamRequests /\ (\A f \in Untouched : s[f] = q[f]) /\ s.base = "open" /\ q.base = "waiting"
    BY <1>1, <1>2 DEF StreamRequests, Untouched
  <2> HIDE DEF s
  <2> QED BY <1>1, <2>1, QueryMoves
<1>3. CASE j[2] = "devices"
  <2>1. s \in StreamRequests /\ (\A f \in Untouched : s[f] = q[f]) /\ s.base = q.base /\ s.next = q.next
    BY <1>1, <1>3 DEF StreamRequests, Untouched
  <2>2. q.base \in {"nested", "sending"} => q.next < Len(StreamCell)
    BY <1>1 DEF StreamOk, Cursor
  <2> HIDE DEF s
  <2> QED BY <1>1, <2>1, <2>2, QueryMoves
<1> QED BY <1>1, <1>2, <1>3

LEMMA QueryEndsKeep ==
    ASSUME StreamsInv
    PROVE  /\ \A j \in Job : Streams!Cancelled(j) \/ Streams!Fails(j) => StreamsInv'
           /\ \A r \in Requests : Streams!DevicesRead(r) \/ Streams!CursorEnds(r) => StreamsInv'
<1>1. ASSUME NEW j \in Job, Streams!Cancelled(j) \/ Streams!Fails(j) PROVE StreamsInv'
  BY <1>1, QueriesEnd DEF Streams!Cancelled, Streams!Fails, Streams!CanCancel
<1>2. ASSUME NEW r \in Requests, Streams!DevicesRead(r) PROVE StreamsInv'
  <2>1. /\ <<r, "devices">> \in Job /\ Streams!Running(<<r, "devices">>)
        /\ Streams!Ends(<<r, "devices">>, FALSE)
    BY <1>2 DEF Streams!DevicesRead, Job, Streams!Running, Streams!CanReadDevices
  <2> QED BY <2>1, QueriesEnd
<1>3. ASSUME NEW r \in Requests, Streams!CursorEnds(r) PROVE StreamsInv'
  <2>1. /\ <<r, "base">> \in Job /\ Streams!Running(<<r, "base">>)
        /\ Streams!Ends(<<r, "base">>, FALSE) /\ req[r].next = Len(StreamCell)
    BY <1>3 DEF Streams!CursorEnds, Job, Streams!Running, Streams!Last, Streams!CursorAtEnd
  <2> QED BY <2>1, QueriesEnd
<1> QED BY <1>1, <1>2, <1>3

(* The cursors of a playback, over tracks and over markers. *)
LEMMA PlaybackMoves ==
    ASSUME StreamsInv, NEW r \in Requests,
           Streams!NextTrack(r) \/ Streams!FirstRow(r) \/ Streams!NextRow(r)
    PROVE  StreamsInv'
<1> DEFINE q == req[r]
           over == r \in gone \/ q.handler = "over"
<1>1. StreamOk(q, over) /\ q \in StreamRequests
  BY OkNow
<1>2. q.next # Len(StreamCell) => q.next < Len(StreamCell)
  BY <1>1, StreamConstants DEF StreamRequests
<1>3. PICK from \in {"open", "nested", "reading"}, to \in {"nested", "sending", "open"} :
        /\ Streams!PlaybackGoes(r, from, to)
        /\ to \in {"nested", "sending"} => q.next < Len(StreamCell)
  <2>1. CASE Streams!NextTrack(r)
    BY <1>2, <2>1 DEF Streams!NextTrack, Streams!Last, Streams!CanOpenTrack, Streams!PlaybackAt
  <2>2. CASE Streams!FirstRow(r)
    <3>1. Streams!PlaybackGoes(r, "nested", "sending")
      BY <2>2 DEF Streams!FirstRow, Streams!CanSeeFirstRow, Streams!PlaybackAt
    <3>2. q.base = "nested"
      BY <3>1 DEF Streams!PlaybackGoes, Streams!PlaybackAt
    <3> QED BY <1>1, <3>1, <3>2 DEF StreamOk, Cursor
  <2>3. CASE Streams!NextRow(r)
    BY <1>2, <2>3 DEF Streams!NextRow, Streams!Last, Streams!PlaybackAt
  <2> QED BY <2>1, <2>2, <2>3
<1> DEFINE s == [q EXCEPT !.base = to]
<1>4. Streams!Set(r, s) /\ gone' = gone /\ q.base = from
  BY <1>3 DEF Streams!PlaybackGoes, Streams!PlaybackAt
<1>5. s \in StreamRequests /\ (\A f \in Untouched : s[f] = q[f]) /\ s.base = to /\ s.next = q.next
  BY <1>1 DEF StreamRequests, Untouched
<1> HIDE DEF s
<1> QED BY <1>3, <1>4, <1>5, QueryMoves

LEMMA ProduceKeeps == ASSUME StreamsInv, NEW r \in Requests, Streams!Produce(r) PROVE StreamsInv'
<1> DEFINE q == req[r]
           over == r \in gone \/ q.handler = "over"
           s == [q EXCEPT !.next = q.next + 1, !.hold = q.next + 1]
<1>1. /\ StreamOk(q, over) /\ q \in StreamRequests /\ gone' = gone /\ Streams!Set(r, s)
      /\ q.what # "playback" /\ q.base = "open" /\ q.summarizer = "run" /\ q.hold = 0
      /\ q.next # Len(StreamCell)
  BY OkNow DEF Streams!Produce, Streams!Last, Streams!CanProduce
<1>2. q.next + 1 \in 0..Len(StreamCell)
  BY <1>1, StreamConstants DEF StreamRequests
<1>3. /\ s \in StreamRequests /\ s.what = q.what /\ s.handler = q.handler /\ s.base = q.base
      /\ s.broken = q.broken /\ s.error = q.error /\ s.closed = q.closed
      /\ s.next = q.next + 1 /\ s.hold = q.next + 1 /\ s.lifted = q.lifted /\ s.cells = q.cells
      /\ s.told = q.told /\ s.summarizer = q.summarizer /\ s.aggregator = q.aggregator
      /\ s.verdict = q.verdict
  BY <1>1, <1>2 DEF StreamRequests
<1>4. /\ q.next \in Nat /\ q.lifted \in Nat /\ q.told \subseteq Number /\ q.what # "devices"
  BY <1>1, StreamConstants DEF StreamRequests, StreamOk, Cursor
<1> HIDE DEF s, q
<1>5. InOrder(s)
  <2>1. q.lifted <= q.next + 1 /\ \A m \in q.told : m <= q.next + 1
    BY <1>1, <1>4 DEF StreamOk, InOrder, Number
  <2>2. q.what \in {"map", "track"}
    BY <1>1, <1>4 DEF StreamRequests
  <2> QED BY <1>1, <1>3, <2>1, <2>2 DEF StreamOk, InOrder
<1>6. Cursor(s) /\ Delivered(s) /\ (s.what = "map" => CellWinners(s))
  BY <1>1, <1>3 DEF StreamOk, Cursor, Delivered, HasAll, CellWinners
<1>7. (1..s.next) \ {s.hold} = (1..q.next) \ {q.hold}
  BY <1>1, <1>3, <1>4
<1>8. ~over => NothingDropped(s)
  BY <1>1, <1>3, <1>7 DEF StreamOk, InOrder, NothingDropped
<1>9. StreamOk(s, over)
  BY <1>3, <1>5, <1>6, <1>8 DEF StreamOk
<1> QED BY <1>1, <1>3, <1>9, OneMoves DEF q

LEMMA PlaybackReturnsKeeps ==
    ASSUME StreamsInv, NEW r \in Requests, Streams!PlaybackReturns(r) PROVE StreamsInv'
<1> DEFINE q == req[r]
           over == r \in gone \/ q.handler = "over"
<1>1. /\ StreamOk(q, over) /\ q \in StreamRequests /\ gone' = gone
      /\ q.what = "playback" /\ ~q.closed
  BY OkNow DEF Streams!PlaybackReturns, Streams!CanReturnPlayback
<1>2. PICK failed \in BOOLEAN :
        /\ Streams!Set(r, [q EXCEPT !.closed = TRUE, !.error = failed])
        /\ ~failed => q.base = "ended" /\ ~q.broken
  <2>1. q.broken \in BOOLEAN
    BY <1>1 DEF StreamRequests
  <2> QED BY <2>1 DEF Streams!PlaybackReturns, Streams!CanReturnPlayback
<1> DEFINE s == [q EXCEPT !.closed = TRUE, !.error = failed]
<1>3. Streams!Set(r, s)
  BY <1>2
<1>4. /\ s \in StreamRequests /\ s.what = q.what /\ s.handler = q.handler /\ s.base = q.base
      /\ s.broken = q.broken /\ s.error = failed /\ s.closed = TRUE
      /\ s.next = q.next /\ s.hold = q.hold /\ s.lifted = q.lifted /\ s.cells = q.cells
      /\ s.told = q.told /\ s.summarizer = q.summarizer /\ s.aggregator = q.aggregator
      /\ s.verdict = q.verdict
  BY <1>1 DEF StreamRequests
<1> HIDE DEF s, q
<1>5. InOrder(s) /\ (s.what = "map" => CellWinners(s)) /\ (~over => NothingDropped(s))
  BY <1>1, <1>4 DEF StreamOk, InOrder, CellWinners, NothingDropped
<1>6. Cursor(s) /\ Delivered(s)
  BY <1>1, <1>2, <1>4 DEF StreamOk, Cursor, Delivered, HasAll
<1>7. StreamOk(s, over)
  BY <1>4, <1>5, <1>6 DEF StreamOk
<1> QED BY <1>1, <1>3, <1>4, <1>7, OneMoves DEF q

(* Goroutines end when nothing is left for them, or the request is over.   *)
LEMMA SummarizerEndsKeeps ==
    ASSUME StreamsInv, NEW r \in Requests, Streams!SummarizerEnds(r) PROVE StreamsInv'
<1> DEFINE q == req[r]
           over == r \in gone \/ q.handler = "over"
           s == [q EXCEPT !.summarizer = "over", !.hold = 0]
<1>1. /\ StreamOk(q, over) /\ q \in StreamRequests /\ gone' = gone /\ Streams!Set(r, s)
      /\ q.summarizer = "run" /\ (over \/ (q.closed /\ q.hold = 0))
  BY OkNow DEF Streams!SummarizerEnds, Streams!Stage, Streams!RequestOver, Streams!SummarizerDone
<1>0. 0 \in 0..Len(StreamCell)
  BY StreamConstants
<1>2. /\ s \in StreamRequests /\ s.what = q.what /\ s.handler = q.handler /\ s.base = q.base
      /\ s.broken = q.broken /\ s.error = q.error /\ s.closed = q.closed
      /\ s.next = q.next /\ s.hold = 0 /\ s.lifted = q.lifted /\ s.cells = q.cells
      /\ s.told = q.told /\ s.summarizer = "over" /\ s.aggregator = q.aggregator
      /\ s.verdict = q.verdict
  BY <1>0, <1>1 DEF StreamRequests
<1> HIDE DEF s, q
<1>3. InOrder(s) /\ (s.what = "map" => CellWinners(s)) /\ Cursor(s) /\ Delivered(s)
  BY <1>1, <1>2 DEF StreamOk, InOrder, CellWinners, Cursor, Delivered, HasAll
<1>4. ~over => NothingDropped(s)
  BY <1>1, <1>2 DEF StreamOk, NothingDropped
<1>5. StreamOk(s, over)
  BY <1>2, <1>3, <1>4 DEF StreamOk
<1> QED BY <1>1, <1>2, <1>5, OneMoves DEF q

LEMMA AggregatorEndsKeeps ==
    ASSUME StreamsInv, NEW r \in Requests, Streams!AggregatorEnds(r) PROVE StreamsInv'
<1> DEFINE q == req[r]
           over == r \in gone \/ q.handler = "over"
           s == [q EXCEPT !.aggregator = "over", !.lifted = 0]
<1>1. /\ StreamOk(q, over) /\ q \in StreamRequests /\ gone' = gone /\ Streams!Set(r, s)
      /\ q.aggregator = "run"
      /\ over \/ (q.summarizer = "over" /\ q.hold = 0 /\ q.lifted = 0)
  BY OkNow DEF Streams!AggregatorEnds, Streams!Stage, Streams!RequestOver, Streams!AggregatorDone
<1>0. 0 \in 0..Len(StreamCell)
  BY StreamConstants
<1>2. /\ s \in StreamRequests /\ s.what = q.what /\ s.handler = q.handler /\ s.base = q.base
      /\ s.broken = q.broken /\ s.error = q.error /\ s.closed = q.closed
      /\ s.next = q.next /\ s.hold = q.hold /\ s.lifted = 0 /\ s.cells = q.cells
      /\ s.told = q.told /\ s.summarizer = q.summarizer /\ s.aggregator = "over"
      /\ s.verdict = q.verdict
  BY <1>0, <1>1 DEF StreamRequests
<1>3. 0 <= q.next
  BY <1>1, StreamConstants DEF StreamRequests
<1> HIDE DEF s, q
<1>4. InOrder(s) /\ (s.what = "map" => CellWinners(s)) /\ Cursor(s) /\ Delivered(s)
  BY <1>1, <1>2, <1>3 DEF StreamOk, InOrder, CellWinners, Cursor, Delivered, HasAll
<1>5. ~over => NothingDropped(s)
  BY <1>1, <1>2 DEF StreamOk, NothingDropped
<1>6. StreamOk(s, over)
  BY <1>2, <1>4, <1>5 DEF StreamOk
<1> QED BY <1>1, <1>2, <1>6, OneMoves DEF q

(* The aggregator keeps the strongest marker of a cell, which is also the  *)
(* last of it that it sends.                                               *)
LEMMA AggregateKeeps == ASSUME StreamsInv, NEW r \in Requests, Streams!Aggregate(r) PROVE StreamsInv'
<1> DEFINE q == req[r]
           over == r \in gone \/ q.handler = "over"
<1>1. /\ StreamOk(q, over) /\ q \in StreamRequests /\ gone' = gone
      /\ q.aggregator = "run" /\ q.hold # 0 /\ q.lifted = 0
  BY OkNow DEF Streams!Aggregate, Streams!Stage, Streams!CanAggregate
<1>2. /\ q.what = "map" /\ q.hold = q.next /\ q.hold \in Number /\ q.next \in 0..Len(StreamCell)
      /\ q.cells \subseteq Number /\ q.told \subseteq Number /\ 0 \notin Number
  BY <1>1, StreamConstants DEF StreamOk, InOrder, StreamRequests, Number
<1>3. StreamRank \in [Number -> Int] /\ Len(StreamCell) \in Nat
  BY StreamConstants
<1>4. CASE Streams!Wins(q, q.hold)
  <2> DEFINE kept == {c \in q.cells : StreamCell[c] # StreamCell[q.hold]} \cup {q.hold}
             s == [q EXCEPT !.hold = 0, !.lifted = q.hold, !.cells = kept]
  <2>1. Streams!Set(r, s)
    BY <1>4 DEF Streams!Aggregate, Streams!Stage, Streams!CanAggregate
  <2>2. kept \subseteq Number
    BY <1>2
  <2>3. /\ s \in StreamRequests /\ s.what = q.what /\ s.handler = q.handler /\ s.base = q.base
        /\ s.broken = q.broken /\ s.error = q.error /\ s.closed = q.closed
        /\ s.next = q.next /\ s.hold = 0 /\ s.lifted = q.hold /\ s.cells = kept
        /\ s.told = q.told /\ s.summarizer = q.summarizer /\ s.aggregator = "run"
        /\ s.verdict = q.verdict
    BY <1>1, <1>2, <1>3, <2>2 DEF StreamRequests
  <2>4. \A c \in q.cells : Same(c, q.hold) => StreamRank[q.hold] < StreamRank[c]
    BY <1>4 DEF Streams!Wins, Same
  <2>5. \A c : c \in kept <=> (c \in q.cells /\ ~Same(c, q.hold)) \/ c = q.hold
    BY DEF Same
  <2> HIDE DEF s, q, kept
  <2>6. InOrder(s) /\ Cursor(s) /\ Delivered(s)
    BY <1>1, <1>2, <2>3 DEF StreamOk, InOrder, Cursor, Delivered, HasAll, Number
  <2>7. CellWinners(s)
    <3>1. \A c, d \in kept : Same(c, d) => c = d
      BY <1>1, <1>2, <2>5 DEF StreamOk, CellWinners, Same
    <3>2. ASSUME NEW m \in q.told PROVE \E c \in kept : Same(c, m) /\ m <= c
      <4>1. PICK c \in q.cells : Same(c, m) /\ m <= c
        BY <1>1, <1>2 DEF StreamOk, CellWinners
      <4>2. m <= q.hold
        BY <1>1, <1>2 DEF StreamOk, InOrder
      <4> QED BY <2>5, <4>1, <4>2 DEF Same
    <3> QED BY <2>3, <2>5, <3>1, <3>2 DEF CellWinners
  <2>8. ASSUME ~over PROVE NothingDropped(s)
    <3>1. kept \subseteq q.told \cup {q.hold}
      BY <1>1, <1>2, <2>5, <2>8 DEF StreamOk, NothingDropped
    <3>2. ASSUME NEW m \in (1..q.next) \ {0}
          PROVE \E c \in kept : Same(c, m) /\ StreamRank[c] <= StreamRank[m]
      <4>1. m \in Number /\ StreamRank[m] \in Int /\ StreamRank[q.hold] \in Int
        BY <1>2, <1>3 DEF Number
      <4>2. CASE m = q.hold
        BY <2>5, <4>1, <4>2 DEF Same
      <4>3. CASE m # q.hold
        <5>1. PICK c \in q.cells : Same(c, m) /\ StreamRank[c] <= StreamRank[m]
          BY <1>1, <1>2, <2>8, <4>3 DEF StreamOk, NothingDropped
        <5>2. StreamRank[c] \in Int
          BY <1>2, <1>3
        <5>3. CASE Same(c, q.hold)
          <6>1. StreamRank[q.hold] < StreamRank[c]
            BY <2>4, <5>3
          <6> QED BY <2>5, <4>1, <5>1, <5>2, <5>3, <6>1 DEF Same
        <5>4. CASE ~Same(c, q.hold)
          BY <2>5, <5>1, <5>4
        <5> QED BY <5>3, <5>4
      <4> QED BY <4>2, <4>3
    <3>3. /\ q.summarizer = "over" => q.closed
      BY <1>1, <2>8 DEF StreamOk, NothingDropped
    <3> QED BY <1>2, <2>3, <3>1, <3>2, <3>3 DEF NothingDropped
  <2>9. StreamOk(s, over)
    BY <2>3, <2>6, <2>7, <2>8 DEF StreamOk
  <2> QED BY <1>1, <2>1, <2>3, <2>9, OneMoves DEF q
<1>5. CASE ~Streams!Wins(q, q.hold)
  <2> DEFINE s == [q EXCEPT !.hold = 0]
  <2>1. Streams!Set(r, s)
    BY <1>5 DEF Streams!Aggregate, Streams!Stage, Streams!CanAggregate
  <2>2. /\ s \in StreamRequests /\ s.what = q.what /\ s.handler = q.handler /\ s.base = q.base
        /\ s.broken = q.broken /\ s.error = q.error /\ s.closed = q.closed
        /\ s.next = q.next /\ s.hold = 0 /\ s.lifted = q.lifted /\ s.cells = q.cells
        /\ s.told = q.told /\ s.summarizer = q.summarizer /\ s.aggregator = "run"
        /\ s.verdict = q.verdict
    BY <1>1, <1>3 DEF StreamRequests
  <2>3. PICK c \in q.cells : Same(c, q.hold) /\ StreamRank[c] <= StreamRank[q.hold]
    <3>1. PICK c \in q.cells : Same(c, q.hold) /\ ~(StreamRank[q.hold] < StreamRank[c])
      BY <1>5 DEF Streams!Wins, Same
    <3>2. StreamRank[c] \in Int /\ StreamRank[q.hold] \in Int
      BY <1>2, <1>3
    <3> QED BY <3>1, <3>2
  <2> HIDE DEF s, q
  <2>4. InOrder(s) /\ Cursor(s) /\ Delivered(s) /\ CellWinners(s)
    BY <1>1, <1>2, <2>2 DEF StreamOk, InOrder, Cursor, Delivered, HasAll, CellWinners
  <2>5. ASSUME ~over PROVE NothingDropped(s)
    <3>1. ASSUME NEW m \in (1..q.next) \ {0}
          PROVE \E d \in q.cells : Same(d, m) /\ StreamRank[d] <= StreamRank[m]
      BY <1>1, <1>2, <2>3, <2>5 DEF StreamOk, NothingDropped
    <3>2. /\ q.summarizer = "over" => q.closed
          /\ q.cells \subseteq q.told \cup {q.lifted}
      BY <1>1, <1>2, <2>5 DEF StreamOk, NothingDropped
    <3> QED BY <1>2, <2>2, <3>1, <3>2 DEF NothingDropped
  <2>6. StreamOk(s, over)
    BY <2>2, <2>4, <2>5 DEF StreamOk
  <2> QED BY <1>1, <2>1, <2>2, <2>6, OneMoves DEF q
<1> QED BY <1>4, <1>5

(* What a handler tells its client last. *)
LEMMA ToldKeeps ==
    ASSUME StreamsInv, NEW r \in Requests, NEW verdict \in {"none", "end", "eof", "error"},
           Streams!Told(r, verdict),
           /\ verdict \in {"end", "eof"} /\ r \notin gone /\ ~req[r].broken /\ ~req[r].error
              => HasAll(req[r])
    PROVE  StreamsInv'
<1> DEFINE q == req[r]
           over == r \in gone \/ q.handler = "over"
           heard == IF r \in gone THEN "none" ELSE verdict
           s == [q EXCEPT !.handler = "over", !.verdict = heard]
<1>1. StreamOk(q, over) /\ q \in StreamRequests /\ gone' = gone /\ Streams!Set(r, s)
  BY OkNow DEF Streams!Told, Streams!Stage
<1>2. heard \in {"none", "end", "eof", "error"}
  OBVIOUS
<1>3. heard \in {"end", "eof"} /\ ~q.broken /\ ~q.error => HasAll(q)
  OBVIOUS
<1> HIDE DEF heard
<1>4. s \in StreamRequests
  <2> DEFINE h == [q EXCEPT !.handler = "over"]
  <2>1. h \in StreamRequests
    BY <1>1 DEF StreamRequests
  <2>2. s = [h EXCEPT !.verdict = heard]
    OBVIOUS
  <2> HIDE DEF h
  <2>3. [h EXCEPT !.verdict = heard] \in StreamRequests
    BY <1>2, <2>1 DEF StreamRequests
  <2> QED BY <2>2, <2>3
<1>8. /\ s.what = q.what /\ s.handler = "over" /\ s.base = q.base
      /\ s.broken = q.broken /\ s.error = q.error /\ s.closed = q.closed
      /\ s.next = q.next /\ s.hold = q.hold /\ s.lifted = q.lifted /\ s.cells = q.cells
      /\ s.told = q.told /\ s.summarizer = q.summarizer /\ s.aggregator = q.aggregator
      /\ s.verdict = heard
  BY <1>1 DEF StreamRequests
<1> HIDE DEF s, q
<1>5. InOrder(s) /\ Cursor(s) /\ (s.what = "map" => CellWinners(s))
  BY <1>1, <1>4, <1>8 DEF StreamOk, InOrder, Cursor, CellWinners
<1>6. Delivered(s)
  BY <1>3, <1>8 DEF Delivered, HasAll
<1>7. StreamOk(s, TRUE)
  BY <1>4, <1>5, <1>6, <1>8 DEF StreamOk
<1> QED BY <1>1, <1>8, <1>7, OneMoves DEF q

LEMMA DevicesReturnKeeps ==
    ASSUME StreamsInv, NEW r \in Requests, Streams!DevicesReturn(r) PROVE StreamsInv'
<1> DEFINE q == req[r]
           over == r \in gone \/ q.handler = "over"
<1>1. StreamOk(q, over) /\ q \in StreamRequests /\ q.handler = "devices"
  BY OkNow DEF Streams!DevicesReturn, Streams!DevicesDone
<1>2. CASE q.what = "devices"
  <2>1. Streams!Told(r, "end") /\ HasAll(q)
    BY <1>2 DEF Streams!DevicesReturn, HasAll, Streams!DevicesDone
  <2> QED BY <2>1, ToldKeeps
<1>3. CASE q.what # "devices"
  <2> DEFINE first == IF q.what \in {"map", "track"} THEN "run" ELSE "none"
             second == IF q.what = "map" THEN "run" ELSE "none"
             s == [[q EXCEPT !.summarizer = first, !.aggregator = second] EXCEPT !.handler = "stream"]
  <2>1. Streams!Set(r, s) /\ gone' = gone
    BY <1>3 DEF Streams!DevicesReturn, Streams!Stage, Streams!Started, Streams!DevicesDone
  <2>2. first \in {"none", "run"} /\ second \in {"none", "run"} /\ (second # "none" => q.what = "map")
    OBVIOUS
  <2> HIDE DEF first, second
  <2>3. s \in StreamRequests
    <3> DEFINE h == [q EXCEPT !.summarizer = first]
               k == [h EXCEPT !.aggregator = second]
    <3>1. h \in StreamRequests
      BY <1>1, <2>2 DEF StreamRequests
    <3>2. s = [k EXCEPT !.handler = "stream"]
      OBVIOUS
    <3> HIDE DEF h
    <3>3. k \in StreamRequests
      BY <2>2, <3>1 DEF StreamRequests
    <3> HIDE DEF k
    <3>4. [k EXCEPT !.handler = "stream"] \in StreamRequests
      BY <3>3 DEF StreamRequests
    <3> QED BY <3>2, <3>4
  <2>7. /\ s.what = q.what /\ s.handler = "stream" /\ s.base = q.base
        /\ s.broken = q.broken /\ s.error = q.error /\ s.closed = q.closed
        /\ s.next = q.next /\ s.hold = q.hold /\ s.lifted = q.lifted /\ s.cells = q.cells
        /\ s.told = q.told /\ s.summarizer = first /\ s.aggregator = second
        /\ s.verdict = q.verdict
    BY <1>1 DEF StreamRequests
  <2> HIDE DEF s, q
  <2>4. InOrder(s) /\ Cursor(s) /\ (s.what = "map" => CellWinners(s)) /\ Delivered(s)
    BY <1>1, <2>2, <2>3, <2>7 DEF StreamOk, InOrder, Cursor, CellWinners, Delivered, HasAll
  <2>5. ~over => NothingDropped(s)
    BY <1>1, <2>2, <2>3, <2>7 DEF StreamOk, NothingDropped
  <2>6. StreamOk(s, over) /\ s.handler # "over"
    BY <2>3, <2>4, <2>5, <2>7 DEF StreamOk
  <2> QED BY <1>1, <2>1, <2>6, OneMoves DEF q
<1> QED BY <1>2, <1>3

(* The handler passes a marker on to its client. *)
LEMMA ForwardKeeps == ASSUME StreamsInv, NEW r \in Requests, Streams!Forward(r) PROVE StreamsInv'
<1> DEFINE q == req[r]
           m == Streams!Offered(q)
           away == r \in gone
           told == q.told \cup (IF r \in gone THEN {} ELSE {m})
<1>1. /\ StreamOk(q, away) /\ q \in StreamRequests /\ q.handler = "stream" /\ m # 0
      /\ gone' = gone /\ away \in BOOLEAN
  BY OkNow DEF Streams!Forward, Streams!Stage, Streams!CanForward
<1>2. q.verdict \notin {"end", "eof"}
  BY <1>1 DEF StreamOk, Delivered
<1>3. /\ Len(StreamCell) \in Nat /\ q.told \subseteq Number /\ q.cells \subseteq Number
      /\ q.next \in 0..Len(StreamCell) /\ 0 \in 0..Len(StreamCell) /\ 0 \notin Number
  BY <1>1, StreamConstants DEF StreamRequests, Number
<1>4. CASE q.what = "map"
  <2> DEFINE s == [[q EXCEPT !.told = told] EXCEPT !.lifted = 0]
  <2>1. Streams!Set(r, s) /\ m = q.lifted
    BY <1>4 DEF Streams!Forward, Streams!Stage, Streams!Offered, Streams!CanForward
  <2>2. m \in q.cells /\ m <= q.next /\ told \subseteq Number /\ told \subseteq q.told \cup {m}
        /\ (~away => told = q.told \cup {m})
    BY <1>1, <1>3, <1>4, <2>1 DEF StreamOk, CellWinners, InOrder
  <2> HIDE DEF told, m
  <2>3. /\ s \in StreamRequests /\ s.what = q.what /\ s.handler = q.handler /\ s.base = q.base
        /\ s.broken = q.broken /\ s.error = q.error /\ s.closed = q.closed
        /\ s.next = q.next /\ s.hold = q.hold /\ s.lifted = 0 /\ s.cells = q.cells
        /\ s.told = told /\ s.summarizer = q.summarizer /\ s.aggregator = q.aggregator
        /\ s.verdict = q.verdict
    BY <1>1, <1>3, <2>2 DEF StreamRequests
  <2> HIDE DEF s, q
  <2>4. InOrder(s) /\ Cursor(s) /\ Delivered(s)
    BY <1>1, <1>2, <1>3, <2>2, <2>3 DEF StreamOk, InOrder, Cursor, Delivered
  <2>5. CellWinners(s)
    <3>1. m <= m
      BY <1>3, <2>2 DEF Number
    <3> QED BY <1>1, <1>4, <2>2, <2>3, <3>1 DEF StreamOk, CellWinners, Same
  <2>6. ~away => NothingDropped(s)
    BY <1>1, <1>4, <2>1, <2>2, <2>3 DEF StreamOk, NothingDropped
  <2>7. StreamOk(s, away)
    BY <2>3, <2>4, <2>5, <2>6 DEF StreamOk
  <2> QED BY <1>1, <2>1, <2>3, <2>7, OneMoves DEF q
<1>5. CASE q.what = "track"
  <2> DEFINE s == [[q EXCEPT !.told = told] EXCEPT !.hold = 0]
  <2>1. Streams!Set(r, s) /\ m = q.hold
    BY <1>5 DEF Streams!Forward, Streams!Stage, Streams!Offered, Streams!CanForward
  <2>2. m = q.next /\ m \in Number /\ told \subseteq Number /\ told \subseteq q.told \cup {m}
        /\ (~away => told = q.told \cup {m})
    BY <1>1, <1>3, <2>1 DEF StreamOk, InOrder, Number
  <2> HIDE DEF told, m
  <2>3. /\ s \in StreamRequests /\ s.what = q.what /\ s.handler = q.handler /\ s.base = q.base
        /\ s.broken = q.broken /\ s.error = q.error /\ s.closed = q.closed
        /\ s.next = q.next /\ s.hold = 0 /\ s.lifted = q.lifted /\ s.cells = q.cells
        /\ s.told = told /\ s.summarizer = q.summarizer /\ s.aggregator = q.aggregator
        /\ s.verdict = q.verdict
    BY <1>1, <1>3, <2>2 DEF StreamRequests
  <2> HIDE DEF s, q
  <2>4. InOrder(s) /\ Cursor(s) /\ Delivered(s)
    BY <1>1, <1>2, <1>3, <2>2, <2>3 DEF StreamOk, InOrder, Cursor, Delivered
  <2>5. ~away => s.told = (1..s.next) \ {s.hold}
    BY <1>1, <1>3, <1>5, <2>1, <2>2, <2>3 DEF StreamOk, NothingDropped, Number
  <2>6. ~away => NothingDropped(s)
    BY <1>1, <1>5, <2>3, <2>5 DEF StreamOk, NothingDropped
  <2>7. StreamOk(s, away)
    BY <1>5, <2>3, <2>4, <2>6 DEF StreamOk
  <2> QED BY <1>1, <2>1, <2>3, <2>7, OneMoves DEF q
<1>6. CASE q.what \notin {"map", "track"}
  <2> DEFINE s == [[q EXCEPT !.told = told] EXCEPT !.base = "reading", !.next = q.next + 1]
  <2>1. Streams!Set(r, s) /\ m = q.next + 1 /\ q.base = "sending"
    BY <1>1, <1>6 DEF Streams!Forward, Streams!Stage, Streams!Offered, Streams!CanForward
  <2>2. q.what = "playback"
    BY <1>1, <1>6, <2>1 DEF StreamOk, Cursor, StreamRequests
  <2>3. q.next + 1 \in 0..Len(StreamCell) /\ m \in Number
    BY <1>1, <1>3, <2>1 DEF StreamOk, Cursor, Number
  <2>4. told \subseteq Number /\ told \subseteq q.told \cup {m} /\ (~away => told = q.told \cup {m})
    BY <1>3, <2>3
  <2> HIDE DEF told, m
  <2>5. /\ s \in StreamRequests /\ s.what = q.what /\ s.handler = q.handler /\ s.base = "reading"
        /\ s.broken = q.broken /\ s.error = q.error /\ s.closed = q.closed
        /\ s.next = q.next + 1 /\ s.hold = q.hold /\ s.lifted = q.lifted /\ s.cells = q.cells
        /\ s.told = told /\ s.summarizer = q.summarizer /\ s.aggregator = q.aggregator
        /\ s.verdict = q.verdict
    BY <1>1, <2>3, <2>4 DEF StreamRequests
  <2>6. q.lifted \in Nat
    BY <1>1, <1>3 DEF StreamRequests
  <2> HIDE DEF s, q
  <2>7. InOrder(s)
    <3>1. q.lifted <= q.next + 1 /\ q.hold = 0
      BY <1>1, <1>3, <1>6, <2>6 DEF StreamOk, InOrder
    <3>2. ASSUME NEW n \in told PROVE n <= q.next + 1
      <4>1. CASE n \in q.told
        <5>1. n <= q.next /\ n \in Nat
          BY <1>1, <1>3, <4>1 DEF StreamOk, InOrder, Number
        <5> QED BY <1>3, <5>1
      <4>2. CASE n = m
        BY <1>3, <2>1, <4>2
      <4> QED BY <2>4, <4>1, <4>2
    <3> QED BY <1>1, <2>5, <3>1, <3>2 DEF StreamOk, InOrder
  <2>8. Cursor(s) /\ Delivered(s)
    BY <1>1, <1>2, <2>1, <2>2, <2>5 DEF StreamOk, Cursor, Delivered
  <2>9. ~away => s.told = 1..s.next
    <3> SUFFICES ASSUME ~away PROVE told = 1..(q.next + 1)
      BY <2>5
    <3>1. q.told = 1..q.next
      BY <1>1, <2>2 DEF StreamOk, NothingDropped
    <3>2. 1..(q.next + 1) = (1..q.next) \cup {q.next + 1}
      BY <1>3
    <3> QED BY <2>1, <2>4, <3>1, <3>2
  <2>10. ~away => NothingDropped(s)
    BY <1>1, <2>2, <2>5, <2>9 DEF StreamOk, NothingDropped
  <2>11. StreamOk(s, away)
    BY <2>2, <2>5, <2>7, <2>8, <2>10 DEF StreamOk
  <2> QED BY <1>1, <2>1, <2>5, <2>11, OneMoves DEF q
<1> QED BY <1>4, <1>5, <1>6

(* When the last channel is closed and nothing was dropped, the client has *)
(* everything.                                                             *)
LEMMA ClosedIsComplete ==
    ASSUME NEW q, StreamOk(q, FALSE), Streams!SourceClosed(q), ~q.broken, ~q.error
    PROVE  HasAll(q)
<1>1. q \in StreamRequests /\ Cursor(q) /\ NothingDropped(q) /\ (q.what = "map" => CellWinners(q))
  BY DEF StreamOk
<1>2. CASE q.what = "map"
  <2>1. q.summarizer = "over" /\ q.hold = 0 /\ q.lifted = 0 /\ q.closed
    BY <1>1, <1>2 DEF Streams!SourceClosed, NothingDropped
  <2>2. q.next = Len(StreamCell)
    BY <1>1, <1>2, <2>1 DEF Cursor
  <2>3. q.cells \subseteq q.told /\ 0 \notin Number
    BY <1>1, <1>2, <2>1, StreamConstants DEF NothingDropped, StreamRequests, Number
  <2>4. ASSUME NEW m \in Number
        PROVE  \E c \in q.told : /\ Same(c, m) /\ StreamRank[c] <= StreamRank[m]
                                 /\ \A d \in q.told : Same(c, d) => d <= c
    <3>1. PICK c \in q.cells : Same(c, m) /\ StreamRank[c] <= StreamRank[m]
      BY <1>1, <1>2, <2>1, <2>2, <2>3 DEF NothingDropped, Number
    <3>2. ASSUME NEW d \in q.told, Same(c, d) PROVE d <= c
      BY <1>1, <1>2, <3>2 DEF CellWinners, Same
    <3> QED BY <2>3, <3>1, <3>2
  <2> QED BY <1>2, <2>4 DEF HasAll
<1>3. CASE q.what = "track"
  <2>1. q.closed /\ q.hold = 0
    BY <1>1, <1>3 DEF Streams!SourceClosed, NothingDropped
  <2>2. q.next = Len(StreamCell)
    BY <1>1, <1>3, <2>1 DEF Cursor
  <2>3. q.told = Number
    <3>1. q.told = Number \ {0}
      BY <1>1, <1>3, <2>1, <2>2 DEF NothingDropped, Number
    <3>2. 0 \notin Number
      BY StreamConstants DEF Number
    <3> QED BY <3>1, <3>2
  <2> QED BY <1>3, <2>3 DEF HasAll
<1>4. CASE q.what = "devices"
  BY <1>4 DEF HasAll
<1>5. CASE q.what = "playback"
  <2>1. q.closed
    BY <1>5 DEF Streams!SourceClosed
  <2>2. q.next = Len(StreamCell)
    BY <1>1, <1>5, <2>1 DEF Cursor
  <2>3. q.told = Number
    BY <1>1, <1>5, <2>2 DEF NothingDropped, Number
  <2> QED BY <1>5, <2>3 DEF HasAll
<1> QED BY <1>1, <1>2, <1>3, <1>4, <1>5 DEF StreamRequests

LEMMA HandlerEndsKeeps ==
    ASSUME StreamsInv, NEW r \in Requests,
           Streams!StreamBroken(r) \/ Streams!StreamOver(r) \/ Streams!ClientGone(r)
    PROVE  StreamsInv'
<1>1. CASE Streams!StreamBroken(r)
  <2>1. PICK verdict \in {"eof", "error"} : Streams!Told(r, verdict)
    BY <1>1 DEF Streams!StreamBroken, Streams!HearsError
  <2> QED BY <1>1, <2>1, ToldKeeps DEF Streams!StreamBroken, Streams!HearsError
<1>2. CASE Streams!StreamOver(r)
  <2>1. PICK verdict \in {"eof", "end"} : Streams!Told(r, verdict)
    BY <1>2 DEF Streams!StreamOver, Streams!HearsEnd
  <2>2. req[r].handler = "stream" /\ Streams!SourceClosed(req[r])
    BY <1>2 DEF Streams!StreamOver, Streams!HearsEnd
  <2>3. r \notin gone => StreamOk(req[r], FALSE)
    BY <2>2, OkNow DEF StreamOk
  <2> QED BY <2>1, <2>2, <2>3, ClosedIsComplete, ToldKeeps
<1>3. CASE Streams!ClientGone(r)
  BY <1>3, ToldKeeps DEF Streams!ClientGone, Streams!HearsGone
<1> QED BY <1>1, <1>2, <1>3

(* A client that leaves is owed nothing any more. *)
LEMMA LeaveKeeps == ASSUME StreamsInv, NEW r \in Requests, Streams!Leave(r) PROVE StreamsInv'
<1>1. req' = req /\ gone \subseteq gone'
  BY DEF Streams!Leave
<1>2. ASSUME NEW x \in Requests PROVE StreamOk(req[x], x \in gone' \/ req[x].handler = "over")
  BY <1>1, OkNow DEF StreamOk
<1> QED BY <1>1, <1>2 DEF StreamsInv, Streams!RequestOver

LEMMA StreamsStay == ASSUME StreamsInv, req' = req, gone' = gone PROVE StreamsInv'
BY DEF StreamsInv, Streams!RequestOver

(* What a request may ask for. *)
Asking == [what : {"map", "track"}, live : BOOLEAN] \cup [what : {"devices"}, live : {TRUE}]
          \cup [what : {"playback"}, live : {FALSE}]

LEMMA StreamsBegin == Streams!Init => StreamsInv
<1> SUFFICES ASSUME Streams!Init PROVE StreamsInv
  OBVIOUS
<1>1. PICK kind \in Mixes : req = [r \in Requests |-> Streams!Opened(kind[r])]
  BY DEF Streams!Init
<1>2. \A r \in Requests : kind[r] \in Asking
  BY PathsAssumption DEF Streams!Assumption, Asking
<1>3. gone = {}
  BY DEF Streams!Init
<1>4. ASSUME NEW k \in Asking
      PROVE  StreamOk(Streams!Opened(k), FALSE) /\ Streams!Opened(k).handler # "over"
  <2> DEFINE q == Streams!Asked(k)
  <2>1. /\ k \in [what : {"map", "track", "devices", "playback"}, live : BOOLEAN]
        /\ k.what = "devices" => k.live
        /\ k.what \in {"map", "track", "devices", "playback"} /\ k.live \in BOOLEAN
    BY DEF Asking
  <2>2. 0 \in 0..Len(StreamCell)
    BY StreamConstants
  <2> DEFINE handler == IF k.live THEN "devices" ELSE "stream"
             devices == CASE ~k.live -> "none" [] Streams!Serialized -> "queued" [] OTHER -> "waiting"
             base == CASE k.what = "devices" -> "ended"
                       [] k.what = "playback" /\ Streams!Serialized -> "queued"
                       [] OTHER -> "waiting"
             closed == k.what = "devices"
  <2>3. /\ handler \in {"devices", "stream"} /\ devices \in {"none", "queued", "waiting"}
        /\ base \in {"queued", "waiting", "ended"} /\ (base = "ended" <=> k.what = "devices")
        /\ closed \in BOOLEAN /\ (closed <=> k.what = "devices")
    BY <2>1
  <2>4. q = [asked |-> k, what |-> k.what, handler |-> handler, devices |-> devices, base |-> base,
             broken |-> FALSE, closed |-> closed, error |-> FALSE, next |-> 0, hold |-> 0,
             lifted |-> 0, cells |-> {}, told |-> {}, summarizer |-> "none", aggregator |-> "none",
             verdict |-> "none"]
    BY DEF Streams!Asked
  <2> HIDE DEF handler, devices, base, closed, q
  <2>5. /\ q \in StreamRequests /\ q.what = k.what /\ q.handler # "over" /\ q.base # "nested"
        /\ q.base # "sending" /\ (q.base = "ended" <=> k.what = "devices") /\ ~q.broken
        /\ (q.closed <=> k.what = "devices") /\ ~q.error /\ q.next = 0 /\ q.hold = 0 /\ q.lifted = 0
        /\ q.cells = {} /\ q.told = {} /\ q.summarizer = "none" /\ q.aggregator = "none"
        /\ q.verdict = "none"
    BY <2>1, <2>2, <2>3, <2>4 DEF StreamRequests
  <2>6. StreamOk(q, FALSE)
    <3>1. 1..0 = {}
      OBVIOUS
    <3>2. InOrder(q) /\ Delivered(q) /\ CellWinners(q) /\ NothingDropped(q)
      BY <2>5, <3>1 DEF InOrder, Delivered, CellWinners, NothingDropped
    <3>3. Cursor(q)
      BY <2>5 DEF Cursor
    <3> QED BY <2>5, <3>2, <3>3 DEF StreamOk
  <2>7. CASE k.live
    BY <2>5, <2>6, <2>7 DEF Streams!Opened, q
  <2>8. CASE ~k.live
    <3> DEFINE first == IF q.what \in {"map", "track"} THEN "run" ELSE "none"
               second == IF q.what = "map" THEN "run" ELSE "none"
               h == [q EXCEPT !.summarizer = first]
               s == [h EXCEPT !.aggregator = second]
    <3>1. Streams!Opened(k) = s
      BY <2>8 DEF Streams!Opened, Streams!Started, q
    <3>2. first \in {"none", "run"} /\ second \in {"none", "run"} /\ (second # "none" => q.what = "map")
      OBVIOUS
    <3> HIDE DEF first, second
    <3>3. h \in StreamRequests
      BY <2>5, <3>2 DEF StreamRequests
    <3>4. /\ s.what = q.what /\ s.handler = q.handler /\ s.base = q.base
          /\ s.broken = q.broken /\ s.error = q.error /\ s.closed = q.closed
          /\ s.next = q.next /\ s.hold = q.hold /\ s.lifted = q.lifted /\ s.cells = q.cells
          /\ s.told = q.told /\ s.summarizer = first /\ s.aggregator = second
          /\ s.verdict = q.verdict
      BY <2>5 DEF StreamRequests
    <3> HIDE DEF h
    <3>5. s \in StreamRequests
      BY <3>2, <3>3 DEF StreamRequests
    <3> HIDE DEF s
    <3>6. InOrder(s) /\ Cursor(s) /\ (s.what = "map" => CellWinners(s)) /\ Delivered(s) /\ NothingDropped(s)
      BY <2>6, <3>2, <3>4 DEF StreamOk, InOrder, Cursor, CellWinners, Delivered, HasAll, NothingDropped
    <3> QED BY <2>5, <3>1, <3>4, <3>5, <3>6 DEF StreamOk
  <2> QED BY <2>1, <2>7, <2>8
<1>5. \A r \in Requests : StreamOk(req[r], Streams!RequestOver(r))
  BY <1>1, <1>2, <1>3, <1>4 DEF Streams!RequestOver
<1>6. \A r \in Requests : req[r] \in StreamRequests
  BY <1>5 DEF StreamOk
<1>7. req = [r \in Requests |-> req[r]]
  BY <1>1
<1> QED BY <1>5, <1>6, <1>7 DEF StreamsInv

LEMMA StreamsStep == ASSUME StreamsInv, Streams!Next PROVE StreamsInv'
<1>1. ASSUME NEW j \in Job, Streams!TakeJob(j) \/ Streams!Connect(j) \/ Streams!Cancelled(j) \/ Streams!Fails(j)
      PROVE  StreamsInv'
  BY <1>1, TakeJobKeeps, ConnectKeeps, QueryEndsKeep
<1>2. ASSUME NEW j \in Job, Streams!Deadline(j) PROVE StreamsInv'
  BY <1>2, StreamsStay DEF Streams!Deadline
<1>3. ASSUME NEW r \in Requests,
             \/ Streams!DevicesRead(r) \/ Streams!Produce(r) \/ Streams!CursorEnds(r)
             \/ Streams!NextTrack(r) \/ Streams!FirstRow(r) \/ Streams!NextRow(r)
             \/ Streams!PlaybackReturns(r)
      PROVE  StreamsInv'
  BY <1>3, QueryEndsKeep, ProduceKeeps, PlaybackMoves, PlaybackReturnsKeeps
<1>4. ASSUME NEW r \in Requests, Streams!SendOnClosed(r) PROVE StreamsInv'
  BY <1>4, StreamsStay DEF Streams!SendOnClosed
<1>5. ASSUME NEW r \in Requests,
             Streams!SummarizerEnds(r) \/ Streams!Aggregate(r) \/ Streams!AggregatorEnds(r)
      PROVE  StreamsInv'
  BY <1>5, SummarizerEndsKeeps, AggregateKeeps, AggregatorEndsKeeps
<1>6. ASSUME NEW r \in Requests,
             \/ Streams!DevicesReturn(r) \/ Streams!Forward(r) \/ Streams!StreamBroken(r)
             \/ Streams!StreamOver(r) \/ Streams!ClientGone(r) \/ Streams!Leave(r)
      PROVE  StreamsInv'
  BY <1>6, DevicesReturnKeeps, ForwardKeeps, HandlerEndsKeeps, LeaveKeeps
<1> QED BY <1>1, <1>2, <1>3, <1>4, <1>5, <1>6 DEF Streams!Next, Streams!Progress, Streams!Jobs, Job

(* Of the markers told for a cell, the last is its strongest. *)
LEMMA StrongestIsShown ==
    ASSUME NEW told \in SUBSET Number, NEW k \in Number, NEW w \in told, Same(w, k),
           \A m \in Number : \E c \in told : /\ Same(c, m) /\ StreamRank[c] <= StreamRank[m]
                                             /\ \A d \in told : Same(c, d) => d <= c,
           \A d \in told : Same(w, d) => d <= w
    PROVE  /\ Streams!Max({0} \cup {m \in told : StreamCell[m] = StreamCell[k]}) = w
           /\ Streams!Strongest(StreamCell[k]) = w
<1>1. Number \subseteq Nat \ {0} /\ StreamRank \in [Number -> Int] /\ DOMAIN StreamCell = Number
  <2>1. Len(StreamCell) \in Nat /\ StreamRank \in [Number -> Int] /\ DOMAIN StreamCell = Number
    BY StreamConstants
  <2>2. \A x \in 1..Len(StreamCell) : x \in Nat \ {0}
    BY <2>1
  <2> QED BY <2>1, <2>2 DEF Number
<1>2. Streams!Max({0} \cup {m \in told : StreamCell[m] = StreamCell[k]}) = w
  <2> DEFINE S == {0} \cup {m \in told : StreamCell[m] = StreamCell[k]}
  <2>1. w \in S /\ w \in Nat /\ S \subseteq Nat
    <3>1. w \in Number /\ StreamCell[w] = StreamCell[k]
      BY DEF Same
    <3>2. told \subseteq Nat
      BY <1>1
    <3>3. w \in Nat
      BY <3>2
    <3>4. w \in S
      BY <3>1
    <3>5. S \subseteq Nat
      <4>1. 0 \in Nat
        OBVIOUS
      <4> QED BY <3>2, <4>1, Zenon
    <3> QED BY <3>3, <3>4, <3>5
  <2>2. \A d \in S : d <= w
    BY <1>1 DEF Same
  <2>3. \A x \in S : (\A y \in S : x >= y) => x = w
    BY <2>1, <2>2
  <2>4. \A y \in S : w >= y
    BY <2>1, <2>2
  <2> HIDE DEF S
  <2>5. Streams!Max(S) = w
    BY <2>1, <2>3, <2>4 DEF Streams!Max
  <2> QED BY <2>5 DEF S
<1>3. Streams!Strongest(StreamCell[k]) = w
  <2>1. \A n \in Number : Same(n, k) => StreamRank[w] <= StreamRank[n]
    <3> SUFFICES ASSUME NEW n \in Number, Same(n, k) PROVE StreamRank[w] <= StreamRank[n]
      OBVIOUS
    <3>1. PICK c \in told : Same(c, n) /\ StreamRank[c] <= StreamRank[n] /\ \A d \in told : Same(c, d) => d <= c
      OBVIOUS
    <3>2. Same(c, w) /\ Same(w, c)
      BY <3>1 DEF Same
    <3>3. c <= w /\ w <= c
      BY <3>1, <3>2
    <3>4. c = w
      BY <1>1, <3>3
    <3> QED BY <3>1, <3>4
  <2>2. \A v \in Number : (Same(v, k) /\ \A n \in Number : Same(n, k) => StreamRank[v] <= StreamRank[n]) => v = w
    <3> SUFFICES ASSUME NEW v \in Number, Same(v, k),
                        \A n \in Number : Same(n, k) => StreamRank[v] <= StreamRank[n]
                 PROVE  v = w
      OBVIOUS
    <3>1. StreamRank[v] <= StreamRank[w] /\ StreamRank[w] <= StreamRank[v]
      BY <2>1
    <3>2. StreamRank[v] = StreamRank[w]
      BY <1>1, <3>1
    <3> QED BY <3>2, StreamConstants
  <2> QED BY <1>1, <2>1, <2>2 DEF Streams!Strongest, Same
<1> QED BY <1>2, <1>3

LEMMA DeliveredIsComplete == StreamsInv => EndedIsComplete
<1> SUFFICES ASSUME StreamsInv, NEW r \in Requests,
                    req[r].verdict \in {"end", "eof"}, ~req[r].broken, ~req[r].error
             PROVE  LET q == req[r] IN
                    CASE q.what = "map" ->
                           \A c \in {StreamCell[m] : m \in DOMAIN StreamCell} : Streams!Shows(q, c) = Streams!Strongest(c)
                      [] q.what = "devices" -> TRUE
                      [] OTHER -> q.told = DOMAIN StreamCell
  BY DEF EndedIsComplete, Streams!EndedIsComplete
<1> DEFINE q == req[r]
<1>1. HasAll(q) /\ q \in StreamRequests /\ DOMAIN StreamCell = Number
  BY OkNow, StreamConstants DEF StreamOk, Delivered
<1>2. CASE q.what = "map"
  <2> SUFFICES ASSUME NEW k \in Number
               PROVE  Streams!Shows(q, StreamCell[k]) = Streams!Strongest(StreamCell[k])
    BY <1>1, <1>2
  <2>1. q.told \in SUBSET Number
    BY <1>1 DEF StreamRequests
  <2>2. \A m \in Number : \E c \in q.told : /\ Same(c, m) /\ StreamRank[c] <= StreamRank[m]
                                            /\ \A d \in q.told : Same(c, d) => d <= c
    BY <1>1, <1>2 DEF HasAll
  <2>3. PICK w \in q.told : Same(w, k) /\ \A d \in q.told : Same(w, d) => d <= w
    BY <2>2
  <2> HIDE DEF q
  <2> QED BY <2>1, <2>2, <2>3, StrongestIsShown DEF Streams!Shows
<1>3. CASE q.what # "map"
  BY <1>1, <1>3 DEF HasAll
<1> QED BY <1>2, <1>3

LEMMA StreamsKept == ASSUME StreamsInv, [PathsNext]_pathVars PROVE StreamsInv'
<1>1. CASE MoveStreams
  BY <1>1, StreamsStep DEF MoveStreams
<1>2. CASE MoveRebuild \/ MoveUploads \/ MoveSpeeds \/ MoveRealtime \/ MoveCatalogue \/ UNCHANGED pathVars
  <2>1. UNCHANGED streamVars
    BY <1>2 DEF MoveRebuild, MoveUploads, MoveSpeeds, MoveRealtime, MoveCatalogue, pathVars
  <2> QED BY <2>1, StreamsStay DEF streamVars
<1> QED BY <1>1, <1>2 DEF PathsNext

(* The property of the run: a client whose stream came to its end, and     *)
(* whose query did not fail, has the strongest marker of each cell of the  *)
(* map, or each marker of its track or playback (aggregateMarkers).        *)
THEOREM EndedClientsHaveAll == PathsSpec => []EndedIsComplete
<1>1. PathsInit => StreamsInv
  BY StreamsBegin DEF PathsInit
<1>2. StreamsInv /\ [PathsNext]_pathVars => StreamsInv'
  BY StreamsKept
<1> QED BY <1>1, <1>2, DeliveredIsComplete, PTL DEF PathsSpec
(* --- requests do not wait for each other ------------------------------------ *)

(* What a request may be at, by what was asked: the query for devices is   *)
(* over before its handler streams, and only a playback can be closed      *)
(* before its query has ended, because its job goes on.                    *)
Roles(q) ==
    /\ q.asked.what = q.what /\ (q.handler = "devices" => q.asked.live)
    /\ q.handler = "devices" => q.devices # "none"
    /\ q.what \in {"devices", "playback"} => q.summarizer = "none"
    /\ q.what = "devices" => q.handler # "stream" /\ q.closed
    /\ q.what = "playback" =>
         /\ q.handler # "devices" /\ q.devices = "none"
         /\ q.closed /\ ~Streams!Serialized => q.base = "ended"
    /\ q.what \in {"map", "track"} =>
         /\ q.base \in {"waiting", "open", "ended"} /\ (q.base = "ended" => q.closed)
         /\ q.handler = "stream" => q.summarizer # "none" /\ (q.what = "map" => q.aggregator # "none")

(* A query that is a job of the pipeline where the database has one, and   *)
(* is under way.                                                           *)
Working(j) == Streams!Running(j) /\ (j[2] = "devices" \/ req[j[1]].what = "playback")

(* The pipeline runs the job that its worker has, and no other. *)
InTurn ==
    /\ worker # Nobody => worker \in Job /\ Working(worker)
    /\ Streams!Serialized => \A j \in Job : Working(j) => worker = j

(* The process ends only by a playback from a job that outlives it. *)
Sound == panicked => Streams!Serialized /\ \E r \in Requests : req[r].what = "playback"

TurnsInv == (\A r \in Requests : Roles(req[r])) /\ InTurn /\ Sound

(* What was asked does not change. *)
AskedOnce ==
    /\ \A r \in Requests : req'[r].asked = req[r].asked
    /\ engine' = engine

(* The values of a query that is under way. *)
Under == {"waiting", "open", "nested", "reading", "sending"}

(* A step of one request by which no query begins or ends. *)
LEMMA RolesMove ==
    ASSUME StreamsInv, TurnsInv, NEW r \in Requests, NEW s, Streams!Set(r, s),
           UNCHANGED <<engine, worker>>,
           panicked' => panicked,
           s.asked = req[r].asked, s.what = req[r].what, Roles(s),
           s.base \in Under <=> req[r].base \in Under,
           s.devices \in Under <=> req[r].devices \in Under
    PROVE  TurnsInv' /\ AskedOnce
<1>1. /\ \A x \in Requests : req'[x] = IF x = r THEN s ELSE req[x]
      /\ Streams!Serialized' = Streams!Serialized
  BY DEF StreamsInv, Streams!Set, Streams!Serialized
<1>2. \A x \in Requests : Roles(req[x])'
  <2> SUFFICES ASSUME NEW x \in Requests PROVE Roles(req[x])'
    OBVIOUS
  <2>1. Roles(req'[x])
    BY <1>1 DEF TurnsInv
  <2> QED BY <1>1, <2>1 DEF Roles
<1>3. ASSUME NEW j \in Job PROVE Working(j)' <=> Working(j)
  <2>1. j[1] \in Requests /\ j[2] \in {"base", "devices"}
    BY DEF Job
  <2>2. req'[j[1]].what = req[j[1]].what
    BY <1>1, <2>1
  <2>3. req'[j[1]][j[2]] \in Under <=> req[j[1]][j[2]] \in Under
    BY <1>1, <2>1
  <2> QED BY <2>2, <2>3 DEF Working, Streams!Running, Under
<1>4. InTurn'
  BY <1>1, <1>3 DEF TurnsInv, InTurn
<1>5. Sound'
  BY <1>1 DEF TurnsInv, Sound
<1>6. AskedOnce
  BY <1>1 DEF AskedOnce
<1> QED BY <1>2, <1>4, <1>5, <1>6 DEF TurnsInv

(* A query ends, and with it the turn of its job. *)
LEMMA RolesEnd ==
    ASSUME StreamsInv, TurnsInv, NEW j \in Job, NEW broken \in BOOLEAN, Streams!Running(j),
           Streams!Ends(j, broken)
    PROVE  TurnsInv' /\ AskedOnce
<1> DEFINE r == j[1]
           q == req[r]
           s == IF j[2] = "devices" THEN [q EXCEPT !.devices = "ended"]
                ELSE IF q.what = "playback" THEN [q EXCEPT !.base = "ended", !.broken = broken]
                ELSE [q EXCEPT !.base = "ended", !.broken = broken, !.error = broken, !.closed = TRUE]
<1>1. /\ r \in Requests /\ q \in StreamRequests /\ Roles(q) /\ j[2] \in {"base", "devices"}
      /\ q[j[2]] \in Under
  BY OkNow DEF Job, TurnsInv, Streams!Running, Under
<1>2. Streams!Set(r, s) /\ worker' = (IF worker = j THEN Nobody ELSE worker) /\ UNCHANGED <<engine, panicked>>
  BY DEF Streams!Ends
<1>3. s.asked = q.asked /\ s.what = q.what /\ s[j[2]] = "ended" /\ Roles(s)
      /\ \A c \in {"base", "devices"} \ {j[2]} : s[c] = q[c]
  <2>1. CASE j[2] = "devices"
    <3>1. /\ s.asked = q.asked /\ s.what = q.what /\ s.handler = q.handler /\ s.devices = "ended"
          /\ s.base = q.base /\ s.summarizer = q.summarizer /\ s.aggregator = q.aggregator
          /\ s.closed = q.closed
      BY <1>1, <2>1 DEF StreamRequests
    <3>2. q.devices \in Under
      BY <1>1, <2>1
    <3> HIDE DEF s, q
    <3>3. Roles(s)
      BY <1>1, <3>1, <3>2 DEF Roles, Under
    <3> QED BY <2>1, <3>1, <3>3
  <2>2. CASE j[2] = "base"
    <3>1. /\ s.asked = q.asked /\ s.what = q.what /\ s.handler = q.handler /\ s.devices = q.devices
          /\ s.base = "ended" /\ s.summarizer = q.summarizer /\ s.aggregator = q.aggregator
          /\ s.closed = IF q.what = "playback" THEN q.closed ELSE TRUE
      BY <1>1, <2>2 DEF StreamRequests
    <3> HIDE DEF s, q
    <3>2. Roles(s)
      BY <1>1, <3>1 DEF Roles
    <3> QED BY <2>2, <3>1, <3>2
  <2> QED BY <1>1, <2>1, <2>2
<1> HIDE DEF s
<1>4. /\ \A x \in Requests : req'[x] = IF x = r THEN s ELSE req[x]
      /\ Streams!Serialized' = Streams!Serialized
  BY <1>1, <1>2 DEF StreamsInv, Streams!Set, Streams!Serialized
<1>5. \A x \in Requests : Roles(req[x])'
  <2> SUFFICES ASSUME NEW x \in Requests PROVE Roles(req[x])'
    OBVIOUS
  <2>1. Roles(req'[x])
    BY <1>3, <1>4 DEF TurnsInv
  <2> QED BY <1>4, <2>1 DEF Roles
<1>6. ASSUME NEW k \in Job PROVE Working(k)' <=> (k # j /\ Working(k))
  <2>1. k[1] \in Requests /\ k[2] \in {"base", "devices"} /\ k = <<k[1], k[2]>> /\ j = <<j[1], j[2]>>
    BY DEF Job
  <2>2. req'[k[1]].what = req[k[1]].what
    BY <1>3, <1>4, <2>1
  <2>3. CASE k = j
    BY <1>3, <1>4, <2>1, <2>3 DEF Working, Streams!Running
  <2>4. CASE k # j
    <3>1. req'[k[1]][k[2]] = req[k[1]][k[2]]
      BY <1>1, <1>3, <1>4, <2>1, <2>4
    <3> QED BY <2>2, <2>4, <3>1 DEF Working, Streams!Running
  <2> QED BY <2>3, <2>4
<1>7. InTurn'
  <2>1. worker' # Nobody => worker' \in Job /\ Working(worker)'
    <3>1. CASE worker # Nobody /\ worker # j
      BY <1>2, <1>6, <3>1 DEF TurnsInv, InTurn, Working, Streams!Running
    <3>2. CASE worker = Nobody \/ worker = j
      BY <1>2, <3>2
    <3> QED BY <3>1, <3>2
  <2>2. Streams!Serialized' => \A k \in Job : Working(k)' => worker' = k
    BY <1>2, <1>4, <1>6 DEF TurnsInv, InTurn
  <2> QED BY <2>1, <2>2 DEF InTurn, Working, Streams!Running
<1>8. Sound' /\ AskedOnce
  BY <1>2, <1>3, <1>4 DEF TurnsInv, Sound, AskedOnce
<1> QED BY <1>5, <1>7, <1>8 DEF TurnsInv


LEMMA RolesTakeJob ==
    ASSUME StreamsInv, TurnsInv, NEW j \in Job, Streams!TakeJob(j)
    PROVE  TurnsInv' /\ AskedOnce
<1> DEFINE r == j[1]
           q == req[r]
<1>1. /\ r \in Requests /\ q \in StreamRequests /\ Roles(q) /\ j[2] \in {"base", "devices"}
      /\ q[j[2]] = "queued" /\ worker = Nobody /\ UNCHANGED <<engine, panicked>>
  BY OkNow DEF Job, TurnsInv, Streams!TakeJob, Streams!CanTakeJob
<1>2. CASE Streams!Set(r, [q EXCEPT ![j[2]] = "ended", !.broken = @ \/ j[2] = "base"]) /\ worker' = worker
  <2> DEFINE s == [q EXCEPT ![j[2]] = "ended", !.broken = @ \/ j[2] = "base"]
  <2>1. Streams!Set(r, s)
    BY <1>2
  <2>2. /\ s.asked = q.asked /\ s.what = q.what /\ s.handler = q.handler
        /\ s.summarizer = q.summarizer /\ s.aggregator = q.aggregator /\ s.closed = q.closed
        /\ j[2] = "base" => s.base = "ended" /\ s.devices = q.devices /\ q.base = "queued"
        /\ j[2] = "devices" => s.devices = "ended" /\ s.base = q.base /\ q.devices = "queued"
    BY <1>1 DEF StreamRequests
  <2> HIDE DEF s, q
  <2>3. Roles(s)
    BY <1>1, <2>2 DEF Roles
  <2>4. (s.base \in Under <=> q.base \in Under) /\ (s.devices \in Under <=> q.devices \in Under)
    BY <1>1, <2>2 DEF Under
  <2> QED BY <1>1, <1>2, <2>1, <2>2, <2>3, <2>4, RolesMove DEF q
<1>3. CASE Streams!Set(r, [q EXCEPT ![j[2]] = "waiting"]) /\ worker' = j
  <2> DEFINE s == [q EXCEPT ![j[2]] = "waiting"]
  <2>1. Streams!Set(r, s)
    BY <1>3
  <2>2. /\ s.asked = q.asked /\ s.what = q.what /\ s.handler = q.handler
        /\ s.summarizer = q.summarizer /\ s.aggregator = q.aggregator /\ s.closed = q.closed
        /\ j[2] = "base" => s.base = "waiting" /\ s.devices = q.devices /\ q.base = "queued"
        /\ j[2] = "devices" => s.devices = "waiting" /\ s.base = q.base /\ q.devices = "queued"
        /\ s[j[2]] = "waiting"
        /\ \A c \in {"base", "devices"} \ {j[2]} : s[c] = q[c]
    BY <1>1 DEF StreamRequests
  <2> HIDE DEF s
  <2>3. Streams!Serialized' = Streams!Serialized /\ \A x \in Requests : req'[x] = IF x = r THEN s ELSE req[x]
    BY <1>1, <2>1 DEF StreamsInv, Streams!Set, Streams!Serialized
  <2>4. Roles(s)
    <3> HIDE DEF q
    <3>1. j[2] = "base" => q.what = "playback"
      <4>1. q.what \in {"map", "track", "devices", "playback"}
        BY <1>1 DEF StreamRequests
      <4>2. q.what = "devices" => q.base = "ended"
        BY OkNow DEF StreamOk, Cursor, q, r, Job
      <4> QED BY <1>1, <2>2, <4>1, <4>2 DEF Roles
    <3>2. j[2] = "base" /\ q.closed => Streams!Serialized
      BY <1>1, <2>2, <3>1 DEF Roles
    <3> QED BY <1>1, <2>2, <3>1, <3>2 DEF Roles
  <2>5. \A x \in Requests : Roles(req[x])'
    <3> SUFFICES ASSUME NEW x \in Requests PROVE Roles(req[x])'
      OBVIOUS
    <3>1. Roles(req'[x])
      BY <2>3, <2>4 DEF TurnsInv
    <3> QED BY <2>3, <3>1 DEF Roles
  <2>6. Working(j)'
    <3>1. req'[r] = s
      BY <1>1, <2>3
    <3>2. Streams!Running(j)'
      BY <2>2, <3>1 DEF Streams!Running
    <3>3. j[2] = "base" => q.what = "playback"
      <4>1. q.what \in {"map", "track", "devices", "playback"}
        BY <1>1 DEF StreamRequests
      <4>2. q.what = "devices" => q.base = "ended"
        BY OkNow DEF StreamOk, Cursor, Job
      <4> HIDE DEF q
      <4> QED BY <1>1, <2>2, <4>1, <4>2 DEF Roles
    <3> QED BY <1>1, <2>2, <3>1, <3>2, <3>3 DEF Working
  <2>7. ASSUME NEW k \in Job, Working(k)', Streams!Serialized PROVE k = j
    <3>1. k[1] \in Requests /\ k[2] \in {"base", "devices"} /\ k = <<k[1], k[2]>> /\ j = <<j[1], j[2]>>
      BY DEF Job
    <3> SUFFICES ASSUME k # j PROVE FALSE
      OBVIOUS
    <3>2. req'[k[1]][k[2]] = req[k[1]][k[2]] /\ req'[k[1]].what = req[k[1]].what
      BY <1>1, <2>2, <2>3, <3>1
    <3>3. Working(k)
      BY <2>7, <3>2 DEF Working, Streams!Running
    <3>4. worker = k
      BY <2>7, <3>3 DEF TurnsInv, InTurn
    <3>5. Nobody \notin Job
      BY PathsAssumption DEF Streams!Assumption, Streams!Jobs, Job
    <3> QED BY <1>1, <3>4, <3>5
  <2>8. InTurn'
    <3>1. Working(worker)'
      BY <1>3, <2>6 DEF Working, Streams!Running
    <3> QED BY <1>3, <2>3, <2>7, <3>1 DEF InTurn
  <2>9. Sound' /\ AskedOnce
    BY <1>1, <2>2, <2>3 DEF TurnsInv, Sound, AskedOnce
  <2> QED BY <2>5, <2>8, <2>9 DEF TurnsInv
<1> QED BY <1>2, <1>3 DEF Streams!TakeJob

LEMMA RolesConnect ==
    ASSUME StreamsInv, TurnsInv, NEW j \in Job, Streams!Connect(j)
    PROVE  TurnsInv' /\ AskedOnce
<1> DEFINE r == j[1]
           q == req[r]
           s == [q EXCEPT ![j[2]] = "open"]
<1>1. /\ r \in Requests /\ q \in StreamRequests /\ Roles(q) /\ j[2] \in {"base", "devices"}
      /\ q[j[2]] = "waiting" /\ Streams!Set(r, s) /\ UNCHANGED <<engine, worker, panicked>>
  BY OkNow DEF Job, TurnsInv, Streams!Connect, Streams!CanConnect
<1>2. /\ s.asked = q.asked /\ s.what = q.what /\ s.handler = q.handler
      /\ s.summarizer = q.summarizer /\ s.aggregator = q.aggregator /\ s.closed = q.closed
      /\ j[2] = "base" => s.base = "open" /\ s.devices = q.devices /\ q.base = "waiting"
      /\ j[2] = "devices" => s.devices = "open" /\ s.base = q.base /\ q.devices = "waiting"
  BY <1>1 DEF StreamRequests
<1> HIDE DEF s, q
<1>3. Roles(s)
  BY <1>1, <1>2 DEF Roles
<1>4. (s.base \in Under <=> q.base \in Under) /\ (s.devices \in Under <=> q.devices \in Under)
  BY <1>1, <1>2 DEF Under
<1> QED BY <1>1, <1>2, <1>3, <1>4, RolesMove DEF q

LEMMA RolesQueryEnds ==
    ASSUME StreamsInv, TurnsInv
    PROVE  /\ \A j \in Job : Streams!Cancelled(j) \/ Streams!Fails(j) => TurnsInv' /\ AskedOnce
           /\ \A r \in Requests : Streams!DevicesRead(r) \/ Streams!CursorEnds(r) => TurnsInv' /\ AskedOnce
<1>1. ASSUME NEW j \in Job, Streams!Cancelled(j) \/ Streams!Fails(j) PROVE TurnsInv' /\ AskedOnce
  BY <1>1, RolesEnd DEF Streams!Cancelled, Streams!CanCancel, Streams!Fails
<1>2. ASSUME NEW r \in Requests, Streams!DevicesRead(r) PROVE TurnsInv' /\ AskedOnce
  <2>1. /\ <<r, "devices">> \in Job /\ Streams!Running(<<r, "devices">>)
        /\ Streams!Ends(<<r, "devices">>, FALSE)
    BY <1>2 DEF Streams!DevicesRead, Streams!CanReadDevices, Job, Streams!Running
  <2> QED BY <2>1, RolesEnd
<1>3. ASSUME NEW r \in Requests, Streams!CursorEnds(r) PROVE TurnsInv' /\ AskedOnce
  <2>1. /\ <<r, "base">> \in Job /\ Streams!Running(<<r, "base">>)
        /\ Streams!Ends(<<r, "base">>, FALSE)
    BY <1>3 DEF Streams!CursorEnds, Streams!CursorAtEnd, Job, Streams!Running
  <2> QED BY <2>1, RolesEnd
<1> QED BY <1>1, <1>2, <1>3

(* The cursors of a playback, also when the handler takes a row from it.   *)
LEMMA RolesPlayback ==
    ASSUME StreamsInv, TurnsInv, NEW r \in Requests,
           Streams!NextTrack(r) \/ Streams!FirstRow(r) \/ Streams!NextRow(r)
    PROVE  TurnsInv' /\ AskedOnce
<1> DEFINE q == req[r]
<1>1. q \in StreamRequests /\ Roles(q)
  BY OkNow DEF TurnsInv
<1>2. PICK from \in {"open", "nested", "reading"}, to \in {"nested", "sending", "open"} :
        Streams!PlaybackGoes(r, from, to)
  BY DEF Streams!NextTrack, Streams!FirstRow, Streams!NextRow
<1> DEFINE s == [q EXCEPT !.base = to]
<1>3. /\ Streams!Set(r, s) /\ q.what = "playback" /\ q.base = from
      /\ UNCHANGED <<engine, worker, panicked>>
  BY <1>2 DEF Streams!PlaybackGoes, Streams!PlaybackAt
<1>4. /\ s.asked = q.asked /\ s.what = q.what /\ s.handler = q.handler /\ s.devices = q.devices
      /\ s.summarizer = q.summarizer /\ s.aggregator = q.aggregator /\ s.closed = q.closed
      /\ s.base = to
  BY <1>1 DEF StreamRequests
<1> HIDE DEF s, q
<1>5. Roles(s)
  BY <1>1, <1>3, <1>4 DEF Roles
<1>6. s.base \in Under <=> q.base \in Under
  BY <1>3, <1>4 DEF Under
<1> QED BY <1>1, <1>3, <1>4, <1>5, <1>6, RolesMove DEF q

(* A playback that ends with its context leaves its job to go on, where    *)
(* there is a pipeline.                                                    *)
LEMMA RolesReturn ==
    ASSUME StreamsInv, TurnsInv, NEW r \in Requests, Streams!PlaybackReturns(r)
    PROVE  TurnsInv' /\ AskedOnce
<1> DEFINE q == req[r]
<1>1. q \in StreamRequests /\ Roles(q) /\ q.what = "playback" /\ UNCHANGED <<engine, worker, panicked>>
  BY OkNow DEF TurnsInv, Streams!PlaybackReturns, Streams!CanReturnPlayback
<1>2. PICK error \in BOOLEAN : /\ Streams!Set(r, [q EXCEPT !.closed = TRUE, !.error = error])
                               /\ q.base = "ended" \/ Streams!Serialized
  BY <1>1 DEF Streams!PlaybackReturns, Streams!CanReturnPlayback, StreamRequests
<1> DEFINE s == [q EXCEPT !.closed = TRUE, !.error = error]
<1>3. /\ s.asked = q.asked /\ s.what = q.what /\ s.handler = q.handler /\ s.devices = q.devices
      /\ s.summarizer = q.summarizer /\ s.aggregator = q.aggregator /\ s.base = q.base
  BY <1>1 DEF StreamRequests
<1>4. Streams!Set(r, s)
  BY <1>2
<1> HIDE DEF s, q
<1>5. Roles(s)
  BY <1>1, <1>2, <1>3 DEF Roles
<1> QED BY <1>1, <1>3, <1>4, <1>5, RolesMove DEF q

(* Goroutines that pass a marker on, or end.                               *)
LEMMA RolesStage ==
    ASSUME StreamsInv, TurnsInv, NEW r \in Requests, NEW s, Streams!Set(r, s),
           UNCHANGED <<engine, worker, panicked>>,
           s.asked = req[r].asked, s.what = req[r].what, s.base = req[r].base,
           s.devices = req[r].devices, s.closed = req[r].closed, s.handler \in {req[r].handler, "over"},
           s.summarizer # req[r].summarizer => req[r].summarizer = "run" /\ s.summarizer = "over",
           s.aggregator # req[r].aggregator => req[r].aggregator = "run" /\ s.aggregator = "over"
    PROVE  TurnsInv' /\ AskedOnce
<1>1. Roles(req[r])
  BY DEF TurnsInv
<1>2. Roles(s)
  BY <1>1 DEF Roles
<1> QED BY <1>2, RolesMove

LEMMA RolesProduce ==
    ASSUME StreamsInv, TurnsInv, NEW r \in Requests,
           Streams!Produce(r) \/ Streams!SummarizerEnds(r) \/ Streams!Aggregate(r) \/ Streams!AggregatorEnds(r)
    PROVE  TurnsInv' /\ AskedOnce
<1> DEFINE q == req[r]
<1>1. q \in StreamRequests
  BY OkNow
<1>2. CASE Streams!Produce(r)
  <2> DEFINE s == [q EXCEPT !.next = q.next + 1, !.hold = q.next + 1]
  <2>1. Streams!Set(r, s) /\ UNCHANGED <<engine, worker, panicked>>
    BY <1>2 DEF Streams!Produce
  <2>2. /\ s.asked = q.asked /\ s.what = q.what /\ s.handler = q.handler /\ s.devices = q.devices
        /\ s.summarizer = q.summarizer /\ s.aggregator = q.aggregator /\ s.base = q.base
        /\ s.closed = q.closed
    BY <1>1 DEF StreamRequests
  <2> HIDE DEF s
  <2> QED BY <2>1, <2>2, RolesStage
<1>3. CASE Streams!SummarizerEnds(r)
  <2> DEFINE s == [q EXCEPT !.summarizer = "over", !.hold = 0]
  <2>1. Streams!Set(r, s) /\ UNCHANGED <<engine, worker, panicked>> /\ q.summarizer = "run"
    BY <1>3 DEF Streams!SummarizerEnds, Streams!SummarizerDone, Streams!Stage
  <2>2. /\ s.asked = q.asked /\ s.what = q.what /\ s.handler = q.handler /\ s.devices = q.devices
        /\ s.summarizer = "over" /\ s.aggregator = q.aggregator /\ s.base = q.base
        /\ s.closed = q.closed
    BY <1>1 DEF StreamRequests
  <2> HIDE DEF s
  <2> QED BY <2>1, <2>2, RolesStage
<1>4. CASE Streams!Aggregate(r)
  <2> DEFINE a == [q EXCEPT !.hold = 0, !.lifted = q.hold,
                            !.cells = {c \in @ : StreamCell[c] # StreamCell[q.hold]} \cup {q.hold}]
             b == [q EXCEPT !.hold = 0]
  <2>1. PICK s \in {a, b} : Streams!Set(r, s) /\ UNCHANGED <<engine, worker, panicked>>
    BY <1>4 DEF Streams!Aggregate, Streams!Stage
  <2>2. ASSUME NEW x \in {a, b}
        PROVE  /\ x.asked = q.asked /\ x.what = q.what /\ x.handler = q.handler /\ x.devices = q.devices
               /\ x.summarizer = q.summarizer /\ x.aggregator = q.aggregator /\ x.base = q.base
               /\ x.closed = q.closed
    <3>1. CASE x = a
      BY <1>1, <3>1 DEF StreamRequests
    <3>2. CASE x = b
      BY <1>1, <3>2 DEF StreamRequests
    <3> QED BY <3>1, <3>2
  <2> HIDE DEF a, b
  <2> QED BY <2>1, <2>2, RolesStage
<1>5. CASE Streams!AggregatorEnds(r)
  <2> DEFINE s == [q EXCEPT !.aggregator = "over", !.lifted = 0]
  <2>1. Streams!Set(r, s) /\ UNCHANGED <<engine, worker, panicked>> /\ q.aggregator = "run"
    BY <1>5 DEF Streams!AggregatorEnds, Streams!AggregatorDone, Streams!Stage
  <2>2. /\ s.asked = q.asked /\ s.what = q.what /\ s.handler = q.handler /\ s.devices = q.devices
        /\ s.summarizer = q.summarizer /\ s.aggregator = "over" /\ s.base = q.base
        /\ s.closed = q.closed
    BY <1>1 DEF StreamRequests
  <2> HIDE DEF s
  <2> QED BY <2>1, <2>2, RolesStage
<1> QED BY <1>2, <1>3, <1>4, <1>5


LEMMA RolesHandler ==
    ASSUME StreamsInv, TurnsInv, NEW r \in Requests,
           Streams!StreamBroken(r) \/ Streams!StreamOver(r) \/ Streams!ClientGone(r)
    PROVE  TurnsInv' /\ AskedOnce
<1> DEFINE q == req[r]
<1>1. q \in StreamRequests
  BY OkNow
<1>2. PICK verdict : Streams!Set(r, [q EXCEPT !.handler = "over", !.verdict = verdict])
                     /\ UNCHANGED <<engine, worker, panicked>>
  BY DEF Streams!StreamBroken, Streams!StreamOver, Streams!ClientGone, Streams!Told, Streams!Stage
<1> DEFINE s == [q EXCEPT !.handler = "over", !.verdict = verdict]
<1>3. /\ s.asked = q.asked /\ s.what = q.what /\ s.handler = "over" /\ s.devices = q.devices
      /\ s.summarizer = q.summarizer /\ s.aggregator = q.aggregator /\ s.base = q.base
      /\ s.closed = q.closed
  BY <1>1 DEF StreamRequests
<1>4. Streams!Set(r, s)
  BY <1>2
<1> HIDE DEF s
<1> QED BY <1>2, <1>3, <1>4, RolesStage

LEMMA RolesDevices ==
    ASSUME StreamsInv, TurnsInv, NEW r \in Requests, Streams!DevicesReturn(r)
    PROVE  TurnsInv' /\ AskedOnce
<1> DEFINE q == req[r]
<1>1. q \in StreamRequests /\ Roles(q) /\ q.handler = "devices"
  BY OkNow DEF TurnsInv, Streams!DevicesReturn, Streams!DevicesDone
<1>2. CASE q.what = "devices"
  <2>1. PICK verdict : Streams!Set(r, [q EXCEPT !.handler = "over", !.verdict = verdict])
                       /\ UNCHANGED <<engine, worker, panicked>>
    BY <1>2 DEF Streams!DevicesReturn, Streams!Told, Streams!Stage
  <2> DEFINE s == [q EXCEPT !.handler = "over", !.verdict = verdict]
  <2>2. /\ s.asked = q.asked /\ s.what = q.what /\ s.handler = "over" /\ s.devices = q.devices
        /\ s.summarizer = q.summarizer /\ s.aggregator = q.aggregator /\ s.base = q.base
        /\ s.closed = q.closed
    BY <1>1 DEF StreamRequests
  <2>3. Streams!Set(r, s)
    BY <2>1
  <2> HIDE DEF s
  <2> QED BY <2>1, <2>2, <2>3, RolesStage
<1>3. CASE q.what # "devices"
  <2> DEFINE s == [Streams!Started(q) EXCEPT !.handler = "stream"]
  <2>1. Streams!Set(r, s) /\ UNCHANGED <<engine, worker, panicked>>
    BY <1>3 DEF Streams!DevicesReturn, Streams!Stage
  <2>2. /\ s.asked = q.asked /\ s.what = q.what /\ s.handler = "stream" /\ s.devices = q.devices
        /\ s.base = q.base /\ s.closed = q.closed
        /\ s.summarizer = IF q.what \in {"map", "track"} THEN "run" ELSE "none"
        /\ s.aggregator = IF q.what = "map" THEN "run" ELSE "none"
    BY <1>1 DEF StreamRequests, Streams!Started
  <2> HIDE DEF s, q
  <2>3. Roles(s)
    BY <1>1, <1>3, <2>2 DEF Roles
  <2> QED BY <2>1, <2>2, <2>3, RolesMove DEF q
<1> QED BY <1>2, <1>3

LEMMA RolesForward ==
    ASSUME StreamsInv, TurnsInv, NEW r \in Requests, Streams!Forward(r)
    PROVE  TurnsInv' /\ AskedOnce
<1> DEFINE q == req[r]
<1>1. q \in StreamRequests /\ Roles(q)
  BY OkNow DEF TurnsInv
<1>2. PICK told :
        /\ UNCHANGED <<engine, worker, panicked>>
        /\ Streams!Set(r, CASE q.what = "map" -> [[q EXCEPT !.told = told] EXCEPT !.lifted = 0]
                            [] q.what = "track" -> [[q EXCEPT !.told = told] EXCEPT !.hold = 0]
                            [] OTHER -> [[q EXCEPT !.told = told] EXCEPT !.base = "reading", !.next = q.next + 1])
  BY DEF Streams!Forward, Streams!Stage
<1>3. CASE q.what \in {"map", "track"}
  <2> DEFINE s == IF q.what = "map" THEN [[q EXCEPT !.told = told] EXCEPT !.lifted = 0]
                  ELSE [[q EXCEPT !.told = told] EXCEPT !.hold = 0]
  <2>1. Streams!Set(r, s)
    BY <1>2, <1>3
  <2>2. /\ s.asked = q.asked /\ s.what = q.what /\ s.handler = q.handler /\ s.devices = q.devices
        /\ s.summarizer = q.summarizer /\ s.aggregator = q.aggregator /\ s.base = q.base
        /\ s.closed = q.closed
    BY <1>1 DEF StreamRequests
  <2> HIDE DEF s
  <2> QED BY <1>2, <2>1, <2>2, RolesStage
<1>4. CASE q.what \notin {"map", "track"}
  <2> DEFINE s == [[q EXCEPT !.told = told] EXCEPT !.base = "reading", !.next = q.next + 1]
  <2>1. Streams!Set(r, s) /\ q.base = "sending" /\ ~q.closed /\ q.what = "playback"
    <3>1. Streams!Set(r, s)
      BY <1>2, <1>4
    <3>2. q.base = "sending" /\ ~q.closed
      BY <1>4 DEF Streams!Forward, Streams!CanForward, Streams!Offered
    <3>3. q.what = "playback"
      BY <1>1, <1>4, <3>2 DEF StreamRequests, Roles
    <3> QED BY <3>1, <3>2, <3>3
  <2>2. /\ s.asked = q.asked /\ s.what = q.what /\ s.handler = q.handler /\ s.devices = q.devices
        /\ s.summarizer = q.summarizer /\ s.aggregator = q.aggregator /\ s.base = "reading"
        /\ s.closed = q.closed
    BY <1>1 DEF StreamRequests
  <2> HIDE DEF s, q
  <2>3. Roles(s)
    BY <1>1, <2>1, <2>2 DEF Roles
  <2>4. s.base \in Under /\ q.base \in Under
    BY <2>1, <2>2 DEF Under
  <2> QED BY <1>2, <2>1, <2>2, <2>3, <2>4, RolesMove DEF q
<1> QED BY <1>3, <1>4

(* A playback outlives its channels only in a job of the pipeline.         *)
LEMMA RolesPanic ==
    ASSUME StreamsInv, TurnsInv, NEW r \in Requests, Streams!SendOnClosed(r)
    PROVE  TurnsInv' /\ AskedOnce
<1>1. /\ req[r].what = "playback" /\ req[r].base = "sending" /\ req[r].closed
      /\ UNCHANGED <<engine, req, worker>>
  BY DEF Streams!SendOnClosed, Streams!SendsOnClosed, Streams!PlaybackAt
<1>2. Streams!Serialized
  BY <1>1 DEF TurnsInv, Roles
<1>3. Sound'
  BY <1>1, <1>2 DEF Sound, Streams!Serialized
<1> QED BY <1>1, <1>3
    DEF TurnsInv, Roles, InTurn, Working, Streams!Running, Streams!Serialized, AskedOnce

LEMMA RolesStay ==
    ASSUME StreamsInv, TurnsInv, UNCHANGED <<engine, req, worker, panicked>>
    PROVE  TurnsInv' /\ AskedOnce
BY DEF TurnsInv, Roles, InTurn, Working, Streams!Running, Streams!Serialized, Sound, AskedOnce

LEMMA RolesBegin == Streams!Init => TurnsInv
<1> SUFFICES ASSUME Streams!Init PROVE TurnsInv
  OBVIOUS
<1>1. PICK kind \in Mixes : req = [r \in Requests |-> Streams!Opened(kind[r])]
  BY DEF Streams!Init
<1>2. worker = Nobody /\ panicked = FALSE
  BY DEF Streams!Init
<1>3. ASSUME NEW r \in Requests
      PROVE  /\ Roles(req[r])
             /\ req[r].devices \notin {"open", "nested", "reading", "sending"}
             /\ Streams!Serialized => req[r].devices # "waiting"
             /\ Streams!Serialized /\ req[r].what = "playback" => req[r].base = "queued"
  <2> DEFINE k == kind[r]
             q == Streams!Opened(k)
  <2>1. k \in [what : {"map", "track"}, live : BOOLEAN] \cup [what : {"devices"}, live : {TRUE}]
             \cup [what : {"playback"}, live : {FALSE}]
    BY PathsAssumption DEF Streams!Assumption
  <2>2. /\ q.asked = k /\ q.what = k.what /\ q.handler = (IF k.live THEN "devices" ELSE "stream")
        /\ q.devices = (CASE ~k.live -> "none" [] k.live /\ Streams!Serialized -> "queued" [] OTHER -> "waiting")
        /\ q.base = (CASE k.what = "devices" -> "ended"
                       [] k.what = "playback" /\ Streams!Serialized -> "queued"
                       [] OTHER -> "waiting")
        /\ k.what = "devices" => q.closed = TRUE
        /\ k.what # "devices" => q.closed = FALSE
    BY DEF Streams!Opened, Streams!Asked, Streams!Started
  <2>3. /\ q.summarizer = (IF ~k.live /\ k.what \in {"map", "track"} THEN "run" ELSE "none")
        /\ q.aggregator = (IF ~k.live /\ k.what = "map" THEN "run" ELSE "none")
    BY <2>2 DEF Streams!Opened, Streams!Asked, Streams!Started
  <2>4. req[r] = q /\ k.live \in BOOLEAN /\ (k.what = "devices" => k.live) /\ (k.what = "playback" => ~k.live)
        /\ k.what \in {"map", "track", "devices", "playback"}
    BY <1>1, <2>1
  <2> HIDE DEF q, k
  <2>5. Roles(q)
    <3>1. CASE k.what \in {"map", "track"}
      BY <2>2, <2>3, <2>4, <3>1 DEF Roles
    <3>2. CASE k.what = "devices"
      BY <2>2, <2>3, <2>4, <3>2 DEF Roles
    <3>3. CASE k.what = "playback"
      <4>1. ~k.live
        BY <2>4, <3>3
      <4>2. /\ q.what = "playback" /\ q.handler = "stream" /\ q.devices = "none" /\ q.closed = FALSE
            /\ q.summarizer = "none" /\ q.asked.what = "playback"
        BY <2>2, <2>3, <3>3, <4>1
      <4> QED BY <4>2 DEF Roles
    <3> QED BY <2>4, <3>1, <3>2, <3>3
  <2>6. /\ q.devices \notin {"open", "nested", "reading", "sending"}
        /\ Streams!Serialized => q.devices # "waiting"
        /\ Streams!Serialized /\ q.what = "playback" => q.base = "queued"
    BY <2>2, <2>4
  <2> QED BY <2>4, <2>5, <2>6
<1>4. InTurn
  <2> SUFFICES ASSUME Streams!Serialized, NEW j \in Job, Working(j) PROVE FALSE
    BY <1>2 DEF InTurn
  <2>1. j[1] \in Requests /\ j[2] \in {"base", "devices"}
    BY DEF Job
  <2> QED BY <1>3, <2>1 DEF Working, Streams!Running
<1> QED BY <1>2, <1>3, <1>4 DEF TurnsInv, Sound

LEMMA TurnsStep == ASSUME StreamsInv, TurnsInv, Streams!Next PROVE TurnsInv' /\ AskedOnce
<1>1. ASSUME NEW j \in Job, Streams!TakeJob(j) \/ Streams!Connect(j) \/ Streams!Cancelled(j) \/ Streams!Fails(j)
      PROVE  TurnsInv' /\ AskedOnce
  BY <1>1, RolesTakeJob, RolesConnect, RolesQueryEnds
<1>2. ASSUME NEW j \in Job, Streams!Deadline(j) PROVE TurnsInv' /\ AskedOnce
  BY <1>2, RolesStay DEF Streams!Deadline
<1>3. ASSUME NEW r \in Requests,
             \/ Streams!DevicesRead(r) \/ Streams!CursorEnds(r)
             \/ Streams!NextTrack(r) \/ Streams!FirstRow(r) \/ Streams!NextRow(r)
             \/ Streams!PlaybackReturns(r) \/ Streams!SendOnClosed(r)
      PROVE  TurnsInv' /\ AskedOnce
  BY <1>3, RolesQueryEnds, RolesPlayback, RolesReturn, RolesPanic
<1>4. ASSUME NEW r \in Requests,
             \/ Streams!Produce(r) \/ Streams!SummarizerEnds(r) \/ Streams!Aggregate(r)
             \/ Streams!AggregatorEnds(r)
      PROVE  TurnsInv' /\ AskedOnce
  BY <1>4, RolesProduce
<1>5. ASSUME NEW r \in Requests,
             \/ Streams!DevicesReturn(r) \/ Streams!Forward(r) \/ Streams!StreamBroken(r)
             \/ Streams!StreamOver(r) \/ Streams!ClientGone(r)
      PROVE  TurnsInv' /\ AskedOnce
  BY <1>5, RolesDevices, RolesForward, RolesHandler
<1>6. ASSUME NEW r \in Requests, Streams!Leave(r) PROVE TurnsInv' /\ AskedOnce
  BY <1>6, RolesStay DEF Streams!Leave
<1> QED BY <1>1, <1>2, <1>3, <1>4, <1>5, <1>6 DEF Streams!Next, Streams!Progress, Streams!Jobs, Job


(* --- some can go on --------------------------------------------------------- *)

(* Requests that keep a connection while they wait for another one: for    *)
(* their devices, or for the markers of a track.  In the pipeline no two   *)
(* playbacks are under way.                                                *)
Holders ==
    {r \in Requests : \/ req[r].asked.live /\ req[r].asked.what # "devices"
                      \/ req[r].asked.what = "playback" /\ ~Streams!Serialized}
OnePlayback ==
    IF Streams!Serialized /\ \E r \in Requests : req[r].asked.what = "playback" THEN 1 ELSE 0

(* One connection is left when each of them has its first. *)
EnoughConnections ==
    /\ IsFiniteSet(Requests)
    /\ Cardinality(Holders) + OnePlayback < Streams!Connections

(* What nobody can do. *)
LEMMA NoneCan ==
    ASSUME ~Streams!CanGoOn
    PROVE  /\ \A j \in Job : ~Streams!CanTakeJob(j) /\ ~Streams!CanConnect(j) /\ ~Streams!CanCancel(j)
           /\ \A r \in Requests :
                /\ ~Streams!CanReadDevices(r) /\ ~Streams!CanProduce(r) /\ ~Streams!CursorAtEnd(r)
                /\ ~Streams!CanOpenTrack(r) /\ ~Streams!CanSeeFirstRow(r)
                /\ ~Streams!PlaybackAt(r, "reading")
                /\ ~Streams!CanReturnPlayback(r) /\ ~Streams!SendsOnClosed(r)
                /\ ~Streams!SummarizerDone(r) /\ ~Streams!CanAggregate(r)
                /\ ~Streams!AggregatorDone(r) /\ ~Streams!DevicesDone(r) /\ ~Streams!CanForward(r)
                /\ ~Streams!HearsError(r) /\ ~Streams!HearsEnd(r) /\ ~Streams!HearsGone(r)
BY DEF Streams!CanGoOn, Streams!Jobs, Job

(* The queries of a request, as jobs. *)
LEMMA BothJobs ==
    ASSUME NEW r \in Requests
    PROVE  /\ <<r, "base">> \in Job /\ <<r, "devices">> \in Job
           /\ Streams!Running(<<r, "base">>) <=> req[r].base \in Under
           /\ Streams!Running(<<r, "devices">>) <=> req[r].devices \in Under
BY DEF Job, Streams!Running, Under

(* A playback that nobody can take further waits for its second            *)
(* connection, if it is under way at all.                                  *)
LEMMA PlaybackStands ==
    ASSUME StreamsInv, TurnsInv, ~Streams!CanGoOn, NEW r \in Requests, req[r].what = "playback"
    PROVE  req[r].base \in {"queued", "waiting", "nested", "ended"}
<1> DEFINE q == req[r]
<1>1. q \in StreamRequests /\ Roles(q)
  BY OkNow DEF TurnsInv
<1>2. q.base # "open"
  BY NoneCan DEF Streams!CanOpenTrack, Streams!PlaybackAt, Streams!CursorAtEnd
<1>3. q.base # "reading"
  BY NoneCan DEF Streams!PlaybackAt
<1>4. q.base # "sending"
  <2> SUFFICES ASSUME q.base = "sending" PROVE FALSE
    OBVIOUS
  <2>1. ~q.closed
    BY NoneCan DEF Streams!SendsOnClosed, Streams!PlaybackAt
  <2>2. Streams!Offered(q) # 0
    BY <1>1, <2>1 DEF Streams!Offered, StreamRequests
  <2>3. q.handler = "over"
    BY <1>1, <2>2, NoneCan DEF Streams!CanForward, StreamRequests, Roles
  <2>4. Streams!JobOver(<<r, "base">>)
    BY <2>3 DEF Streams!JobOver, Streams!RequestOver
  <2> QED BY <2>4, BothJobs, NoneCan DEF Streams!CanCancel, Under
<1> QED BY <1>1, <1>2, <1>3, <1>4 DEF StreamRequests

(* Nor does the stream of a map or a track stand while its cursor is open  *)
(* or has ended.                                                           *)
LEMMA StreamGoes ==
    ASSUME StreamsInv, TurnsInv, ~Streams!CanGoOn, NEW r \in Requests,
           req[r].what \in {"map", "track"}, req[r].base \in {"open", "ended"}
    PROVE  req[r].handler # "stream"
<1> DEFINE q == req[r]
<1> SUFFICES ASSUME q.handler = "stream" PROVE FALSE
  OBVIOUS
<1>1. q \in StreamRequests /\ Roles(q)
  BY OkNow DEF TurnsInv
<1>2. q.summarizer \in {"run", "over"} /\ (q.what = "map" => q.aggregator \in {"run", "over"})
      /\ (q.base = "ended" => q.closed) /\ q.what # "playback"
  BY <1>1 DEF Roles, StreamRequests
<1>3. q.summarizer = "run" => q.hold # 0
  <2>1. CASE q.base = "open"
    BY <1>2, <2>1, NoneCan DEF Streams!CanProduce, Streams!CursorAtEnd
  <2>2. CASE q.base = "ended"
    BY <1>2, <2>2, NoneCan DEF Streams!SummarizerDone
  <2> QED BY <2>1, <2>2
<1>4. CASE q.what = "track"
  <2>1. q.summarizer # "over"
    BY <1>4, NoneCan DEF Streams!HearsEnd, Streams!SourceClosed
  <2>2. Streams!Offered(q) # 0
    BY <1>2, <1>3, <1>4, <2>1 DEF Streams!Offered
  <2> QED BY <2>2, NoneCan DEF Streams!CanForward
<1>5. CASE q.what = "map"
  <2>1. q.aggregator = "run"
    BY <1>2, <1>5, NoneCan DEF Streams!HearsEnd, Streams!SourceClosed
  <2>2. q.lifted = 0
    BY <1>5, NoneCan DEF Streams!CanForward, Streams!Offered
  <2>3. q.hold = 0
    BY <2>1, <2>2, NoneCan DEF Streams!CanAggregate
  <2>4. q.summarizer = "over"
    BY <1>2, <1>3, <2>3
  <2> QED BY <2>1, <2>2, <2>3, <2>4, NoneCan DEF Streams!AggregatorDone
<1> QED BY <1>4, <1>5

(* Whoever has a connection then waits for another one. *)
LEMMA HeldByHolders ==
    ASSUME StreamsInv, TurnsInv, ~Streams!CanGoOn
    PROVE  Streams!Held \subseteq
             {<<r, "base">> : r \in Holders} \cup
             (IF Streams!Serialized /\ \E r \in Requests : req[r].asked.what = "playback"
              THEN {worker} ELSE {})
<1> SUFFICES ASSUME NEW r \in Requests
             PROVE  /\ req[r].devices # "open" /\ req[r].base \notin {"reading", "sending"}
                    /\ req[r].base \in {"open", "nested"} =>
                         \/ r \in Holders
                         \/ Streams!Serialized /\ req[r].asked.what = "playback" /\ worker = <<r, "base">>
  BY DEF Streams!Held
<1> DEFINE q == req[r]
<1>1. q \in StreamRequests /\ Roles(q) /\ (q.what = "devices" => q.base = "ended")
  BY OkNow DEF TurnsInv, StreamOk, Cursor
<1>2. q.devices # "open"
  BY NoneCan DEF Streams!CanReadDevices
<1>3. CASE q.what = "playback"
  <2>1. q.base \in {"queued", "waiting", "nested", "ended"}
    BY <1>3, PlaybackStands
  <2>2. q.base = "nested" /\ Streams!Serialized => worker = <<r, "base">>
    BY <1>3, BothJobs DEF TurnsInv, InTurn, Working, Under
  <2> QED BY <1>1, <1>2, <1>3, <2>1, <2>2 DEF Roles, Holders
<1>4. CASE q.what \in {"map", "track"}
  <2>1. q.base \in {"waiting", "open", "ended"}
    BY <1>1, <1>4 DEF Roles
  <2>2. q.base = "open" => q.handler # "stream"
    BY <1>4, StreamGoes
  <2>3. q.base = "open" => q.handler # "over"
    BY BothJobs, NoneCan DEF Streams!CanCancel, Streams!JobOver, Streams!RequestOver, Under
  <2>4. q.base = "open" => q.asked.live /\ q.asked.what # "devices"
    BY <1>1, <1>4, <2>2, <2>3 DEF Roles, StreamRequests
  <2> QED BY <1>2, <2>1, <2>4 DEF Holders
<1>5. CASE q.what = "devices"
  BY <1>1, <1>2, <1>5
<1>6. q.what \in {"map", "track", "devices", "playback"}
  BY <1>1 DEF StreamRequests
<1> QED BY <1>3, <1>4, <1>5, <1>6

(* So that a connection is left. *)
LEMMA OneIsLeft ==
    ASSUME StreamsInv, TurnsInv, EnoughConnections, ~Streams!CanGoOn
    PROVE  Streams!ConnectionFree
<1> DEFINE P == Streams!Serialized /\ \E r \in Requests : req[r].asked.what = "playback"
           B == {<<r, "base">> : r \in Holders}
           H == B \cup (IF P THEN {worker} ELSE {})
<1>1. IsFiniteSet(Holders) /\ Cardinality(Holders) \in Nat
  <2>1. Holders \in SUBSET Requests
    BY DEF Holders
  <2> QED BY <2>1, FS_Subset, FS_CardinalityType DEF EnoughConnections
<1>2. IsFiniteSet(B) /\ Cardinality(B) <= Cardinality(Holders) /\ Cardinality(B) \in Nat
  <2> DEFINE f == [b \in B |-> b[1]]
  <2>1. f \in Injection(B, Holders)
    <3>1. \A b \in B : b[1] \in Holders /\ b = <<b[1], "base">>
      OBVIOUS
    <3>2. f \in [B -> Holders]
      BY <3>1
    <3>3. \A a, b \in B : f[a] = f[b] => a = b
      BY <3>1
    <3> HIDE DEF B, f
    <3> QED BY <3>2, <3>3 DEF Injection, IsInjective
  <2> HIDE DEF B, f
  <2>2. IsFiniteSet(B) /\ Cardinality(B) <= Cardinality(Holders)
    BY <1>1, <2>1, FS_Injection
  <2> QED BY <2>2, FS_CardinalityType
<1>3. IsFiniteSet(H) /\ Cardinality(H) \in Nat /\ Cardinality(H) <= Cardinality(B) + OnePlayback
  <2> HIDE DEF B
  <2>1. CASE P
    <3>1. H = B \cup {worker} /\ OnePlayback = 1
      BY <2>1 DEF OnePlayback
    <3>2. IsFiniteSet(B \cup {worker}) /\ Cardinality(B \cup {worker}) \in {Cardinality(B), Cardinality(B) + 1}
      BY <1>2, FS_AddElement
    <3> HIDE DEF H
    <3> QED BY <1>2, <3>1, <3>2
  <2>2. CASE ~P
    <3>1. H = B /\ OnePlayback = 0
      BY <2>2 DEF OnePlayback
    <3> HIDE DEF H
    <3> QED BY <1>2, <3>1
  <2> QED BY <2>1, <2>2
<1>4. Streams!Held \in SUBSET H
  BY HeldByHolders
<1> HIDE DEF H, B
<1>5. Cardinality(Streams!Held) <= Cardinality(H) /\ Cardinality(Streams!Held) \in Nat
  BY <1>3, <1>4, FS_Subset, FS_CardinalityType
<1>6. Streams!Connections \in Nat /\ OnePlayback \in Nat
  BY DEF Streams!Connections, OnePlayback
<1>7. Cardinality(Streams!Held) < Streams!Connections
  BY <1>1, <1>2, <1>3, <1>5, <1>6 DEF EnoughConnections
<1>8. Streams!Cardinality(Streams!Held) = Cardinality(Streams!Held)
  BY DEF Streams!Cardinality, Cardinality
<1> QED BY <1>7, <1>8 DEF Streams!ConnectionFree

(* Where nobody can go on, all are done: with a connection left nothing    *)
(* waits for one, so the worker is idle and its queue empty, every handler *)
(* has its devices and streams, and no stream stands.                      *)
LEMMA NothingStands ==
    ASSUME StreamsInv, TurnsInv, EnoughConnections
    PROVE  Streams!NobodyStuck
<1> SUFFICES ASSUME ~Streams!CanGoOn, NEW r \in Requests PROVE Streams!Finished(r)
  BY DEF Streams!NobodyStuck
<1>1. \A j \in Job : req[j[1]][j[2]] # "waiting"
  BY OneIsLeft, NoneCan DEF Streams!CanConnect
<1>2. \A x \in Requests : req[x].what = "playback" => req[x].base \in {"queued", "ended"}
  <2> SUFFICES ASSUME NEW x \in Requests, req[x].what = "playback" PROVE req[x].base \in {"queued", "ended"}
    OBVIOUS
  <2>1. req[x].base # "nested"
    BY OneIsLeft, NoneCan DEF Streams!CanSeeFirstRow, Streams!PlaybackAt
  <2>2. req[x].base # "waiting"
    BY <1>1, BothJobs
  <2> QED BY <2>1, <2>2, PlaybackStands
<1>3. ASSUME NEW x \in Requests PROVE req[x].devices \in {"none", "queued", "ended"}
  <2>1. req[x].devices \in {"none", "queued", "waiting", "open", "ended"}
    BY OkNow DEF StreamRequests
  <2>2. req[x].devices # "waiting"
    BY <1>1, BothJobs
  <2>3. req[x].devices # "open"
    BY NoneCan DEF Streams!CanReadDevices
  <2> QED BY <2>1, <2>2, <2>3
<1>4. worker = Nobody
  <2> SUFFICES ASSUME worker # Nobody PROVE FALSE
    OBVIOUS
  <2>1. worker \in Job /\ Working(worker)
    BY DEF TurnsInv, InTurn
  <2>2. worker[1] \in Requests /\ worker[2] \in {"base", "devices"}
    BY <2>1 DEF Job
  <2>3. CASE worker[2] = "devices"
    BY <1>3, <2>1, <2>2, <2>3 DEF Working, Streams!Running
  <2>4. CASE worker[2] = "base"
    BY <1>2, <2>1, <2>2, <2>4 DEF Working, Streams!Running
  <2> QED BY <2>2, <2>3, <2>4
<1>5. \A j \in Job : req[j[1]][j[2]] # "queued"
  BY <1>4, NoneCan DEF Streams!CanTakeJob
<1> DEFINE q == req[r]
<1>6. q \in StreamRequests /\ Roles(q) /\ Cursor(q) /\ (q.aggregator # "none" => q.what = "map")
  BY OkNow DEF TurnsInv, StreamOk, InOrder
<1>7. q.devices \in {"none", "ended"} /\ q.base # "queued"
  BY <1>3, <1>5, BothJobs
<1>8. q.handler \in {"stream", "over"}
  BY <1>6, <1>7, NoneCan DEF Streams!DevicesDone, Roles, StreamRequests
<1>9. CASE q.what = "playback"
  <2>1. q.base = "ended"
    BY <1>2, <1>7, <1>9
  <2>2. q.closed
    BY <1>9, <2>1, NoneCan DEF Streams!CanReturnPlayback
  <2>3. q.handler = "over"
    BY <1>8, <1>9, <2>2, NoneCan DEF Streams!HearsEnd, Streams!SourceClosed
  <2> QED BY <1>6, <1>7, <1>9, <2>1, <2>2, <2>3 DEF Streams!Finished, Roles
<1>10. CASE q.what = "devices"
  BY <1>6, <1>7, <1>8, <1>10 DEF Streams!Finished, Roles, Cursor
<1>11. CASE q.what \in {"map", "track"}
  <2>1. q.base \in {"open", "ended"}
    <3>1. q.base # "waiting"
      BY <1>1, BothJobs
    <3> QED BY <1>6, <1>11, <3>1 DEF Roles
  <2>2. q.handler = "over"
    BY <1>8, <1>11, <2>1, StreamGoes
  <2>3. q.base = "ended"
    BY <2>1, <2>2, BothJobs, NoneCan DEF Streams!CanCancel, Streams!JobOver, Streams!RequestOver, Under
  <2>4. q.summarizer # "run" /\ q.aggregator # "run"
    BY <2>2, NoneCan DEF Streams!SummarizerDone, Streams!AggregatorDone, Streams!RequestOver
  <2> QED BY <1>6, <1>7, <1>11, <2>2, <2>3, <2>4 DEF Streams!Finished, Roles
<1>12. q.what \in {"map", "track", "devices", "playback"}
  BY <1>6 DEF StreamRequests
<1> QED BY <1>9, <1>10, <1>11, <1>12


LEMMA TurnsKept ==
    ASSUME StreamsInv, TurnsInv, [PathsNext]_pathVars PROVE TurnsInv' /\ AskedOnce
<1>1. CASE MoveStreams
  BY <1>1, TurnsStep DEF MoveStreams
<1>2. CASE MoveRebuild \/ MoveUploads \/ MoveSpeeds \/ MoveRealtime \/ MoveCatalogue \/ UNCHANGED pathVars
  <2>1. UNCHANGED streamVars
    BY <1>2 DEF MoveRebuild, MoveUploads, MoveSpeeds, MoveRealtime, MoveCatalogue, pathVars
  <2> QED BY <2>1, RolesStay DEF streamVars
<1> QED BY <1>1, <1>2 DEF PathsNext

LEMMA AskedPlayback ==
    ASSUME Streams!Init, NEW r \in Requests, req[r].asked.what = "playback"
    PROVE  ~req[r].asked.live
<1>1. PICK kind \in Mixes : req = [x \in Requests |-> Streams!Opened(kind[x])]
  BY DEF Streams!Init
<1>2. req[r].asked = kind[r]
  BY <1>1 DEF Streams!Opened, Streams!Asked, Streams!Started
<1>3. kind[r] \in [what : {"map", "track"}, live : BOOLEAN] \cup [what : {"devices"}, live : {TRUE}]
                  \cup [what : {"playback"}, live : {FALSE}]
  BY PathsAssumption DEF Streams!Assumption
<1> QED BY <1>2, <1>3

(* What is asked and the driver decide whether there are enough. *)
LEMMA EnoughStay == ASSUME EnoughConnections, AskedOnce PROVE EnoughConnections'
<1>1. /\ Streams!Serialized' = Streams!Serialized /\ Streams!Connections' = Streams!Connections
      /\ \A r \in Requests : req'[r].asked = req[r].asked
  BY DEF AskedOnce, Streams!Serialized, Streams!Connections
<1>2. Holders' = Holders
  BY <1>1 DEF Holders
<1>3. OnePlayback' = OnePlayback
  BY <1>1 DEF OnePlayback
<1> QED BY <1>1, <1>2, <1>3 DEF EnoughConnections

(* Requests never wait for each other, or one for itself, until a deadline *)
(* frees them, and none leaves a goroutine behind, if the pool has one     *)
(* connection more than requests may keep while they wait: those that ask  *)
(* for devices before they stream (streamMarkersHandler), and playbacks,   *)
(* of which the pipeline runs one at a time.  On DuckDB that is so only    *)
(* where nobody asks for either (NewDatabase).                             *)
THEOREM NobodyWaitsForEver == PathsSpec /\ EnoughConnections => []NobodyStuck
<1> DEFINE Inv == StreamsInv /\ TurnsInv /\ EnoughConnections
<1>1. PathsInit /\ EnoughConnections => Inv
  BY StreamsBegin, RolesBegin DEF PathsInit
<1>2. Inv /\ [PathsNext]_pathVars => Inv'
  BY StreamsKept, TurnsKept, EnoughStay
<1>3. Inv => NobodyStuck
  BY NothingStands DEF NobodyStuck
<1> QED BY <1>1, <1>2, <1>3, PTL DEF PathsSpec

(* So it is for up to three requests of any kind on each database but      *)
(* DuckDB: SQLite has four connections (NewDatabase).                      *)
THEOREM FewRequestsGoOn ==
    ASSUME "duckdb" \notin Engines, IsFiniteSet(Requests), Cardinality(Requests) < 4
    PROVE  PathsSpec => []NobodyStuck
<1>1. PathsInit => EnoughConnections
  <2> SUFFICES ASSUME PathsInit PROVE EnoughConnections
    OBVIOUS
  <2>1. StreamsInv /\ TurnsInv /\ engine \in Engines
    BY StreamsBegin, RolesBegin DEF PathsInit, Streams!Init
  <2>2. Streams!Connections \in {4, 8}
    BY <2>1 DEF Streams!Connections
  <2>3. Holders \in SUBSET Requests
    BY DEF Holders
  <2>4. /\ Cardinality(Holders) \in Nat /\ Cardinality(Requests) \in Nat
        /\ Cardinality(Holders) <= Cardinality(Requests)
        /\ Cardinality(Holders) = Cardinality(Requests) => Holders = Requests
    BY <2>3, FS_Subset, FS_CardinalityType
  <2>5. OnePlayback = 1 => Holders # Requests
    <3> SUFFICES ASSUME OnePlayback = 1 PROVE Holders # Requests
      OBVIOUS
    <3>1. PICK r \in Requests : Streams!Serialized /\ req[r].asked.what = "playback"
      BY DEF OnePlayback
    <3>2. ~req[r].asked.live
      BY <2>1, <3>1, AskedPlayback DEF PathsInit
    <3> QED BY <3>1, <3>2 DEF Holders
  <2>6. OnePlayback \in {0, 1}
    BY DEF OnePlayback
  <2>7. Cardinality(Holders) + OnePlayback < Streams!Connections
    BY <2>2, <2>4, <2>5, <2>6
  <2> QED BY <2>7 DEF EnoughConnections
<1> QED BY <1>1, NobodyWaitsForEver, PTL DEF PathsSpec

(* The channels of a playback stay open as long as its query sends into    *)
(* them where the query is no job of the pipeline, and no other request    *)
(* ends the process (PlaybackReturns, SendOnClosed).                       *)
THEOREM ChannelsStayOpen ==
    PathsSpec /\ (~Streams!Serialized \/ \A r \in Requests : req[r].asked.what # "playback")
        => []Streams!NoSendOnClosed
<1> DEFINE Apart == ~Streams!Serialized \/ \A r \in Requests : req[r].asked.what # "playback"
           Inv == StreamsInv /\ TurnsInv /\ Apart
<1>1. PathsInit /\ Apart => Inv
  BY StreamsBegin, RolesBegin DEF PathsInit
<1>2. Inv /\ [PathsNext]_pathVars => Inv'
  <2> SUFFICES ASSUME Inv, [PathsNext]_pathVars PROVE Inv'
    OBVIOUS
  <2>1. StreamsInv' /\ TurnsInv' /\ AskedOnce
    BY StreamsKept, TurnsKept
  <2>2. Apart'
    BY <2>1 DEF AskedOnce, Streams!Serialized
  <2> QED BY <2>1, <2>2
<1>3. Inv => Streams!NoSendOnClosed
  BY DEF TurnsInv, Sound, Roles, Streams!NoSendOnClosed
<1> QED BY <1>1, <1>2, <1>3, PTL DEF PathsSpec
-----------------------------------------------------------------------------
(* --- the speeds of a track -------------------------------------------------- *)

(* The speeds of the points before any gap is filled, and the points on    *)
(* either side of k that have one.                                         *)
Measured == Speeds!Seeded([j \in 1..Speeds!N |-> Speeds!Pairwise(j, shape[j].speed)])
Lefts(k) == {j \in 1..(k - 1) : Measured[j] > 0}
Rights(k) == {j \in (k + 1)..Speeds!N : Measured[j] > 0}

(* What the neighbours of a gap imply, 0 for nothing usable. *)
Near(k) ==
    CASE Lefts(k) # {} /\ Rights(k) # {} ->
            IF Speeds!Apart(Speeds!Max(Lefts(k)), Speeds!Min(Rights(k)))
            THEN Speeds!SpeedBetween(Speeds!Max(Lefts(k)), Speeds!Min(Rights(k))) ELSE 0
      [] Lefts(k) # {} /\ Rights(k) = {} -> Measured[Speeds!Max(Lefts(k))]
      [] Lefts(k) = {} /\ Rights(k) # {} -> Measured[Speeds!Min(Rights(k))]
      [] OTHER -> 0
Filled(k) ==
    IF Measured[k] # 0 THEN Measured[k] ELSE IF Near(k) \in 1..MaxSpeed THEN Near(k) ELSE 0

(* What is left then gets the mean of the track. *)
Wanted(k) ==
    IF Filled(k) # 0 THEN Filled(k)
    ELSE IF Speeds!Apart(1, Speeds!N) /\ Speeds!Sane(Speeds!SpeedBetween(1, Speeds!N))
    THEN Speeds!SpeedBetween(1, Speeds!N) ELSE 0

(* The points before the cursor have what their neighbours imply, those    *)
(* from it on still what they had.  A cursor inside a run of zeros stands  *)
(* at its beginning.  A negative speed stops the cursor (what was borrowed *)
(* before it is not what the property says), so no point behind has one.   *)
GapsOk ==
    /\ i \in 1..(Speeds!N + 1) /\ speed \in [1..Speeds!N -> Int]
    /\ \A k \in i..Speeds!N : speed[k] = Measured[k]
    /\ \A k \in 1..(i - 1) : Measured[k] >= 0 /\ (Measured[k] # 0 => speed[k] = Measured[k])
    /\ \/ last = 0 /\ Lefts(i) = {}
       \/ last \in Lefts(i) /\ \A j \in Lefts(i) : j <= last
    /\ i > 1 /\ i <= Speeds!N /\ Measured[i] = 0 => Measured[i - 1] # 0
    /\ (\A k \in 1..Speeds!N : Measured[k] >= 0) => \A k \in 1..(i - 1) : speed[k] = Filled(k)

SpeedInv ==
    /\ shape \in Shapes /\ pass \in {"pairs", "gaps", "done"}
    /\ pass = "pairs" => i = 1 /\ last = 0 /\ speed = [k \in 1..Speeds!N |-> shape[k].speed]
    /\ pass = "gaps" => GapsOk
    /\ pass = "done" => \A k \in 1..Speeds!N : speed[k] = Wanted(k)

(* What the sort and the arithmetic give. *)
LEMMA ShapeTypes ==
    ASSUME shape \in Shapes
    PROVE  /\ Speeds!N \in Nat /\ MaxSpeed \in Nat /\ Unit \in Int
           /\ \A k \in 1..Speeds!N : shape[k] \in [date : Int, place : Int, speed : Int]
<1> DEFINE Point == [date : Int, place : Int, speed : Int]
<1>1. shape \in Seq(Point) /\ MaxSpeed \in Nat /\ Unit \in Int
  BY PathsAssumption DEF PathsAssumption, Speeds!Assumption
<1> HIDE DEF Point
<1>2. Len(shape) \in Nat /\ \A k \in 1..Len(shape) : shape[k] \in Point
  BY <1>1
<1> QED BY <1>1, <1>2 DEF Speeds!N, Point

LEMMA SpeedsAreWhole ==
    ASSUME shape \in Shapes, NEW j \in 1..Speeds!N, NEW k \in 1..Speeds!N, Speeds!Apart(j, k)
    PROVE  Speeds!SpeedBetween(j, k) \in Int
<1> DEFINE way == shape[k].place - shape[j].place
           span == shape[k].date - shape[j].date
           dist == Unit * (IF way < 0 THEN -way ELSE way)
<1>1. way \in Int /\ span \in Int /\ span > 0 /\ Unit \in Int
  BY ShapeTypes DEF Speeds!Apart
<1>2. dist \in Int
  <2>1. (IF way < 0 THEN -way ELSE way) \in Int
    BY <1>1
  <2> HIDE DEF way
  <2> QED BY <1>1, <2>1
<1> HIDE DEF dist, span
<1>3. dist \div span \in Int
  BY <1>1, <1>2
<1> QED BY <1>3 DEF Speeds!SpeedBetween, dist, span, way

LEMMA OwnTypes ==
    ASSUME shape \in Shapes
    PROVE  Measured \in [1..Speeds!N -> Int]
<1> DEFINE s == [j \in 1..Speeds!N |-> Speeds!Pairwise(j, shape[j].speed)]
<1>1. ASSUME NEW j \in 1..Speeds!N PROVE Speeds!Pairwise(j, shape[j].speed) \in Int
  <2>1. CASE j > 1 /\ Speeds!Apart(j - 1, j)
    <3>1. j - 1 \in 1..Speeds!N
      BY <2>1, ShapeTypes
    <3>2. Speeds!SpeedBetween(j - 1, j) \in Int
      BY <2>1, <3>1, SpeedsAreWhole
    <3> QED BY <2>1, <3>2 DEF Speeds!Pairwise
  <2>2. CASE ~(j > 1 /\ Speeds!Apart(j - 1, j))
    BY <2>2, ShapeTypes DEF Speeds!Pairwise
  <2> QED BY <2>1, <2>2
<1>2. s \in [1..Speeds!N -> Int]
  BY <1>1
<1> HIDE DEF s
<1>3. Speeds!Seeded(s) \in [1..Speeds!N -> Int]
  BY <1>2, ShapeTypes DEF Speeds!Seeded
<1> QED BY <1>3 DEF Measured, s

LEMMA Extremes ==
    ASSUME NEW S \in SUBSET Int, NEW m \in S
    PROVE  /\ (\A k \in S : k <= m) => Speeds!Max(S) = m
           /\ (\A k \in S : m <= k) => Speeds!Min(S) = m
<1>1. ASSUME \A k \in S : k <= m PROVE Speeds!Max(S) = m
  <2>1. \A x \in S : (\A y \in S : x >= y) => x = m
    BY <1>1
  <2>2. \A y \in S : m >= y
    BY <1>1
  <2> QED BY <2>1, <2>2 DEF Speeds!Max
<1>2. ASSUME \A k \in S : m <= k PROVE Speeds!Min(S) = m
  <2>1. \A x \in S : (\A y \in S : x =< y) => x = m
    BY <1>2
  <2>2. \A y \in S : m =< y
    BY <1>2
  <2> QED BY <2>1, <2>2 DEF Speeds!Min
<1> QED BY <1>1, <1>2

LEMMA ExpectedIs ==
    ASSUME shape \in Shapes, NEW k
    PROVE  Speeds!Expected([j \in 1..Speeds!N |-> shape[j].speed], k) = Wanted(k)
<1> DEFINE s == [j \in 1..Speeds!N |-> shape[j].speed]
<1>1. [j \in 1..Speeds!N |-> Speeds!Pairwise(j, s[j])]
        = [j \in 1..Speeds!N |-> Speeds!Pairwise(j, shape[j].speed)]
  OBVIOUS
<1>2. Speeds!Seeded([j \in 1..Speeds!N |-> Speeds!Pairwise(j, s[j])]) = Measured
  BY <1>1 DEF Measured
<1> DEFINE mean == Speeds!SpeedBetween(1, Speeds!N)
           whole == IF Speeds!Apart(1, Speeds!N) THEN mean ELSE 0
<1>3. Speeds!Expected(s, k) =
        IF Measured[k] # 0 THEN Measured[k]
        ELSE IF Near(k) \in 1..MaxSpeed THEN Near(k)
        ELSE IF Speeds!Sane(whole) THEN whole ELSE 0
  BY <1>2 DEF Speeds!Expected, Near, Lefts, Rights
<1>4. Speeds!Sane(0) /\ 0 \notin 1..MaxSpeed
  BY ShapeTypes DEF Speeds!Sane
<1> HIDE DEF s, mean
<1> QED BY <1>3, <1>4 DEF Filled, Wanted, s, mean

(* Of the values that the invariant speaks of, only the speeds, the cursor *)
(* and the last point with a speed change.                                 *)
LEMMA TrackStands ==
    ASSUME UNCHANGED shape
    PROVE  /\ Measured' = Measured /\ Speeds!N' = Speeds!N
           /\ \A k : Near(k)' = Near(k) /\ Filled(k)' = Filled(k) /\ Wanted(k)' = Wanted(k)
<1>1. Measured' = Measured /\ Speeds!N' = Speeds!N
  BY DEF Measured, Speeds!N, Speeds!Seeded, Speeds!Pairwise, Speeds!Apart, Speeds!SpeedBetween
<1>2. \A k : Lefts(k)' = Lefts(k) /\ Rights(k)' = Rights(k)
  BY <1>1 DEF Lefts, Rights
<1>3. \A k : Near(k)' = Near(k)
  BY <1>1, <1>2 DEF Near, Speeds!Apart, Speeds!SpeedBetween
<1> QED BY <1>1, <1>3 DEF Filled, Wanted, Speeds!Apart, Speeds!SpeedBetween, Speeds!Sane

(* A step over a point that has a speed of its own. *)
LEMMA SkipKeeps == ASSUME SpeedInv, Speeds!Skip PROVE SpeedInv'
<1> USE DEF SpeedInv, Speeds!Skip
<1>1. Measured' = Measured /\ Speeds!N' = Speeds!N /\ UNCHANGED <<shape, speed, pass>>
  BY TrackStands
<1>4. \A k : Near(k)' = Near(k) /\ Filled(k)' = Filled(k)
  BY TrackStands
<1>5. Measured \in [1..Speeds!N -> Int] /\ Speeds!N \in Nat
  BY OwnTypes, ShapeTypes
<1>6. GapsOk'
  <2> USE DEF GapsOk
  <2>1. i \in 1..Speeds!N /\ i' = i + 1 /\ last' = i /\ Measured[i] > 0 /\ speed[i] = Measured[i]
    BY <1>5
  <2>2. i' \in 1..(Speeds!N' + 1) /\ speed' \in [1..Speeds!N' -> Int]
    BY <1>1, <1>5, <2>1
  <2>3. \A k \in i'..Speeds!N' : speed'[k] = Measured'[k]
    BY <1>1, <1>5, <2>1
  <2>4. \A k \in 1..(i' - 1) : Measured'[k] >= 0 /\ (Measured'[k] # 0 => speed'[k] = Measured'[k])
    BY <1>1, <1>5, <2>1
  <2>5. i \in Lefts(i + 1) /\ \A j \in Lefts(i + 1) : j <= i
    BY <2>1 DEF Lefts
  <2>6. last' \in Lefts(i)' /\ \A j \in Lefts(i)' : j <= last'
    <3>1. Lefts(i)' = Lefts(i + 1)
      BY <1>1, <2>1 DEF Lefts
    <3> QED BY <2>1, <2>5, <3>1
  <2>7. Measured'[i' - 1] # 0
    BY <1>1, <2>1
  <2>8. (\A k \in 1..Speeds!N' : Measured'[k] >= 0) => \A k \in 1..(i' - 1) : speed'[k] = Filled(k)'
    <3> SUFFICES ASSUME \A k \in 1..Speeds!N : Measured[k] >= 0, NEW k \in 1..i
                 PROVE  speed[k] = Filled(k)
      BY <1>1, <1>4, <2>1
    <3>1. CASE k = i
      BY <2>1, <3>1 DEF Filled
    <3>2. CASE k # i
      BY <2>1, <3>2
    <3> QED BY <3>1, <3>2
  <2> QED BY <2>2, <2>3, <2>4, <2>6, <2>7, <2>8
<1> QED BY <1>1, <1>6 DEF SpeedInv

(* What a run of zeros gets is what the neighbours of each of its points   *)
(* imply: they are the same for all of them.                               *)
LEMMA GapIsNear ==
    ASSUME SpeedInv, GapsOk, NEW end \in (i + 1)..(Speeds!N + 1), i <= Speeds!N,
           \A k \in i..(end - 1) : Measured[k] = 0, end <= Speeds!N => Measured[end] > 0,
           NEW k \in i..(end - 1)
    PROVE  Near(k) = Speeds!GapFill(last, IF end <= Speeds!N THEN end ELSE 0)
<1>1. Measured \in [1..Speeds!N -> Int] /\ Speeds!N \in Nat
  BY OwnTypes, ShapeTypes DEF SpeedInv
<1>2. Lefts(k) = Lefts(i)
  BY <1>1 DEF Lefts, GapsOk
<1>3. IF end <= Speeds!N THEN Rights(k) # {} /\ Speeds!Min(Rights(k)) = end ELSE Rights(k) = {}
  <2>1. CASE end <= Speeds!N
    <3>1. end \in Rights(k) /\ Rights(k) \subseteq Int /\ \A j \in Rights(k) : end <= j
      BY <1>1, <2>1 DEF Rights, GapsOk
    <3>2. Speeds!Min(Rights(k)) = end
      BY <3>1, Extremes
    <3> QED BY <2>1, <3>1, <3>2
  <2>2. CASE ~(end <= Speeds!N)
    BY <1>1, <2>2 DEF Rights, GapsOk
  <2> QED BY <2>1, <2>2
<1>4. IF last # 0 THEN Lefts(k) # {} /\ Speeds!Max(Lefts(k)) = last /\ last \in Lefts(i)
      ELSE Lefts(k) = {}
  <2>1. CASE last = 0 /\ Lefts(i) = {}
    BY <1>2, <2>1
  <2>2. CASE last \in Lefts(i) /\ \A j \in Lefts(i) : j <= last
    <3>1. last # 0 /\ Lefts(i) \subseteq Int
      BY <2>2 DEF Lefts
    <3>2. Speeds!Max(Lefts(i)) = last
      BY <2>2, <3>1, Extremes
    <3> QED BY <1>2, <2>2, <3>1, <3>2
  <2> QED BY <2>1, <2>2 DEF GapsOk
<1>5. last # 0 => speed[last] = Measured[last]
  BY <1>1, <1>4 DEF GapsOk, Lefts
<1>6. end <= Speeds!N => end # 0 /\ speed[end] = Measured[end]
  BY <1>1 DEF GapsOk
<1>7. CASE end <= Speeds!N
  BY <1>3, <1>4, <1>5, <1>6, <1>7 DEF Near, Speeds!GapFill
<1>8. CASE ~(end <= Speeds!N)
  BY <1>3, <1>4, <1>5, <1>8 DEF Near, Speeds!GapFill
<1> QED BY <1>7, <1>8

(* The first point from the cursor on that has a speed, or the end. *)
LEMMA EndOfGap ==
    ASSUME SpeedInv, GapsOk, i <= Speeds!N
    PROVE  \E end \in i..(Speeds!N + 1) :
             /\ end = Speeds!Min({k \in i..Speeds!N : speed[k] # 0} \cup {Speeds!N + 1})
             /\ \A k \in i..(end - 1) : Measured[k] = 0
             /\ end <= Speeds!N => Measured[end] # 0
<1> DEFINE E == {k \in i..Speeds!N : speed[k] # 0} \cup {Speeds!N + 1}
           Back == {n \in 0..(Speeds!N + 1 - i) : Speeds!N + 1 - n \in E}
<1>1. Measured \in [1..Speeds!N -> Int] /\ Speeds!N \in Nat /\ i \in 1..Speeds!N
  BY OwnTypes, ShapeTypes DEF SpeedInv, GapsOk
<1>2. Back \subseteq Nat /\ 0 \in Back /\ IsFiniteSet(Back)
  <2>1. IsFiniteSet(0..(Speeds!N + 1 - i))
    BY <1>1, FS_Interval
  <2>2. Back \subseteq 0..(Speeds!N + 1 - i) /\ 0 \in Back
    BY <1>1
  <2>3. IsFiniteSet(Back)
    BY <2>1, <2>2, FS_Subset
  <2> QED BY <1>1, <2>2, <2>3
<1>3. PICK m \in Back : \A n \in Back : n <= m
  <2> HIDE DEF Back
  <2> QED BY <1>2, Greatest
<1> DEFINE end == Speeds!N + 1 - m
<1>4. end \in E /\ end \in i..(Speeds!N + 1)
  BY <1>1
<1>5. \A k \in E : end <= k
  <2> TAKE k \in E
  <2>1. k \in i..(Speeds!N + 1)
    BY <1>1
  <2>2. Speeds!N + 1 - (Speeds!N + 1 - k) = k
    BY <1>1, <2>1
  <2>3. Speeds!N + 1 - k \in Back
    BY <1>1, <2>1, <2>2
  <2>4. Speeds!N + 1 - k <= m /\ m \in Nat
    BY <1>2, <1>3, <2>3
  <2> QED BY <1>1, <2>1, <2>4
<1>6. E \subseteq Int
  BY <1>1
<1>7. end = Speeds!Min(E)
  <2> HIDE DEF E, end
  <2> QED BY <1>4, <1>5, <1>6, Extremes
<1>8. \A k \in i..(end - 1) : Measured[k] = 0
  <2> SUFFICES ASSUME NEW k \in i..(end - 1) PROVE Measured[k] = 0
    OBVIOUS
  <2>1. k \in i..Speeds!N /\ k < end
    BY <1>1, <1>4
  <2>2. k \notin E
    BY <1>1, <1>4, <1>5, <2>1
  <2> QED BY <2>1, <2>2 DEF GapsOk
<1>9. end <= Speeds!N => Measured[end] # 0
  <2>1. end <= Speeds!N => end \in i..Speeds!N /\ speed[end] # 0
    BY <1>1, <1>4
  <2> QED BY <2>1 DEF GapsOk
<1> QED BY <1>4, <1>7, <1>8, <1>9

LEMMA GapKeeps == ASSUME SpeedInv, Speeds!Gap PROVE SpeedInv'
<1>1. UNCHANGED <<shape, pass, last>> /\ i <= Speeds!N /\ ~(speed[i] > 0) /\ GapsOk /\ pass = "gaps"
  BY DEF SpeedInv, Speeds!Gap
<1>2. /\ Measured' = Measured /\ Speeds!N' = Speeds!N
      /\ \A k : Near(k)' = Near(k) /\ Filled(k)' = Filled(k)
  BY <1>1, TrackStands
<1>3. Measured \in [1..Speeds!N -> Int] /\ Speeds!N \in Nat /\ MaxSpeed \in Nat
  BY OwnTypes, ShapeTypes DEF SpeedInv
<1>4. PICK end \in i..(Speeds!N + 1) :
             /\ end = Speeds!Min({k \in i..Speeds!N : speed[k] # 0} \cup {Speeds!N + 1})
             /\ \A k \in i..(end - 1) : Measured[k] = 0
             /\ end <= Speeds!N => Measured[end] # 0
  BY <1>1, EndOfGap
<1> DEFINE right == IF end <= Speeds!N /\ speed[end] > 0 THEN end ELSE 0
           fill == Speeds!GapFill(last, right)
<1>5. /\ i' = end
      /\ speed' = IF fill > 0 /\ fill <= MaxSpeed
                  THEN [k \in 1..Speeds!N |-> IF k \in i..(end - 1) THEN fill ELSE speed[k]]
                  ELSE speed
  BY <1>4 DEF Speeds!Gap
<1>6. end <= Speeds!N => speed[end] = Measured[end]
  BY <1>1, <1>3, <1>4 DEF GapsOk
<1>7. fill \in Int
  <2>1. right # 0 => right \in 1..Speeds!N /\ right = end
    BY <1>1, <1>3 DEF GapsOk
  <2>2. last # 0 => last \in 1..Speeds!N
    BY <1>1, <1>3 DEF GapsOk, Lefts
  <2>3. \A j \in 1..Speeds!N : speed[j] \in Int
    BY <1>1 DEF GapsOk
  <2> HIDE DEF right
  <2>4. CASE last # 0 /\ right # 0
    BY <2>1, <2>2, <2>4, SpeedsAreWhole DEF Speeds!GapFill, SpeedInv
  <2>5. CASE last = 0 \/ right = 0
    BY <2>1, <2>2, <2>3, <2>5 DEF Speeds!GapFill
  <2> QED BY <2>4, <2>5
<1>8. GapsOk'
  <2> HIDE DEF fill
  <2>1. i \in 1..Speeds!N /\ end \in i..(Speeds!N + 1) /\ speed \in [1..Speeds!N -> Int]
    BY <1>1, <1>3 DEF GapsOk
  <2>2. i' \in 1..(Speeds!N' + 1) /\ speed' \in [1..Speeds!N' -> Int]
    <3>1. speed' \in [1..Speeds!N -> Int]
      BY <1>5, <1>7, <2>1
    <3> QED BY <1>2, <1>3, <1>5, <2>1, <3>1
  <2>3. \A k \in 1..Speeds!N : k \notin i..(end - 1) => speed'[k] = speed[k]
    BY <1>5
  <2>4. \A k \in i'..Speeds!N' : speed'[k] = Measured'[k]
    <3> SUFFICES ASSUME NEW k \in end..Speeds!N PROVE speed'[k] = Measured[k]
      BY <1>2, <1>5
    <3>1. k \in i..Speeds!N /\ k \notin i..(end - 1) /\ k \in 1..Speeds!N
      BY <2>1, <1>3
    <3> QED BY <1>1, <2>3, <3>1 DEF GapsOk
  <2>5. \A k \in 1..(i' - 1) : Measured'[k] >= 0 /\ (Measured'[k] # 0 => speed'[k] = Measured'[k])
    <3> SUFFICES ASSUME NEW k \in 1..(end - 1)
                 PROVE  Measured[k] >= 0 /\ (Measured[k] # 0 => speed'[k] = Measured[k])
      BY <1>2, <1>5
    <3>1. CASE k \in i..(end - 1)
      BY <1>4, <3>1
    <3>2. CASE k \notin i..(end - 1)
      <4>1. k \in 1..(i - 1) /\ k \in 1..Speeds!N
        BY <1>3, <2>1, <3>2
      <4> QED BY <1>1, <2>3, <3>2, <4>1 DEF GapsOk
    <3> QED BY <3>1, <3>2
  <2>6. \/ last' = 0 /\ Lefts(i)' = {}
        \/ last' \in Lefts(i)' /\ \A j \in Lefts(i)' : j <= last'
    <3>1. Lefts(end) = Lefts(i)
      <4>1. \A j : j \in 1..(end - 1) <=> j \in 1..(i - 1) \/ j \in i..(end - 1)
        BY <1>3, <2>1
      <4>2. \A j \in i..(end - 1) : ~(Measured[j] > 0)
        BY <1>4
      <4> QED BY <4>1, <4>2 DEF Lefts
    <3>2. Lefts(i)' = Lefts(end)
      BY <1>2, <1>5 DEF Lefts
    <3> QED BY <1>1, <3>1, <3>2 DEF GapsOk
  <2>7. i' > 1 /\ i' <= Speeds!N' /\ Measured'[i'] = 0 => Measured'[i' - 1] # 0
    BY <1>2, <1>4, <1>5
  <2>8. (\A k \in 1..Speeds!N' : Measured'[k] >= 0) => \A k \in 1..(i' - 1) : speed'[k] = Filled(k)'
    <3> SUFFICES ASSUME \A k \in 1..Speeds!N : Measured[k] >= 0, NEW k \in 1..(end - 1)
                 PROVE  speed'[k] = Filled(k)
      BY <1>2, <1>5
    <3>1. CASE k \in i..(end - 1)
      <4>1. /\ end \in (i + 1)..(Speeds!N + 1) /\ k \in 1..Speeds!N /\ k \in i..Speeds!N
            /\ end <= Speeds!N => Measured[end] > 0
        <5>1. end \in (i + 1)..(Speeds!N + 1) /\ k \in 1..Speeds!N /\ k \in i..Speeds!N
          BY <1>3, <2>1, <3>1
        <5>2. end <= Speeds!N => end \in 1..Speeds!N
          BY <1>3, <5>1, <2>1
        <5>3. end <= Speeds!N => Measured[end] \in Int /\ Measured[end] >= 0 /\ Measured[end] # 0
          BY <1>3, <1>4, <5>2
        <5> QED BY <5>1, <5>3
      <4>2. Near(k) = Speeds!GapFill(last, IF end <= Speeds!N THEN end ELSE 0)
        BY <1>1, <1>4, <3>1, <4>1, GapIsNear
      <4>3. right = IF end <= Speeds!N THEN end ELSE 0
        BY <1>6, <4>1
      <4>4. Near(k) = fill
        BY <4>2, <4>3 DEF fill
      <4>5. Measured[k] = 0 /\ speed[k] = 0
        BY <1>1, <1>4, <3>1, <4>1 DEF GapsOk
      <4>6. speed'[k] = IF fill \in 1..MaxSpeed THEN fill ELSE 0
        BY <1>3, <1>5, <1>7, <3>1, <4>1, <4>5
      <4> QED BY <4>4, <4>5, <4>6 DEF Filled
    <3>2. CASE k \notin i..(end - 1)
      <4>1. k \in 1..(i - 1) /\ k \in 1..Speeds!N
        BY <1>3, <2>1, <3>2
      <4> QED BY <1>1, <2>3, <3>2, <4>1 DEF GapsOk
    <3> QED BY <3>1, <3>2
  <2> QED BY <2>2, <2>4, <2>5, <2>6, <2>7, <2>8 DEF GapsOk
<1> QED BY <1>1, <1>2, <1>8 DEF SpeedInv

LEMMA PairsKeeps == ASSUME SpeedInv, Speeds!Pairs PROVE SpeedInv'
<1>1. UNCHANGED <<shape, i, last>> /\ i = 1 /\ last = 0 /\ pass' = "gaps" /\ shape \in Shapes
  BY DEF SpeedInv, Speeds!Pairs
<1>2. /\ Measured' = Measured /\ Speeds!N' = Speeds!N
      /\ \A k : Near(k)' = Near(k) /\ Filled(k)' = Filled(k)
  BY <1>1, TrackStands
<1>3. Measured \in [1..Speeds!N -> Int] /\ Speeds!N \in Nat
  BY <1>1, OwnTypes, ShapeTypes
<1>4. speed' = Measured
  <2>1. [k \in 1..Speeds!N |-> Speeds!Pairwise(k, speed[k])]
          = [k \in 1..Speeds!N |-> Speeds!Pairwise(k, shape[k].speed)]
    BY DEF SpeedInv, Speeds!Pairs
  <2> QED BY <2>1 DEF Measured, Speeds!Pairs
<1>5. Lefts(i)' = {}
  BY <1>1 DEF Lefts
<1>6. GapsOk'
  BY <1>1, <1>2, <1>3, <1>4, <1>5 DEF GapsOk
<1> QED BY <1>1, <1>6 DEF SpeedInv

LEMMA FallbackKeeps == ASSUME SpeedInv, Speeds!Fallback PROVE SpeedInv'
<1>1. UNCHANGED <<shape, i, last>> /\ GapsOk /\ i > Speeds!N /\ pass' = "done" /\ shape \in Shapes
  BY DEF SpeedInv, Speeds!Fallback
<1>2. Speeds!N' = Speeds!N /\ \A k : Wanted(k)' = Wanted(k)
  BY <1>1, TrackStands
<1>3. Measured \in [1..Speeds!N -> Int] /\ Speeds!N \in Nat /\ MaxSpeed \in Nat
  BY <1>1, OwnTypes, ShapeTypes
<1>4. \A k \in 1..Speeds!N : speed[k] = Filled(k)
  BY <1>1, <1>3 DEF GapsOk
<1>5. Speeds!Apart(1, Speeds!N) => Speeds!N >= 2 \/ Speeds!N = 0
  <2>1. CASE Speeds!N = 1
    BY <1>1, <2>1, ShapeTypes DEF Speeds!Apart
  <2> QED BY <1>3, <2>1
<1>6. \A k \in 1..Speeds!N : speed'[k] = Wanted(k)
  BY <1>1, <1>3, <1>4, <1>5 DEF GapsOk, Speeds!Fallback, Wanted
<1> QED BY <1>1, <1>2, <1>6 DEF SpeedInv

(* The property of the run: the loop in place gives every point what its   *)
(* nearest neighbours with a speed of their own imply                      *)
(* (calculateSpeedForMarkers), whatever speeds the file came with.         *)
THEOREM NeighboursGiveSpeeds == PathsSpec => []NeighboursDecide
<1>1. PathsInit => SpeedInv
  BY DEF PathsInit, Speeds!Init, SpeedInv
<1>2. SpeedInv /\ [PathsNext]_pathVars => SpeedInv'
  <2>1. ASSUME SpeedInv, UNCHANGED speedVars PROVE SpeedInv'
    <3>1. UNCHANGED <<shape, speed, pass, i, last>>
      BY <2>1 DEF speedVars
    <3>2. /\ Measured' = Measured /\ Speeds!N' = Speeds!N
          /\ \A k : Filled(k)' = Filled(k) /\ Wanted(k)' = Wanted(k)
      BY <3>1, TrackStands
    <3>3. Lefts(i)' = Lefts(i)
      BY <3>1, <3>2 DEF Lefts
    <3>4. GapsOk' = GapsOk
      BY <3>1, <3>2, <3>3 DEF GapsOk
    <3> QED BY <2>1, <3>1, <3>2, <3>4 DEF SpeedInv
  <2> QED BY <2>1, PairsKeeps, SkipKeeps, GapKeeps, FallbackKeeps
          DEF PathsNext, MoveRebuild, MoveUploads, MoveSpeeds, MoveStreams, MoveRealtime,
              MoveCatalogue, pathVars, Speeds!Next
<1>3. SpeedInv => NeighboursDecide
  BY ExpectedIs DEF SpeedInv, NeighboursDecide, Speeds!NeighboursDecide
<1> QED BY <1>1, <1>2, <1>3, PTL DEF PathsSpec
-----------------------------------------------------------------------------
(* --- listings and archives --------------------------------------------------- *)

Listings == {"all", "year", "archive"}

Grown(s) == \A j, k \in 1..Len(s) : j < k => s[j] < s[k]
TracksGrow == \A j, k \in 1..Len(listed) : j < k => listed[j].track < listed[k].track
NumbersGrow == \A j, k \in 1..Len(listed) : j < k => listed[j].index < listed[k].index
InListing == {listed[k].track : k \in 1..Len(listed)}
OnPage == {page[k] : k \in 1..Len(page)}

(* What has been read of the tables: the page comes after the summaries,   *)
(* and the tables only grow.                                               *)
ReadOk ==
    /\ listStored \subseteq Listable /\ listRegistry \subseteq Listable
    /\ page \in Seq(Nat \ {0}) /\ listed \in Seq([track : Nat \ {0}, index : Int])
    /\ at \in {"querying", "numbering"} => reader \in Listings
    /\ at \in {"fetching", "describing"} => reader = "track" /\ page # <<>>
    /\ reader \in Listings => since.stored \subseteq listStored
    /\ at = "numbering" =>
         /\ page # <<>> /\ Grown(page) /\ OnPage \subseteq listStored
         /\ \A k \in 1..Len(page) : page[k] > Catalogue!After
    /\ TracksGrow
    /\ reader \notin Listings => Len(listed) <= 1

(* Over a complete registry, which stays complete, a page is numbered      *)
(* beyond the one before, whatever was registered in between.              *)
NumbersOk ==
    reader \in Listings /\ since.stored \subseteq since.registry =>
        /\ listStored \subseteq listRegistry
        /\ NumbersGrow
        /\ listed # <<>> => listed[Len(listed)].index <= Catalogue!UpTo(Catalogue!After)

(* What an archive does not have yet is still to come. *)
ArchiveOk ==
    reader = "archive" =>
        /\ at = "querying" => \A t \in since.stored : t <= Catalogue!After => t \in InListing
        /\ at = "numbering" =>
             /\ \A t \in since.stored : t <= page[Len(page)] => t \in InListing \cup OnPage
             /\ Len(page) # PageSize => since.stored \subseteq InListing \cup OnPage
        /\ at = "ended" => since.stored \subseteq InListing

ListingInv == ReadOk /\ NumbersOk /\ ArchiveOk

(* The place of a track in a finite set. *)
LEMMA Places ==
    ASSUME NEW S \in SUBSET Nat, IsFiniteSet(S), NEW t \in Nat
    PROVE  /\ Catalogue!PlaceIn(S, t) \in Nat /\ Catalogue!PlaceIn(S, t) <= Cardinality(S)
           /\ IsFiniteSet({u \in S : u <= t})
           /\ Catalogue!PlaceIn(S, t) = Cardinality({u \in S : u <= t})
<1> DEFINE upto == {u \in S : u <= t}
<1>1. IsFiniteSet(upto) /\ Cardinality(upto) \in Nat /\ Cardinality(upto) <= Cardinality(S)
  <2>1. upto \subseteq S
    OBVIOUS
  <2> QED BY <2>1, FS_Subset, FS_CardinalityType
<1>2. Catalogue!PlaceIn(S, t) = Cardinality(upto)
  BY DEF Catalogue!PlaceIn, Catalogue!Cardinality, Cardinality
<1> QED BY <1>1, <1>2

(* A track of the set is a place further than whatever is before it. *)
LEMMA PlacesGrow ==
    ASSUME NEW S \in SUBSET Nat, IsFiniteSet(S), NEW t \in S, NEW u \in Nat, u < t
    PROVE  Catalogue!PlaceIn(S, u) + 1 <= Catalogue!PlaceIn(S, t)
<1> DEFINE low == {v \in S : v <= u}
           high == {v \in S : v <= t}
<1>1. IsFiniteSet(low) /\ IsFiniteSet(high)
  BY Places
<1>5. low \cup {t} \subseteq high /\ t \notin low
  <2>1. \A v \in S : v <= u => v <= t
    OBVIOUS
  <2>2. t <= t /\ ~(t <= u)
    OBVIOUS
  <2> QED BY <2>1, <2>2
<1>2. Cardinality(low \cup {t}) = Cardinality(low) + 1 /\ IsFiniteSet(low \cup {t})
  BY <1>1, <1>5, FS_AddElement
<1>3. Cardinality(low \cup {t}) <= Cardinality(high)
  BY <1>1, <1>5, FS_Subset
<1>4. Catalogue!PlaceIn(S, u) = Cardinality(low) /\ Catalogue!PlaceIn(S, t) = Cardinality(high)
  BY Places
<1> QED BY <1>1, <1>2, <1>3, <1>4

LEMMA PlacesInMore ==
    ASSUME NEW T \in SUBSET Nat, IsFiniteSet(T), NEW S \in SUBSET T, NEW t \in Nat
    PROVE  Catalogue!PlaceIn(S, t) <= Catalogue!PlaceIn(T, t)
<1> DEFINE few == {v \in S : v <= t}
           more == {v \in T : v <= t}
<1>1. IsFiniteSet(S) /\ S \subseteq Nat
  BY FS_Subset
<1>2. IsFiniteSet(more) /\ few \subseteq more
  BY Places
<1>3. Cardinality(few) <= Cardinality(more)
  BY <1>2, FS_Subset
<1>4. Catalogue!PlaceIn(S, t) = Cardinality(few) /\ Catalogue!PlaceIn(T, t) = Cardinality(more)
  BY <1>1, Places
<1> QED BY <1>3, <1>4

(* Each place up to their number is the place of one of them: the first    *)
(* track whose place is not smaller cannot have a greater one, because the *)
(* track before it would be such a track as well.                          *)
LEMMA PlacesTaken ==
    ASSUME NEW S \in SUBSET Nat, IsFiniteSet(S), NEW n \in 1..Cardinality(S)
    PROVE  \E t \in S : Catalogue!PlaceIn(S, t) = n
<1> DEFINE place(t) == Catalogue!PlaceIn(S, t)
<1>0. \A t \in S : /\ place(t) \in Nat /\ IsFiniteSet({u \in S : u <= t})
                   /\ place(t) = Cardinality({u \in S : u <= t})
  BY Places
<1> HIDE DEF place
<1>1. Cardinality(S) \in Nat /\ S # {} /\ n \in Nat /\ n >= 1
  BY FS_CardinalityType, FS_EmptySet
<1>2. PICK top \in S : \A t \in S : t <= top
  BY <1>1, Greatest
<1>3. place(top) = Cardinality(S)
  <2>1. {u \in S : u <= top} = S
    BY <1>2
  <2> QED BY <1>0, <2>1
<1>5. \E t \in S : place(t) >= n /\ \A u \in S : place(u) >= n => t <= u
  <2> DEFINE Back == {k \in 0..top : \E t \in S : place(t) >= n /\ t + k = top}
  <2>1. Back \subseteq Nat /\ 0 \in Back /\ IsFiniteSet(Back)
    <3>1. IsFiniteSet(0..top)
      BY FS_Interval
    <3>2. Back \subseteq 0..top /\ Back \subseteq Nat
      OBVIOUS
    <3>3. 0 \in Back
      BY <1>1, <1>2, <1>3
    <3> QED BY <3>1, <3>2, <3>3, FS_Subset
  <2>2. PICK m \in Back : \A k \in Back : k <= m
    <3> HIDE DEF Back
    <3> QED BY <2>1, Greatest
  <2>3. PICK t \in S : place(t) >= n /\ t + m = top
    BY <2>2
  <2>4. ASSUME NEW u \in S, place(u) >= n PROVE t <= u
    <3>1. u <= top /\ u \in Nat /\ top \in Nat
      BY <1>2
    <3>2. top - u \in Back
      BY <2>4, <3>1
    <3>3. top - u <= m /\ m \in Nat
      BY <2>1, <2>2, <3>2
    <3> QED BY <2>3, <3>1, <3>3
  <2> QED BY <2>3, <2>4
<1>6. PICK t \in S : place(t) >= n /\ \A u \in S : place(u) >= n => t <= u
  BY <1>5
<1>7. ASSUME place(t) > n PROVE FALSE
  <2> DEFINE upto == {u \in S : u <= t}
             before == upto \ {t}
  <2>1. IsFiniteSet(before) /\ Cardinality(before) = place(t) - 1
    <3>1. t \in upto /\ IsFiniteSet(upto) /\ place(t) = Cardinality(upto)
      BY <1>0
    <3> HIDE DEF upto
    <3> QED BY <1>0, <3>1, FS_RemoveElement
  <2>2. before # {} /\ before \subseteq Nat
    <3>1. Cardinality(before) # 0
      BY <1>0, <1>1, <1>7, <2>1
    <3> QED BY <3>1, FS_EmptySet
  <2>3. PICK p \in before : \A u \in before : u <= p
    <3> HIDE DEF before
    <3> QED BY <2>1, <2>2, Greatest
  <2>4. p \in S /\ p <= t /\ p # t
    OBVIOUS
  <2>5. {u \in S : u <= p} = before
    <3>1. ASSUME NEW u \in S, u <= p PROVE u \in before
      BY <2>4, <3>1
    <3> QED BY <2>3, <3>1
  <2>6. place(p) = place(t) - 1
    BY <1>0, <2>1, <2>4, <2>5
  <2>7. place(p) >= n
    <3>1. place(p) \in Nat /\ place(t) \in Nat
      BY <1>0, <2>4
    <3> QED BY <1>1, <1>7, <2>6, <3>1
  <2> QED BY <1>6, <2>4, <2>7
<1>8. place(t) \in Nat
  BY <1>0
<1>9. place(t) = n
  BY <1>1, <1>6, <1>7, <1>8
<1> QED BY <1>9 DEF place

(* What is at the first n places: these tracks in their order, and no      *)
(* other one before the last of them.                                      *)
LEMMA RowsOf ==
    ASSUME NEW S \in SUBSET Nat, IsFiniteSet(S), NEW n \in 0..Cardinality(S),
           NEW s, s = [k \in 1..n |-> Catalogue!RowAt(S, k)]
    PROVE  /\ s \in Seq(S) /\ Len(s) = n /\ Grown(s)
           /\ n = Cardinality(S) => S = {s[k] : k \in 1..n}
           /\ n > 0 => \A t \in S : t <= s[n] => t \in {s[k] : k \in 1..n}
<1> DEFINE place(t) == Catalogue!PlaceIn(S, t)
<1>1. \A t \in S : place(t) \in Nat /\ place(t) <= Cardinality(S)
  BY Places
<1>2. \A t, u \in S : u < t => place(u) < place(t)
  BY <1>1, PlacesGrow
<1>11. \A t \in S : t \in Int
  OBVIOUS
<1>3. \A t \in S : place(t) >= 1
  <2> SUFFICES ASSUME NEW t \in S PROVE place(t) >= 1
    OBVIOUS
  <2>1. t \in {u \in S : u <= t}
    OBVIOUS
  <2>2. Cardinality({u \in S : u <= t}) # 0
    BY <2>1, Places, FS_EmptySet
  <2>3. place(t) # 0
    BY <2>2, Places
  <2> QED BY <1>1, <2>3
<1>4. Cardinality(S) \in Nat /\ n \in Nat /\ n <= Cardinality(S)
  BY FS_CardinalityType
<1>5. \A k \in 1..n : s[k] \in S /\ place(s[k]) = k
  <2> SUFFICES ASSUME NEW k \in 1..n PROVE s[k] \in S /\ place(s[k]) = k
    OBVIOUS
  <2>1. \E t \in S : place(t) = k
    BY <1>4, PlacesTaken
  <2> QED BY <2>1 DEF Catalogue!RowAt
<1> HIDE DEF place
<1>6. s \in Seq(S) /\ Len(s) = n
  BY <1>4, <1>5
<1>7. \A j, k \in 1..n : j < k => s[j] < s[k]
  <2> SUFFICES ASSUME NEW j \in 1..n, NEW k \in 1..n, j < k, ~(s[j] < s[k]) PROVE FALSE
    OBVIOUS
  <2>1. s[j] \in S /\ s[k] \in S /\ place(s[j]) = j /\ place(s[k]) = k
    BY <1>5
  <2> DEFINE t == s[j]
             u == s[k]
  <2>2. t \in Int /\ u \in Int /\ place(t) = j /\ place(u) = k /\ ~(t < u)
    BY <1>11, <2>1
  <2>3. u < t => place(u) < place(t)
    BY <1>2, <2>1
  <2>4. j \in Int /\ k \in Int
    BY <1>4
  <2> HIDE DEF t, u
  <2> QED BY <2>2, <2>3, <2>4
<1>8. ASSUME NEW t \in S, place(t) <= n PROVE t \in {s[k] : k \in 1..n}
  <2>1. place(t) \in 1..n
    BY <1>1, <1>3, <1>4, <1>8
  <2>2. s[place(t)] \in S /\ place(s[place(t)]) = place(t)
    BY <1>5, <2>1
  <2>3. s[place(t)] = t
    <3> DEFINE u == s[place(t)]
    <3>1. u \in Int /\ t \in Int /\ place(u) = place(t) /\ place(t) \in Nat
      BY <1>1, <1>11, <2>2
    <3>2. (u < t => place(u) < place(t)) /\ (t < u => place(t) < place(u))
      BY <1>2, <2>2
    <3> HIDE DEF u
    <3>3. u = t
      BY <3>1, <3>2
    <3> QED BY <3>3 DEF u
  <2> QED BY <2>1, <2>3
<1>9. n = Cardinality(S) => S = {s[k] : k \in 1..n}
  BY <1>1, <1>5, <1>8
<1>10. ASSUME n > 0, NEW t \in S, t <= s[n] PROVE t \in {s[k] : k \in 1..n}
  <2>1. s[n] \in S /\ place(s[n]) = n
    BY <1>4, <1>5, <1>10
  <2>2. place(t) <= n
    <3>1. t \in Int /\ s[n] \in Int
      BY <1>11, <2>1
    <3>2. t = s[n] \/ t < s[n]
      BY <1>10, <3>1
    <3>3. t = s[n] \/ place(t) < place(s[n])
      BY <1>2, <2>1, <3>2
    <3> QED BY <1>1, <1>4, <2>1, <3>3
  <2> QED BY <1>8, <2>2
<1> QED BY <1>6, <1>7, <1>9, <1>10 DEF Grown

LEMMA FewTracks ==
    ASSUME NEW S \in SUBSET Listable
    PROVE  S \subseteq Nat \ {0} /\ IsFiniteSet(S) /\ PageSize \in Nat \ {0}
<1>1. Listable \subseteq Nat \ {0} /\ PageSize \in Nat \ {0} /\ IsFiniteSet(Listable)
  BY PathsAssumption DEF PathsAssumption, Catalogue!Assumption, Catalogue!IsFiniteSet, IsFiniteSet
<1> QED BY <1>1, FS_Subset

LEMMA TableTypes ==
    ASSUME ReadOk
    PROVE  /\ listStored \subseteq Nat \ {0} /\ IsFiniteSet(listStored)
           /\ listRegistry \subseteq Nat \ {0} /\ IsFiniteSet(listRegistry)
           /\ Catalogue!After \in Nat /\ PageSize \in Nat \ {0}
           /\ \A k \in 1..Len(listed) :
                listed[k].track \in Nat \ {0} /\ listed[k].index \in Int
           /\ Len(listed) \in Nat /\ (listed # <<>> => Len(listed) \in 1..Len(listed))
           /\ listed # <<>> => Catalogue!After = listed[Len(listed)].track
<1> DEFINE Summary == [track : Nat \ {0}, index : Int]
<1>1. /\ listed \in Seq(Summary)
      /\ listStored \subseteq Listable /\ listRegistry \subseteq Listable
  BY DEF ReadOk
<1> HIDE DEF Summary
<1>2. /\ \A k \in 1..Len(listed) : listed[k] \in Summary
      /\ Len(listed) \in Nat /\ (listed # <<>> => Len(listed) \in 1..Len(listed))
  BY <1>1
<1>3. \A k \in 1..Len(listed) : listed[k].track \in Nat \ {0} /\ listed[k].index \in Int
  BY <1>2 DEF Summary
<1>4. Catalogue!After \in Nat /\ (listed # <<>> => Catalogue!After = listed[Len(listed)].track)
  BY <1>2, <1>3 DEF Catalogue!After, Catalogue!Last
<1> QED BY <1>1, <1>2, <1>3, <1>4, FewTracks

(* The page that streamTrackSummaries reads. *)
LEMMA PageIs ==
    ASSUME ReadOk
    PROVE  LET s == Catalogue!Selected
               read == {s[k] : k \in 1..Len(s)}
           IN  /\ s \in Seq(Nat \ {0}) /\ Grown(s) /\ read \subseteq listStored
               /\ \A k \in 1..Len(s) : s[k] > Catalogue!After
               /\ reader = "archive" =>
                    /\ \A t \in listStored :
                         t > Catalogue!After =>
                           \/ t \in read
                           \/ s # <<>> /\ ~(t <= s[Len(s)]) /\ Len(s) = PageSize
<1> DEFINE due == {t \in listStored : t > Catalogue!After /\ (reader = "year" => t \in Dated)}
           limit == IF reader = "archive" /\ PageSize < Cardinality(due) THEN PageSize
                    ELSE Cardinality(due)
           s == [k \in 1..limit |-> Catalogue!RowAt(due, k)]
<1>1. due \in SUBSET Nat /\ IsFiniteSet(due) /\ due \subseteq listStored
  <2>1. due \subseteq listStored
    OBVIOUS
  <2> QED BY <2>1, TableTypes, FS_Subset
<1>2. limit \in 0..Cardinality(due)
  <2>1. Cardinality(due) \in Nat
    BY <1>1, FS_CardinalityType
  <2> QED BY <2>1, TableTypes
<1>3. Catalogue!Selected = s
  BY DEF Catalogue!Selected, Catalogue!Cardinality, Cardinality
<1>4. \A t \in due : t > Catalogue!After
  OBVIOUS
<1>5. reader = "archive" => due = {t \in listStored : t > Catalogue!After}
  OBVIOUS
<1>6. reader = "archive" => limit = Cardinality(due) \/ limit = PageSize
  OBVIOUS
<1> HIDE DEF due, limit
<1>7. /\ s \in Seq(due) /\ Len(s) = limit /\ Grown(s)
      /\ limit = Cardinality(due) => due = {s[k] : k \in 1..limit}
      /\ limit > 0 => \A t \in due : t <= s[limit] => t \in {s[k] : k \in 1..limit}
  BY <1>1, <1>2, RowsOf
<1> HIDE DEF s
<1>8. \A k \in 1..Len(s) : s[k] \in due
  BY <1>7
<1>9. s \in Seq(Nat \ {0}) /\ Grown(s) /\ {s[k] : k \in 1..Len(s)} \subseteq listStored
      /\ \A k \in 1..Len(s) : s[k] > Catalogue!After
  <2>1. listStored \subseteq Nat \ {0}
    BY TableTypes
  <2>2. due \subseteq Nat \ {0} /\ Grown(s) /\ s \in Seq(due)
    BY <1>1, <1>7, <2>1
  <2>3. s \in Seq(Nat \ {0})
    <3>1. limit \in Nat /\ \A k \in 1..limit : s[k] \in Nat \ {0}
      <4>1. limit \in Nat
        BY <1>1, <1>2, FS_CardinalityType
      <4> QED BY <1>7, <1>8, <2>2, <4>1
    <3> QED BY <3>1 DEF s
  <2>4. {s[k] : k \in 1..Len(s)} \subseteq listStored
    BY <1>1, <1>8
  <2>5. \A k \in 1..Len(s) : s[k] > Catalogue!After
    BY <1>4, <1>8
  <2> QED BY <2>2, <2>3, <2>4, <2>5
<1>10. ASSUME reader = "archive", NEW t \in listStored, t > Catalogue!After,
              t \notin {s[k] : k \in 1..Len(s)}
       PROVE  s # <<>> /\ ~(t <= s[Len(s)]) /\ Len(s) = PageSize
  <2>1. t \in due /\ limit = PageSize
    BY <1>5, <1>6, <1>7, <1>10
  <2>2. limit > 0
    BY <2>1, TableTypes
  <2> QED BY <1>7, <1>10, <2>1, <2>2
<1> QED BY <1>3, <1>9, <1>10

(* Imports and the backfill only add to the tables, whatever is read.      *)
LEMMA TablesGrow ==
    ASSUME ListingInv, UNCHANGED Catalogue!readerVars,
           listStored \subseteq listStored', listStored' \subseteq Listable,
           listRegistry \subseteq listRegistry', listRegistry' \subseteq Listable,
           listStored \subseteq listRegistry => listStored' \subseteq listRegistry'
    PROVE  ListingInv'
<1>1. UNCHANGED <<reader, at, page, listed, since>>
  BY DEF Catalogue!readerVars
<1>2. ReadOk' /\ Catalogue!After' = Catalogue!After
  BY <1>1 DEF ListingInv, ReadOk, TracksGrow, Grown, OnPage, Catalogue!After, Catalogue!Last
<1>3. NumbersOk'
  <2>1. PICK a \in Nat : a = Catalogue!After
    BY TableTypes DEF ListingInv
  <2>2. /\ Catalogue!UpTo(Catalogue!After) = Catalogue!PlaceIn(listRegistry, a)
        /\ Catalogue!UpTo(Catalogue!After)' = Catalogue!PlaceIn(listRegistry', a)
    BY <1>2, <2>1 DEF Catalogue!UpTo
  <2>3. /\ Catalogue!UpTo(Catalogue!After) <= Catalogue!UpTo(Catalogue!After)'
        /\ Catalogue!UpTo(Catalogue!After) \in Nat /\ Catalogue!UpTo(Catalogue!After)' \in Nat
    <3>1. /\ IsFiniteSet(listRegistry) /\ listRegistry \in SUBSET Nat
          /\ IsFiniteSet(listRegistry') /\ listRegistry' \in SUBSET Nat
      BY FewTracks DEF ListingInv, ReadOk
    <3>2. Catalogue!PlaceIn(listRegistry, a) <= Catalogue!PlaceIn(listRegistry', a)
      BY <3>1, PlacesInMore
    <3> QED BY <2>2, <3>1, <3>2, Places
  <2>4. NumbersGrow' = NumbersGrow
    BY <1>1 DEF NumbersGrow
  <2>5. listed # <<>> => listed[Len(listed)].index \in Int
    BY TableTypes DEF ListingInv
  <2> QED BY <1>1, <2>3, <2>4, <2>5 DEF ListingInv, NumbersOk
<1>4. ArchiveOk'
  BY <1>1, <1>2 DEF ListingInv, ArchiveOk, OnPage, InListing
<1> QED BY <1>2, <1>3, <1>4 DEF ListingInv

(* The numbers of a page are not beyond the places of its tracks.          *)
LEMMA NumbersFit ==
    ASSUME ListingInv, at = "numbering", listStored \subseteq listRegistry
    PROVE  /\ Catalogue!Base \in Int
           /\ listed # <<>> => Catalogue!Base = Catalogue!UpTo(Catalogue!After)
           /\ \A k \in 1..Len(page) :
                /\ Catalogue!UpTo(page[k]) \in Nat
                /\ Catalogue!Base + k <= Catalogue!UpTo(page[k])
<1> DEFINE upto(t) == Catalogue!UpTo(t)
           b == Catalogue!Base
           n == Len(page)
<1>1. /\ n \in Nat /\ n > 0 /\ \A k \in 1..n : page[k] \in listRegistry /\ page[k] \in Nat \ {0}
      /\ \A j, k \in 1..n : j < k => page[j] < page[k]
      /\ \A k \in 1..n : Catalogue!After < page[k]
  <2>1. page \in Seq(Nat \ {0}) /\ page # <<>>
    BY DEF ListingInv, ReadOk
  <2>2. n \in Nat /\ n > 0 /\ \A k \in 1..n : page[k] \in Nat \ {0}
    BY <2>1
  <2>3. Catalogue!After \in Nat
    BY TableTypes DEF ListingInv
  <2> QED BY <2>2, <2>3 DEF ListingInv, ReadOk, Grown, OnPage
<1>2. listRegistry \in SUBSET Nat /\ IsFiniteSet(listRegistry) /\ Catalogue!After \in Nat
  BY TableTypes DEF ListingInv
<1>3. \A t \in Nat : upto(t) \in Nat
  BY <1>2, Places DEF Catalogue!UpTo
<1>4. \A u \in Nat, t \in listRegistry : u < t => upto(u) + 1 <= upto(t)
  BY <1>2, PlacesGrow DEF Catalogue!UpTo
<1> HIDE DEF upto
<1>5. b \in Nat /\ b + 1 <= upto(page[1]) /\ (listed # <<>> => b = upto(Catalogue!After))
  <2>1. page[1] \in listRegistry /\ page[1] \in Nat /\ 0 < page[1] /\ Catalogue!After < page[1]
    BY <1>1
  <2>2. upto(page[1]) \in Nat /\ upto(0) \in Nat /\ upto(Catalogue!After) \in Nat
    BY <1>2, <1>3, <2>1
  <2>3. upto(0) + 1 <= upto(page[1]) /\ upto(Catalogue!After) + 1 <= upto(page[1])
    BY <1>2, <1>4, <2>1
  <2>4. CASE listed # <<>>
    <3>1. b = upto(Catalogue!After)
      BY <2>4 DEF Catalogue!Base, upto
    <3> QED BY <2>2, <2>3, <3>1
  <2>5. CASE listed = <<>>
    <3> DEFINE m == upto(page[1]) - 1
    <3>1. b = Catalogue!Max({m, 0})
      <4>1. Head(page) = page[1]
        BY DEF ListingInv, ReadOk
      <4> QED BY <2>5, <4>1 DEF Catalogue!Base, upto
    <3>2. m \in Nat
      BY <2>2, <2>3
    <3> HIDE DEF m
    <3>3. Catalogue!Max({m, 0}) = m
      <4>1. \A x \in {m, 0} : (\A y \in {m, 0} : x >= y) => x = m
        BY <3>2
      <4>2. \A y \in {m, 0} : m >= y
        BY <3>2
      <4> QED BY <4>1, <4>2 DEF Catalogue!Max
    <3>4. b = upto(page[1]) - 1
      BY <3>1, <3>3 DEF m
    <3> QED BY <2>2, <2>3, <2>5, <3>4
  <2> QED BY <2>4, <2>5
<1> HIDE DEF b, n
<1> DEFINE Good == {k \in 1..n : \A j \in 1..k : b + j <= upto(page[j])}
<1>6. Good \subseteq Nat /\ 1 \in Good /\ IsFiniteSet(Good)
  <2>1. IsFiniteSet(1..n)
    BY <1>1, FS_Interval
  <2>2. Good \subseteq 1..n /\ Good \subseteq Nat
    OBVIOUS
  <2>3. 1 \in Good
    <3>1. \A j \in 1..1 : j = 1
      OBVIOUS
    <3> QED BY <1>1, <1>5, <3>1
  <2> QED BY <2>1, <2>2, <2>3, FS_Subset
<1>7. PICK m \in Good : \A k \in Good : k <= m
  <2> HIDE DEF Good
  <2> QED BY <1>6, Greatest
<1>8. m = n
  <2> SUFFICES ASSUME m < n PROVE FALSE
    BY <1>1
  <2>1. m \in 1..n /\ m + 1 \in 1..n /\ m \in Nat
    BY <1>1
  <2>2. page[m] \in Nat /\ page[m + 1] \in listRegistry /\ page[m] < page[m + 1] /\ page[m + 1] \in Nat
    BY <1>1, <2>1
  <2>3. upto(page[m]) + 1 <= upto(page[m + 1])
    BY <1>4, <2>2
  <2>4. upto(page[m]) \in Nat /\ upto(page[m + 1]) \in Nat
    BY <1>3, <2>2
  <2>5. b + m <= upto(page[m])
    BY <2>1
  <2>6. b + (m + 1) <= upto(page[m + 1])
    BY <1>5, <2>1, <2>3, <2>4, <2>5
  <2>7. \A j \in 1..(m + 1) : j \in 1..m \/ j = m + 1
    BY <2>1
  <2>8. m + 1 \in Good
    BY <2>1, <2>6, <2>7
  <2> QED BY <1>7, <2>1, <2>8
<1>9. \A k \in 1..n : upto(page[k]) \in Nat /\ b + k <= upto(page[k])
  BY <1>1, <1>3, <1>8
<1> QED BY <1>5, <1>9 DEF upto, b, n

LEMMA BaseIsWhole == ASSUME ReadOk, at = "numbering" PROVE Catalogue!Base \in Int
<1>1. Head(page) \in Nat /\ Catalogue!After \in Nat
  BY TableTypes DEF ReadOk
<1>2. \A t \in Nat : Catalogue!UpTo(t) \in Nat
  BY TableTypes, Places DEF Catalogue!UpTo
<1> DEFINE m == Catalogue!UpTo(Head(page)) - 1
<1>3. m \in Int
  BY <1>1, <1>2
<1> HIDE DEF m
<1>4. Catalogue!Max({m, 0}) \in {m, 0}
  <2>1. \E x \in {m, 0} : \A y \in {m, 0} : x >= y
    BY <1>3
  <2> QED BY <2>1 DEF Catalogue!Max
<1>5. Catalogue!Base = IF listed = <<>> THEN Catalogue!Max({m, 0}) ELSE Catalogue!UpTo(Catalogue!After)
  BY DEF Catalogue!Base, m
<1> QED BY <1>1, <1>2, <1>3, <1>4, <1>5

(* A page is added to the summaries. *)
LEMMA NumberKeeps == ASSUME ListingInv, Catalogue!Number PROVE ListingInv'
<1> DEFINE n == Len(listed)
           p == Len(page)
           b == Catalogue!Base
           more == Catalogue!Numbered
<1>1. /\ at = "numbering" /\ listed' = listed \o more
      /\ at' = IF reader = "archive" /\ p = PageSize THEN "querying" ELSE "ended"
      /\ UNCHANGED <<page, listStored, listRegistry, reader, since>>
  BY DEF Catalogue!Number, Catalogue!Reader, Catalogue!More, Catalogue!tables
<1>2. /\ page \in Seq(Nat \ {0}) /\ page # <<>> /\ reader \in Listings
      /\ listed \in Seq([track : Nat \ {0}, index : Int])
  BY <1>1 DEF ListingInv, ReadOk
<1>3. /\ p \in Nat /\ p > 0 /\ DOMAIN page = 1..p /\ n \in Nat
      /\ \A k \in 1..p : page[k] \in Nat \ {0}
  BY <1>2
<1>4. more = [k \in 1..p |-> [track |-> page[k], index |-> b + k]]
  BY <1>3 DEF Catalogue!Numbered
<1>5. b \in Int
  BY <1>1, BaseIsWhole DEF ListingInv
<1> HIDE DEF b, more
<1>6. /\ listed' \in Seq([track : Nat \ {0}, index : Int]) /\ Len(listed') = n + p
      /\ \A k \in 1..n : listed'[k] = listed[k]
      /\ \A k \in 1..p : listed'[n + k] = [track |-> page[k], index |-> b + k]
  <2> DEFINE Summary == [track : Nat \ {0}, index : Int]
  <2>1. \A k \in 1..p : [track |-> page[k], index |-> b + k] \in Summary
    BY <1>3, <1>5
  <2>2. more \in Seq(Summary) /\ Len(more) = p
    <3> HIDE DEF Summary
    <3> QED BY <1>3, <1>4, <2>1
  <2>3. listed \in Seq(Summary)
    BY <1>2
  <2> HIDE DEF Summary
  <2>4. /\ listed' \in Seq(Summary) /\ Len(listed') = n + p
        /\ \A k \in 1..n : listed'[k] = listed[k]
        /\ \A k \in 1..p : listed'[n + k] = more[k]
    <3> DEFINE sum == listed \o more
    <3>1. sum \in Seq(Summary)
      BY <2>2, <2>3
    <3>2. Len(sum) = n + p
      BY <2>2, <2>3
    <3>3. \A k \in 1..n : sum[k] = listed[k]
      BY <2>2, <2>3
    <3>4. \A k \in 1..p : sum[n + k] = more[k]
      BY <1>3, <2>2, <2>3
    <3> HIDE DEF sum
    <3>5. listed' = sum
      BY <1>1 DEF sum
    <3> QED BY <3>1, <3>2, <3>3, <3>4, <3>5
  <2> QED BY <1>4, <2>4 DEF Summary
<1>7. \A k \in 1..(n + p) : k \in 1..n \/ k - n \in 1..p
  BY <1>3
<1>8. \A k \in (n + 1)..(n + p) : listed'[k].track = page[k - n] /\ listed'[k].index = b + (k - n)
  <2> TAKE k \in (n + 1)..(n + p)
  <2>1. k - n \in 1..p /\ n + (k - n) = k
    BY <1>3
  <2>2. listed'[k] = [track |-> page[k - n], index |-> b + (k - n)]
    BY <1>6, <2>1
  <2> QED BY <2>2
<1>9. listed' # <<>> /\ Catalogue!After' = page[p]
  <2>1. listed' # <<>> /\ Len(listed') \in (n + 1)..(n + p) /\ Len(listed') - n = p
    BY <1>3, <1>6
  <2>2. Catalogue!After' = listed'[Len(listed')].track
    BY <2>1 DEF Catalogue!After, Catalogue!Last
  <2> QED BY <1>8, <2>1, <2>2
<1>10. \A k \in 1..n : listed[k].track \in Nat /\ listed[k].index \in Int
  BY TableTypes DEF ListingInv
<1>11. TracksGrow'
  <2> SUFFICES ASSUME NEW j \in 1..(n + p), NEW k \in 1..(n + p), j < k
               PROVE  listed'[j].track < listed'[k].track
    BY <1>6 DEF TracksGrow
  <2>1. CASE k \in 1..n
    <3>1. j \in 1..n
      BY <1>3, <2>1
    <3>2. listed[j].track < listed[k].track
      BY <2>1, <3>1 DEF ListingInv, ReadOk, TracksGrow
    <3> QED BY <1>6, <2>1, <3>1, <3>2
  <2>2. CASE j \in 1..n /\ k \notin 1..n
    <3>1. k \in (n + 1)..(n + p) /\ k - n \in 1..p /\ listed # <<>>
      BY <1>3, <2>2
    <3>2. listed'[k].track = page[k - n] /\ page[k - n] > Catalogue!After
      BY <1>1, <1>8, <3>1 DEF ListingInv, ReadOk
    <3>3. Catalogue!After = listed[n].track /\ n \in 1..n
      BY <3>1, TableTypes DEF ListingInv
    <3>4. listed[j].track <= listed[n].track
      <4>1. j = n \/ j < n
        BY <1>3, <2>2
      <4>2. j < n => listed[j].track < listed[n].track
        BY <2>2, <3>3 DEF ListingInv, ReadOk, TracksGrow
      <4> QED BY <1>10, <2>2, <3>3, <4>1, <4>2
    <3>5. listed'[j].track = listed[j].track
      BY <1>6, <2>2
    <3>6. page[k - n] \in Nat /\ listed[j].track \in Nat /\ listed[n].track \in Nat
      BY <1>3, <1>10, <2>2, <3>1, <3>3
    <3> QED BY <3>2, <3>3, <3>4, <3>5, <3>6
  <2>3. CASE j \notin 1..n
    <3>1. /\ j \in (n + 1)..(n + p) /\ k \in (n + 1)..(n + p)
          /\ j - n \in 1..p /\ k - n \in 1..p /\ j - n < k - n
      BY <1>3, <2>3
    <3>2. page[j - n] < page[k - n]
      BY <1>1, <3>1 DEF ListingInv, ReadOk, Grown
    <3> QED BY <1>8, <3>1, <3>2
  <2> QED BY <2>1, <2>2, <2>3
<1>12. ReadOk'
  <2>1. at' \in {"querying", "ended"}
    BY <1>1
  <2> QED BY <1>1, <1>2, <1>6, <1>11, <2>1 DEF ListingInv, ReadOk
<1>13. NumbersOk'
  <2> SUFFICES ASSUME since.stored \subseteq since.registry
               PROVE  /\ listStored \subseteq listRegistry
                      /\ NumbersGrow'
                      /\ listed'[Len(listed')].index <= Catalogue!UpTo(Catalogue!After)'
    BY <1>1 DEF NumbersOk
  <2>1. listStored \subseteq listRegistry /\ NumbersGrow
        /\ (listed # <<>> => listed[n].index <= Catalogue!UpTo(Catalogue!After))
    BY <1>1, <1>2 DEF ListingInv, NumbersOk
  <2>2. /\ listed # <<>> => b = Catalogue!UpTo(Catalogue!After)
        /\ \A k \in 1..p : Catalogue!UpTo(page[k]) \in Nat /\ b + k <= Catalogue!UpTo(page[k])
    BY <1>1, <2>1, NumbersFit DEF b
  <2>3. Catalogue!UpTo(Catalogue!After)' = Catalogue!UpTo(page[p])
    BY <1>1, <1>9 DEF Catalogue!UpTo
  <2>4. listed'[Len(listed')].index = b + p
    <3>1. Len(listed') \in (n + 1)..(n + p) /\ Len(listed') - n = p
      BY <1>3, <1>6
    <3> QED BY <1>8, <3>1
  <2>5. p \in 1..p
    BY <1>3
  <2>6. NumbersGrow'
    <3> SUFFICES ASSUME NEW j \in 1..(n + p), NEW k \in 1..(n + p), j < k
                 PROVE  listed'[j].index < listed'[k].index
      BY <1>6 DEF NumbersGrow
    <3>1. CASE k \in 1..n
      <4>1. j \in 1..n
        BY <1>3, <3>1
      <4>2. listed[j].index < listed[k].index
        BY <2>1, <3>1, <4>1 DEF NumbersGrow
      <4> QED BY <1>6, <3>1, <4>1, <4>2
    <3>2. CASE j \in 1..n /\ k \notin 1..n
      <4>1. k \in (n + 1)..(n + p) /\ k - n \in 1..p /\ listed # <<>> /\ n \in 1..n
        BY <1>3, <3>2
      <4>2. listed'[k].index = b + (k - n) /\ listed[n].index <= b
        BY <1>8, <2>1, <2>2, <4>1
      <4>3. listed[j].index <= listed[n].index
        <5>1. j = n \/ j < n
          BY <1>3, <3>2
        <5>2. j < n => listed[j].index < listed[n].index
          BY <2>1, <3>2, <4>1 DEF NumbersGrow
        <5> QED BY <1>10, <3>2, <4>1, <5>1, <5>2
      <4>4. listed'[j].index = listed[j].index
        BY <1>6, <3>2
      <4>5. listed[j].index \in Int /\ listed[n].index \in Int /\ k - n \in Nat /\ k - n > 0
        BY <1>10, <3>2, <4>1
      <4> QED BY <1>5, <4>2, <4>3, <4>4, <4>5
    <3>3. CASE j \notin 1..n
      <4>1. j \in (n + 1)..(n + p) /\ k \in (n + 1)..(n + p) /\ j - n < k - n
            /\ j - n \in Int /\ k - n \in Int
        BY <1>3, <3>3
      <4>2. listed'[j].index = b + (j - n) /\ listed'[k].index = b + (k - n)
        BY <1>8, <4>1
      <4> QED BY <1>5, <4>1, <4>2
    <3> QED BY <3>1, <3>2, <3>3
  <2> QED BY <2>1, <2>2, <2>3, <2>4, <2>5, <2>6
<1>14. ArchiveOk'
  <2>1. InListing' = InListing \cup OnPage
    <3>1. \A x \in InListing' : x \in InListing \cup OnPage
      <4> SUFFICES ASSUME NEW k \in 1..(n + p) PROVE listed'[k].track \in InListing \cup OnPage
        BY <1>6 DEF InListing
      <4>1. CASE k \in 1..n
        BY <1>6, <4>1 DEF InListing
      <4>2. CASE k \notin 1..n
        <5>1. k \in (n + 1)..(n + p) /\ k - n \in 1..p
          BY <1>3, <4>2
        <5> QED BY <1>8, <5>1 DEF OnPage
      <4> QED BY <4>1, <4>2
    <3>2. InListing \subseteq InListing'
      <4> SUFFICES ASSUME NEW k \in 1..n PROVE listed[k].track \in InListing'
        BY DEF InListing
      <4>1. k \in 1..Len(listed') /\ listed'[k].track = listed[k].track
        BY <1>3, <1>6
      <4> QED BY <4>1 DEF InListing
    <3>3. OnPage \subseteq InListing'
      <4> SUFFICES ASSUME NEW k \in 1..p PROVE page[k] \in InListing'
        BY DEF OnPage
      <4>1. n + k \in 1..Len(listed')
        BY <1>3, <1>6
      <4>2. listed'[n + k].track = page[k]
        <5>1. n + k \in (n + 1)..(n + p) /\ n + k - n = k
          BY <1>3
        <5> QED BY <1>8, <5>1
      <4> QED BY <4>1, <4>2 DEF InListing
    <3> QED BY <3>1, <3>2, <3>3
  <2> QED BY <1>1, <1>9, <2>1 DEF ListingInv, ArchiveOk
<1> QED BY <1>12, <1>13, <1>14 DEF ListingInv

(* A page is read: what it does not have comes after it. *)
LEMMA QueryKeeps == ASSUME ListingInv, Catalogue!Query PROVE ListingInv'
<1> DEFINE s == Catalogue!Selected
           read == {s[k] : k \in 1..Len(s)}
<1>1. /\ at = "querying" /\ page' = s /\ at' = IF s = <<>> THEN "ended" ELSE "numbering"
      /\ UNCHANGED <<listed, listStored, listRegistry, reader, since>>
  BY DEF Catalogue!Query, Catalogue!Reader, Catalogue!tables
<1>2. /\ s \in Seq(Nat \ {0}) /\ Grown(s) /\ read \subseteq listStored
      /\ \A k \in 1..Len(s) : s[k] > Catalogue!After
      /\ reader = "archive" =>
            \A t \in listStored :
                 t > Catalogue!After =>
                   \/ t \in read
                   \/ s # <<>> /\ ~(t <= s[Len(s)]) /\ Len(s) = PageSize
  BY PageIs DEF ListingInv
<1> HIDE DEF s
<1>3. Catalogue!After' = Catalogue!After /\ Catalogue!UpTo(Catalogue!After)' = Catalogue!UpTo(Catalogue!After)
  BY <1>1 DEF Catalogue!After, Catalogue!Last, Catalogue!UpTo
<1>4. OnPage' = read /\ InListing' = InListing /\ TracksGrow' = TracksGrow /\ NumbersGrow' = NumbersGrow
  BY <1>1 DEF OnPage, InListing, TracksGrow, NumbersGrow
<1>5. ReadOk'
  BY <1>1, <1>2, <1>3, <1>4 DEF ListingInv, ReadOk, Grown
<1>6. NumbersOk'
  BY <1>1, <1>3, <1>4 DEF ListingInv, NumbersOk
<1>7. ArchiveOk'
  <2> SUFFICES ASSUME reader = "archive"
               PROVE  /\ s # <<>> => /\ \A t \in since.stored : t <= s[Len(s)] => t \in InListing \cup read
                                     /\ Len(s) # PageSize => since.stored \subseteq InListing \cup read
                      /\ s = <<>> => since.stored \subseteq InListing
    BY <1>1, <1>4 DEF ArchiveOk
  <2>1. since.stored \subseteq listStored /\ listStored \subseteq Nat /\ Catalogue!After \in Nat
    BY TableTypes DEF ListingInv, ReadOk, Listings
  <2>2. ASSUME NEW t \in since.stored, t \notin InListing, t \notin read
        PROVE  s # <<>> /\ ~(t <= s[Len(s)]) /\ Len(s) = PageSize
    <3>1. ~(t <= Catalogue!After)
      BY <1>1, <2>2 DEF ListingInv, ArchiveOk
    <3>2. t \in listStored /\ t > Catalogue!After
      BY <2>1, <3>1
    <3> HIDE DEF read
    <3> QED BY <1>2, <2>2, <3>2
  <2>3. s = <<>> => read = {}
    OBVIOUS
  <2> HIDE DEF read
  <2> QED BY <2>2, <2>3
<1> QED BY <1>5, <1>6, <1>7 DEF ListingInv

(* What starts afresh has no summaries. *)
LEMMA Afresh ==
    ASSUME ListingInv, UNCHANGED <<listStored, listRegistry>>,
           page' \in Seq(Nat \ {0}), Len(listed') <= 1, TracksGrow',
           listed' \in Seq([track : Nat \ {0}, index : Int]),
           \/ reader' = reader /\ since' = since /\ listed' = <<>> /\ at' = "idle"
           \/ /\ reader' \in {"nothing", "track"} /\ at' \in {"idle", "fetching", "describing", "ended"}
              /\ at' \in {"fetching", "describing"} => reader' = "track" /\ page' # <<>>
           \/ /\ reader' \in Listings /\ at' = "querying" /\ listed' = <<>>
              /\ since' = [stored |-> listStored, registry |-> listRegistry]
    PROVE  ListingInv'
<1>1. ReadOk'
  BY DEF ListingInv, ReadOk, Listings
<1>2. NumbersOk'
  <2>1. listed' = <<>> => NumbersGrow'
    BY DEF NumbersGrow
  <2> QED BY <2>1 DEF ListingInv, NumbersOk, Listings
<1>3. ArchiveOk'
  <2>1. CASE reader' \in Listings /\ at' = "querying" /\ listed' = <<>>
             /\ since' = [stored |-> listStored, registry |-> listRegistry]
    <3>1. Catalogue!After' = 0
      BY <2>1 DEF Catalogue!After
    <3>2. \A t \in since'.stored : ~(t <= 0)
      BY <2>1, TableTypes DEF ListingInv
    <3> QED BY <2>1, <3>1, <3>2 DEF ArchiveOk
  <2>2. CASE at' = "idle" \/ reader' \in {"nothing", "track"}
    BY <2>2 DEF ArchiveOk
  <2> QED BY <2>1, <2>2
<1> QED BY <1>1, <1>2, <1>3 DEF ListingInv

LEMMA OthersRead ==
    ASSUME ListingInv,
           \/ Catalogue!Crash \/ Catalogue!Begin \/ Catalogue!Fetch
           \/ Catalogue!Describe \/ Catalogue!ReadFails
           \/ \E t \in Listable : Catalogue!AskTrack(t)
           \/ \E n : Catalogue!AskNumber(n)
    PROVE  ListingInv'
<1> USE DEF Catalogue!tables, Catalogue!Reader
<1>1. ASSUME listed' = <<>>
      PROVE  Len(listed') <= 1 /\ TracksGrow' /\ listed' \in Seq([track : Nat \ {0}, index : Int])
  BY <1>1 DEF TracksGrow
<1>2. CASE Catalogue!Crash
  <2>1. /\ UNCHANGED <<listStored, listRegistry>> /\ page' = <<>> /\ listed' = <<>>
        /\ reader' = "nothing" /\ at' = "idle"
    BY <1>2 DEF Catalogue!Crash
  <2> QED BY <1>1, <2>1, Afresh
<1>3. CASE Catalogue!Begin
  <2>1. /\ UNCHANGED <<listStored, listRegistry>> /\ page' = <<>> /\ listed' = <<>>
        /\ reader' \in Listings /\ at' = "querying"
        /\ since' = [stored |-> listStored, registry |-> listRegistry]
    BY <1>3 DEF Catalogue!Begin, Listings
  <2> QED BY <1>1, <2>1, Afresh
<1>4. CASE Catalogue!Fetch
  <2>1. /\ UNCHANGED <<listStored, listRegistry, page, listed, reader, since>>
        /\ at = "fetching" /\ at' \in {"describing", "ended"}
    BY <1>4 DEF Catalogue!Fetch
  <2>2. reader = "track" /\ page \in Seq(Nat \ {0}) /\ page # <<>> /\ Len(listed) <= 1
        /\ TracksGrow /\ listed \in Seq([track : Nat \ {0}, index : Int])
    BY <2>1 DEF ListingInv, ReadOk, Listings
  <2>3. TracksGrow' = TracksGrow
    BY <2>1 DEF TracksGrow
  <2> QED BY <2>1, <2>2, <2>3, Afresh
<1>5. CASE Catalogue!Describe
  <2> DEFINE summary == [track |-> Head(page), index |-> Catalogue!UpTo(Head(page))]
  <2>1. /\ UNCHANGED <<listStored, listRegistry, page, reader, since>>
        /\ at = "describing" /\ at' = "ended" /\ listed' = <<summary>>
    BY <1>5 DEF Catalogue!Describe
  <2>2. reader = "track" /\ page \in Seq(Nat \ {0}) /\ page # <<>> /\ Head(page) \in Nat \ {0}
    BY <2>1 DEF ListingInv, ReadOk
  <2>3. Catalogue!UpTo(Head(page)) \in Int
    <3>1. listRegistry \in SUBSET Nat /\ IsFiniteSet(listRegistry)
      BY TableTypes DEF ListingInv
    <3>2. Catalogue!PlaceIn(listRegistry, Head(page)) \in Nat
      BY <2>2, <3>1, Places
    <3> QED BY <3>2 DEF Catalogue!UpTo
  <2>4. summary \in [track : Nat \ {0}, index : Int]
    BY <2>2, <2>3
  <2> HIDE DEF summary
  <2>5. Len(listed') = 1 /\ listed' \in Seq([track : Nat \ {0}, index : Int])
    BY <2>1, <2>4
  <2>6. TracksGrow'
    BY <2>5 DEF TracksGrow
  <2> QED BY <2>1, <2>2, <2>5, <2>6, Afresh
<1>6. CASE Catalogue!ReadFails
  <2>1. /\ UNCHANGED <<listStored, listRegistry, reader, since>>
        /\ page' = <<>> /\ listed' = <<>> /\ at' = "idle"
    BY <1>6 DEF Catalogue!ReadFails
  <2> QED BY <1>1, <2>1, Afresh
<1>7. ASSUME NEW one, one \in Seq(Nat \ {0}), NEW next, next \in {"fetching", "ended"},
             next = "fetching" => one # <<>>, Catalogue!Ask(one, next)
      PROVE  ListingInv'
  <2>1. /\ UNCHANGED <<listStored, listRegistry>> /\ reader' = "track"
        /\ page' = one /\ listed' = <<>> /\ at' = next
    BY <1>7 DEF Catalogue!Ask
  <2> QED BY <1>1, <1>7, <2>1, Afresh
<1>8. ASSUME NEW t \in Listable, Catalogue!AskTrack(t) PROVE ListingInv'
  <2>1. t \in Nat \ {0}
    BY FewTracks
  <2>2. <<t>> \in Seq(Nat \ {0}) /\ <<t>> # <<>>
    BY <2>1
  <2> QED BY <1>7, <1>8, <2>2 DEF Catalogue!AskTrack
<1>9. ASSUME NEW n, Catalogue!AskNumber(n) PROVE ListingInv'
  <2>1. CASE Catalogue!IdAt(n) = 0
    <3>1. <<>> \in Seq(Nat \ {0}) /\ Catalogue!Ask(<<>>, "ended")
      BY <1>9, <2>1 DEF Catalogue!AskNumber
    <3> QED BY <1>7, <3>1
  <2>2. CASE Catalogue!IdAt(n) # 0
    <3>1. Catalogue!IdAt(n) \in listRegistry
      BY <2>2 DEF Catalogue!IdAt, Catalogue!RowAt, Catalogue!UpTo
    <3>2. <<Catalogue!IdAt(n)>> \in Seq(Nat \ {0}) /\ <<Catalogue!IdAt(n)>> # <<>>
      BY <3>1, TableTypes DEF ListingInv
    <3> QED BY <1>7, <1>9, <2>2, <3>2 DEF Catalogue!AskNumber
  <2> QED BY <2>1, <2>2
<1> QED BY <1>2, <1>3, <1>4, <1>5, <1>6, <1>8, <1>9

LEMMA ListingStep == ASSUME ListingInv, Catalogue!Next PROVE ListingInv'
<1> USE DEF Catalogue!Backfill
<1>0. listStored \subseteq Listable /\ listRegistry \subseteq Listable
  BY DEF ListingInv, ReadOk
<1>1. ASSUME NEW t \in Listable, Catalogue!Register(t) \/ Catalogue!Store(t) PROVE ListingInv'
  BY <1>0, <1>1, TablesGrow DEF Catalogue!Register, Catalogue!Store
<1>2. CASE Catalogue!Sync \/ Catalogue!SyncFails
  BY <1>0, <1>2, TablesGrow DEF Catalogue!Sync, Catalogue!SyncFails
<1>3. CASE Catalogue!ReadState \/ Catalogue!CheckRegistry \/ Catalogue!CheckMarkers
           \/ Catalogue!CheckFails \/ Catalogue!Record
  BY <1>0, <1>3, TablesGrow
     DEF Catalogue!ReadState, Catalogue!CheckRegistry, Catalogue!CheckMarkers,
         Catalogue!CheckFails, Catalogue!Record
<1> QED BY <1>1, <1>2, <1>3, OthersRead, QueryKeeps, NumberKeeps
        DEF Catalogue!Next, Catalogue!Startup

LEMMA ListingAlways == PathsSpec => []ListingInv
<1>1. PathsInit => ListingInv
  <2> SUFFICES ASSUME Catalogue!Init PROVE ListingInv
    BY DEF PathsInit
  <2>1. /\ listStored = ListLegacy /\ listRegistry = {} /\ reader = "nothing" /\ at = "idle"
        /\ page = <<>> /\ listed = <<>>
    BY DEF Catalogue!Init
  <2>2. ReadOk
    BY <2>1, PathsAssumption DEF ReadOk, TracksGrow, Listings, PathsAssumption, Catalogue!Assumption
  <2> QED BY <2>1, <2>2 DEF ListingInv, NumbersOk, ArchiveOk, Listings
<1>2. ListingInv /\ [PathsNext]_pathVars => ListingInv'
  <2>1. ASSUME ListingInv, UNCHANGED catalogueVars PROVE ListingInv'
    <3>1. UNCHANGED <<listStored, listRegistry>> /\ UNCHANGED Catalogue!readerVars
      BY <2>1 DEF catalogueVars, Catalogue!readerVars
    <3> QED BY <2>1, <3>1, TablesGrow DEF ListingInv, ReadOk
  <2> QED BY <2>1, ListingStep
          DEF PathsNext, MoveRebuild, MoveUploads, MoveSpeeds, MoveStreams, MoveRealtime,
              MoveCatalogue, pathVars
<1> QED BY <1>1, <1>2, PTL DEF PathsSpec

(* The property of the run: over a registry that was complete when it      *)
(* began, the numbers of a listing or an archive rise with its tracks,     *)
(* whatever is imported between its statements (streamTrackSummaries).     *)
THEOREM ListedNumbersRise == PathsSpec => []NumbersRise
<1>1. ListingInv => NumbersRise
  <2> SUFFICES ASSUME ListingInv, since.stored \subseteq since.registry,
                      NEW k \in 2..Len(listed)
               PROVE  listed[k - 1].index < listed[k].index
    BY DEF NumbersRise, Catalogue!NumbersRise
  <2>1. Len(listed) \in Nat
    BY TableTypes DEF ListingInv
  <2>2. k - 1 \in 1..Len(listed) /\ k \in 1..Len(listed) /\ k - 1 < k /\ ~(Len(listed) <= 1)
    BY <2>1
  <2> QED BY <2>2 DEF ListingInv, ReadOk, NumbersOk, NumbersGrow
<1> QED BY <1>1, ListingAlways, PTL

(* The property of the run: an archive has every track once that had       *)
(* markers when it began, page by page while tracks are added              *)
(* (buildArchive of pkg/jsonarchive/generator.go).                          *)
THEOREM ArchivesAreWhole == PathsSpec => []ArchiveWhole
<1>1. ListingInv => ArchiveWhole
  <2> SUFFICES ASSUME ListingInv PROVE ArchiveWhole
    OBVIOUS
  <2>1. Len(listed) \in Nat
    BY TableTypes DEF ListingInv
  <2>2. \A k \in 2..Len(listed) : listed[k - 1].track < listed[k].track
    <3> TAKE k \in 2..Len(listed)
    <3>1. k - 1 \in 1..Len(listed) /\ k \in 1..Len(listed) /\ k - 1 < k
      BY <2>1
    <3> QED BY <3>1 DEF ListingInv, ReadOk, TracksGrow
  <2>3. {listed[k].track : k \in DOMAIN listed} = InListing
    <3>1. DOMAIN listed = 1..Len(listed)
      BY DEF ListingInv, ReadOk
    <3> QED BY <3>1 DEF InListing
  <2> QED BY <2>2, <2>3 DEF ListingInv, ArchiveOk, ArchiveWhole, Catalogue!ArchiveWhole
<1> QED BY <1>1, ListingAlways, PTL

(* Who reads the whole list: a year or a month may have every track too.   *)
Whole == reader \in {"all", "archive"} \/ (reader = "year" /\ listStored \subseteq Dated)

(* While the tables stand still and agree, a track of the page is as many  *)
(* places after the last summary as rows of the page, and a number given   *)
(* is the place of its track.                                              *)
PlacesOk ==
    reader \in Listings =>
        /\ since.registry \subseteq listRegistry
        /\ InListing \subseteq listStored
        /\ Catalogue!Calm /\ Whole =>
             /\ \A k \in 1..Len(listed) : listed[k].index = Catalogue!UpTo(listed[k].track)
             /\ at = "numbering" =>
                  \A k \in 1..Len(page) : Catalogue!UpTo(page[k]) = Catalogue!UpTo(Catalogue!After) + k

(* The place of a track, counted from another one before it. *)
LEMMA PlacesAdd ==
    ASSUME NEW S \in SUBSET Nat, IsFiniteSet(S), NEW a \in Nat, NEW t \in Nat, a <= t
    PROVE  Catalogue!PlaceIn(S, t) = Catalogue!PlaceIn(S, a) + Catalogue!PlaceIn({u \in S : u > a}, t)
<1> DEFINE after == {u \in S : u > a}
           low == {u \in S : u <= a}
           mid == {u \in after : u <= t}
           high == {u \in S : u <= t}
<1>1. after \in SUBSET Nat /\ IsFiniteSet(after)
  <2>1. after \subseteq S
    OBVIOUS
  <2> QED BY <2>1, FS_Subset
<1>2. /\ Catalogue!PlaceIn(S, t) = Cardinality(high) /\ IsFiniteSet(high)
      /\ Catalogue!PlaceIn(S, a) = Cardinality(low) /\ IsFiniteSet(low)
  BY Places
<1>3. Catalogue!PlaceIn(after, t) = Cardinality(mid) /\ IsFiniteSet(mid)
  <2> HIDE DEF after
  <2> QED BY <1>1, Places
<1>4. high = low \cup mid /\ low \cap mid = {}
  <2>1. \A u \in S : u <= a => u <= t
    OBVIOUS
  <2>2. \A u \in S : (u <= a \/ u > a) /\ ~(u <= a /\ u > a)
    OBVIOUS
  <2> QED BY <2>1, <2>2
<1>5. Cardinality(high) = Cardinality(low) + Cardinality(mid) - Cardinality(low \cap mid)
  <2> HIDE DEF low, mid
  <2> QED BY <1>2, <1>3, <1>4, FS_Union
<1>6. Cardinality(low \cap mid) = 0
  BY <1>4, FS_EmptySet
<1>7. Cardinality(low) \in Nat /\ Cardinality(mid) \in Nat
  BY <1>2, <1>3, FS_CardinalityType
<1> QED BY <1>2, <1>3, <1>5, <1>6, <1>7

(* The rows of a page are the next tracks of a table that it was read of.  *)
LEMMA PagePlaces ==
    ASSUME ReadOk, Whole
    PROVE  LET s == Catalogue!Selected IN
           \A k \in 1..Len(s) :
               Catalogue!PlaceIn(listStored, s[k]) = Catalogue!PlaceIn(listStored, Catalogue!After) + k
<1> DEFINE due == {t \in listStored : t > Catalogue!After /\ (reader = "year" => t \in Dated)}
           limit == IF reader = "archive" /\ PageSize < Cardinality(due) THEN PageSize
                    ELSE Cardinality(due)
           s == [k \in 1..limit |-> Catalogue!RowAt(due, k)]
<1>1. due \in SUBSET Nat /\ IsFiniteSet(due) /\ due \subseteq listStored
  <2>1. due \subseteq listStored
    OBVIOUS
  <2> QED BY <2>1, TableTypes, FS_Subset
<1>2. limit \in 0..Cardinality(due)
  <2>1. Cardinality(due) \in Nat
    BY <1>1, FS_CardinalityType
  <2> QED BY <2>1, TableTypes
<1>3. Catalogue!Selected = s
  BY DEF Catalogue!Selected, Catalogue!Cardinality, Cardinality
<1>4. due = {t \in listStored : t > Catalogue!After}
  BY DEF Whole
<1>5. \A t \in due : t > Catalogue!After
  OBVIOUS
<1> HIDE DEF due, limit
<1>6. limit \in Nat /\ limit <= Cardinality(due) /\ Cardinality(due) \in Nat
  BY <1>1, <1>2, FS_CardinalityType
<1>7. DOMAIN s = 1..limit /\ Len(s) = limit
  <2>1. s \in Seq(due) /\ Len(s) = limit
    BY <1>1, <1>2, RowsOf
  <2> QED BY <2>1
<1>8. ASSUME NEW k \in 1..limit
      PROVE  Catalogue!PlaceIn(listStored, s[k]) = Catalogue!PlaceIn(listStored, Catalogue!After) + k
  <2>1. \E t \in due : Catalogue!PlaceIn(due, t) = k
    BY <1>1, <1>6, PlacesTaken
  <2>2. s[k] \in due /\ Catalogue!PlaceIn(due, s[k]) = k
    BY <2>1 DEF Catalogue!RowAt
  <2> HIDE DEF s
  <2>3. s[k] \in Nat /\ Catalogue!After \in Nat /\ Catalogue!After <= s[k]
    BY <1>1, <1>5, <2>2, TableTypes
  <2>4. listStored \in SUBSET Nat /\ IsFiniteSet(listStored)
    BY TableTypes
  <2> QED BY <1>4, <2>2, <2>3, <2>4, PlacesAdd
<1> HIDE DEF s
<1> QED BY <1>3, <1>7, <1>8

(* Nothing is at a place before the first. *)
LEMMA NoPlaceZero ==
    ASSUME ReadOk
    PROVE  Catalogue!UpTo(0) = 0
<1>1. listRegistry \subseteq Nat \ {0} /\ listRegistry \in SUBSET Nat /\ IsFiniteSet(listRegistry)
  BY TableTypes
<1>2. {u \in listRegistry : u <= 0} = {}
  <2>1. \A u \in Nat \ {0} : ~(u <= 0)
    OBVIOUS
  <2> QED BY <1>1, <2>1
<1>3. Catalogue!PlaceIn(listRegistry, 0) = Cardinality({u \in listRegistry : u <= 0})
  BY <1>1, Places
<1> QED BY <1>2, <1>3, FS_EmptySet DEF Catalogue!UpTo

(* The number before the first of a page is the place of the last summary. *)
LEMMA BaseIsPlace ==
    ASSUME ReadOk, at = "numbering",
           Catalogue!UpTo(page[1]) = Catalogue!UpTo(Catalogue!After) + 1
    PROVE  Catalogue!Base = Catalogue!UpTo(Catalogue!After)
<1>1. CASE listed # <<>>
  BY <1>1 DEF Catalogue!Base
<1>2. CASE listed = <<>>
  <2>1. Catalogue!After = 0 /\ Head(page) = page[1]
    BY <1>2 DEF Catalogue!After, ReadOk
  <2>2. Catalogue!UpTo(Head(page)) - 1 = 0 /\ Catalogue!UpTo(Catalogue!After) = 0
    BY <2>1, NoPlaceZero
  <2>3. Catalogue!Max({0, 0}) = 0
    BY DEF Catalogue!Max
  <2> QED BY <1>2, <2>2, <2>3 DEF Catalogue!Base
<1> QED BY <1>1, <1>2

(* While readers rest, the tables can only leave the calm. *)
LEMMA PlacesStand ==
    ASSUME ListingInv, PlacesOk, UNCHANGED Catalogue!readerVars,
           listStored \subseteq listStored', listRegistry \subseteq listRegistry'
    PROVE  PlacesOk'
<1>1. UNCHANGED <<reader, at, page, listed, since>>
  BY DEF Catalogue!readerVars
<1>2. InListing' = InListing /\ Catalogue!After' = Catalogue!After
  BY <1>1 DEF InListing, Catalogue!After, Catalogue!Last
<1> SUFFICES ASSUME reader \in Listings PROVE PlacesOk'
  BY <1>1 DEF PlacesOk
<1>3. since.registry \subseteq listRegistry' /\ InListing' \subseteq listStored'
  BY <1>2 DEF PlacesOk
<1>4. ASSUME Catalogue!Calm', Whole'
      PROVE  /\ \A k \in 1..Len(listed) : listed[k].index = Catalogue!UpTo(listed[k].track)'
             /\ at = "numbering" =>
                  \A k \in 1..Len(page) : Catalogue!UpTo(page[k])' = Catalogue!UpTo(Catalogue!After)' + k
  <2>1. since.stored = listStored' /\ since.registry = listRegistry' /\ listRegistry' = listStored'
    BY <1>1, <1>4 DEF Catalogue!Calm
  <2>2. since.stored \subseteq listStored /\ since.registry \subseteq listRegistry
    BY DEF ListingInv, ReadOk, PlacesOk
  <2>3. listStored' = listStored /\ listRegistry' = listRegistry
    BY <2>1, <2>2
  <2>4. Catalogue!Calm /\ Whole
    BY <1>1, <1>4, <2>3 DEF Catalogue!Calm, Whole
  <2> QED BY <1>1, <1>2, <2>3, <2>4 DEF PlacesOk, Catalogue!UpTo
<1> QED BY <1>1, <1>2, <1>3, <1>4 DEF PlacesOk

LEMMA QueryPlaces == ASSUME ListingInv, PlacesOk, Catalogue!Query PROVE PlacesOk'
<1> DEFINE s == Catalogue!Selected
<1>1. /\ at = "querying" /\ page' = s
      /\ UNCHANGED <<listed, listStored, listRegistry, reader, since>>
  BY DEF Catalogue!Query, Catalogue!Reader, Catalogue!tables
<1>2. ReadOk
  BY DEF ListingInv
<1>3. ASSUME Whole, listRegistry = listStored
      PROVE  \A k \in 1..Len(s) : Catalogue!UpTo(s[k]) = Catalogue!UpTo(Catalogue!After) + k
  BY <1>2, <1>3, PagePlaces DEF Catalogue!UpTo
<1> HIDE DEF s
<1>4. /\ Catalogue!After' = Catalogue!After /\ InListing' = InListing
      /\ Catalogue!Calm' = Catalogue!Calm /\ Whole' = Whole
      /\ \A t : Catalogue!UpTo(t)' = Catalogue!UpTo(t)
  BY <1>1 DEF Catalogue!After, Catalogue!Last, InListing, Catalogue!Calm, Whole, Catalogue!UpTo
<1>5. Catalogue!Calm => listRegistry = listStored
  BY DEF Catalogue!Calm
<1> QED BY <1>1, <1>3, <1>4, <1>5 DEF PlacesOk, Catalogue!UpTo

LEMMA NumberPlaces == ASSUME ListingInv, PlacesOk, Catalogue!Number PROVE PlacesOk'
<1> DEFINE n == Len(listed)
           p == Len(page)
           b == Catalogue!Base
           more == Catalogue!Numbered
<1>1. /\ at = "numbering" /\ listed' = listed \o more /\ at' # "numbering"
      /\ UNCHANGED <<page, listStored, listRegistry, reader, since>>
  BY DEF Catalogue!Number, Catalogue!Reader, Catalogue!tables
<1>2. /\ page \in Seq(Nat \ {0}) /\ page # <<>> /\ reader \in Listings /\ OnPage \subseteq listStored
      /\ listed \in Seq([track : Nat \ {0}, index : Int])
  BY <1>1 DEF ListingInv, ReadOk
<1>3. p \in Nat /\ 1 \in 1..p /\ DOMAIN page = 1..p /\ n \in Nat
  BY <1>2
<1>4. more = [k \in 1..p |-> [track |-> page[k], index |-> b + k]]
  BY <1>3 DEF Catalogue!Numbered
<1> HIDE DEF b, more
<1>5. more \in Seq({more[k] : k \in 1..p}) /\ Len(more) = p
  BY <1>3, <1>4
<1>6. /\ Len(listed') = n + p
      /\ \A k \in 1..n : listed'[k] = listed[k]
      /\ \A k \in (n + 1)..(n + p) : k - n \in 1..p /\ listed'[k] = more[k - n]
  <2> DEFINE sum == listed \o more
           Summary == [track : Nat \ {0}, index : Int]
           Added == {more[k] : k \in 1..p}
  <2>0. listed \in Seq(Summary) /\ more \in Seq(Added)
    BY <1>2, <1>5
  <2> HIDE DEF Summary, Added
  <2>1. Len(sum) = n + p
    BY <1>5, <2>0
  <2>2. \A k \in 1..n : sum[k] = listed[k]
    BY <1>5, <2>0
  <2>3. \A k \in (n + 1)..(n + p) : k - n \in 1..p /\ sum[k] = more[k - n]
    BY <1>3, <1>5, <2>0
  <2> HIDE DEF sum
  <2>4. listed' = sum
    BY <1>1 DEF sum
  <2> QED BY <2>1, <2>2, <2>3, <2>4
<1>7. \A k \in 1..(n + p) : k \in 1..n \/ k \in (n + 1)..(n + p)
  BY <1>3
<1>8. \A k \in 1..p : more[k].track = page[k] /\ more[k].index = b + k
  BY <1>4
<1>9. InListing' \subseteq listStored'
  <2> SUFFICES ASSUME NEW k \in 1..(n + p) PROVE listed'[k].track \in listStored
    BY <1>1, <1>6 DEF InListing
  <2>1. CASE k \in 1..n
    BY <1>2, <1>6, <2>1 DEF PlacesOk, InListing
  <2>2. CASE k \in (n + 1)..(n + p)
    <3>1. k - n \in 1..p /\ listed'[k].track = page[k - n]
      BY <1>6, <1>8, <2>2
    <3> QED BY <1>2, <3>1 DEF OnPage
  <2> QED BY <1>7, <2>1, <2>2
<1>10. ASSUME Catalogue!Calm, Whole, NEW k \in 1..(n + p)
       PROVE  listed'[k].index = Catalogue!UpTo(listed'[k].track)
  <2>1. /\ \A m \in 1..n : listed[m].index = Catalogue!UpTo(listed[m].track)
        /\ \A m \in 1..p : Catalogue!UpTo(page[m]) = Catalogue!UpTo(Catalogue!After) + m
    BY <1>1, <1>2, <1>10 DEF PlacesOk
  <2>2. b = Catalogue!UpTo(Catalogue!After)
    BY <1>1, <1>3, <2>1, BaseIsPlace DEF ListingInv, b
  <2>3. CASE k \in 1..n
    BY <1>6, <2>1, <2>3
  <2>4. CASE k \in (n + 1)..(n + p)
    <3>1. k - n \in 1..p /\ listed'[k].track = page[k - n] /\ listed'[k].index = b + (k - n)
      BY <1>6, <1>8, <2>4
    <3> QED BY <2>1, <2>2, <3>1
  <2> QED BY <1>7, <2>3, <2>4
<1>11. Catalogue!Calm' = Catalogue!Calm /\ Whole' = Whole /\ \A t : Catalogue!UpTo(t)' = Catalogue!UpTo(t)
  BY <1>1 DEF Catalogue!Calm, Whole, Catalogue!UpTo
<1> QED BY <1>1, <1>2, <1>6, <1>9, <1>10, <1>11 DEF PlacesOk, Catalogue!UpTo

LEMMA PlacesStep == ASSUME ListingInv, PlacesOk, Catalogue!Next PROVE PlacesOk'
<1> USE DEF Catalogue!Backfill, Catalogue!Reader, Catalogue!tables
<1>1. ASSUME NEW t \in Listable, Catalogue!Register(t) \/ Catalogue!Store(t) PROVE PlacesOk'
  BY <1>1, PlacesStand DEF Catalogue!Register, Catalogue!Store
<1>2. CASE Catalogue!Startup
  BY <1>2, PlacesStand
     DEF Catalogue!Startup, Catalogue!ReadState, Catalogue!CheckRegistry, Catalogue!CheckMarkers,
         Catalogue!CheckFails, Catalogue!Record, Catalogue!Sync, Catalogue!SyncFails
<1>3. CASE Catalogue!Begin \/ Catalogue!ReadFails
  <2>1. /\ listed' = <<>> /\ at' # "numbering" /\ UNCHANGED <<listStored, listRegistry>>
        /\ \/ since' = [stored |-> listStored, registry |-> listRegistry]
           \/ UNCHANGED <<reader, since>>
    BY <1>3 DEF Catalogue!Begin, Catalogue!ReadFails
  <2>2. reader' \in Listings => since'.registry \subseteq listRegistry'
    BY <2>1 DEF PlacesOk
  <2>3. Len(listed') = 0 /\ InListing' = {}
    BY <2>1 DEF InListing
  <2> QED BY <2>1, <2>2, <2>3 DEF PlacesOk
<1>4. ASSUME reader' \notin Listings PROVE PlacesOk'
  BY <1>4 DEF PlacesOk
<1>5. ASSUME \/ Catalogue!Crash
             \/ \E t \in Listable : Catalogue!AskTrack(t)
             \/ \E n : Catalogue!AskNumber(n)
      PROVE  reader' \notin Listings
  BY <1>5 DEF Catalogue!Crash, Catalogue!AskTrack, Catalogue!AskNumber, Catalogue!Ask, Listings
<1>6. CASE Catalogue!Fetch \/ Catalogue!Describe
  <2>1. reader = "track" /\ reader' = reader
    BY <1>6 DEF Catalogue!Fetch, Catalogue!Describe, ListingInv, ReadOk
  <2> QED BY <1>4, <2>1 DEF Listings
<1> QED BY <1>1, <1>2, <1>3, <1>4, <1>5, <1>6, QueryPlaces, NumberPlaces DEF Catalogue!Next

(* What YearResolves asks, which does not hold of a year in general: while *)
(* the tables stand still and agree, each number of the whole list leads   *)
(* to the track it is shown with, and so does each of an archive, page by  *)
(* page (streamTrackSummaries, handleTrackDataByIndex).                    *)
ListingResolves ==
    Catalogue!Calm /\ at = "ended" /\ Whole =>
        \A k \in DOMAIN listed : Catalogue!Resolves(listed[k])

THEOREM ListedNumbersLead == PathsSpec => []ListingResolves
<1>1. PathsInit => PlacesOk
  BY DEF PathsInit, Catalogue!Init, PlacesOk, Listings
<1>2. ListingInv /\ PlacesOk /\ [PathsNext]_pathVars => PlacesOk'
  <2>1. ASSUME ListingInv, PlacesOk, UNCHANGED catalogueVars PROVE PlacesOk'
    <3>1. UNCHANGED <<listStored, listRegistry>> /\ UNCHANGED Catalogue!readerVars
      BY <2>1 DEF catalogueVars, Catalogue!readerVars
    <3> QED BY <2>1, <3>1, PlacesStand
  <2> QED BY <2>1, PlacesStep
          DEF PathsNext, MoveRebuild, MoveUploads, MoveSpeeds, MoveStreams, MoveRealtime,
              MoveCatalogue, pathVars
<1>3. ListingInv /\ PlacesOk => ListingResolves
  <2> SUFFICES ASSUME ListingInv, PlacesOk, Catalogue!Calm, Whole, NEW k \in DOMAIN listed
               PROVE  Catalogue!Resolves(listed[k])
    BY DEF ListingResolves
  <2> DEFINE t == listed[k].track
             n == listed[k].index
  <2>1. k \in 1..Len(listed)
    BY DEF ListingInv, ReadOk
  <2>2. reader \in Listings
    BY DEF Whole, Listings
  <2>3. t \in listRegistry /\ n = Catalogue!UpTo(t)
    BY <2>1, <2>2 DEF PlacesOk, InListing, Catalogue!Calm
  <2>4. listRegistry \in SUBSET Nat /\ IsFiniteSet(listRegistry) /\ listRegistry \subseteq Nat \ {0}
    BY TableTypes DEF ListingInv
  <2> HIDE DEF t, n
  <2>5. ASSUME NEW u \in listRegistry, Catalogue!UpTo(u) = n PROVE u = t
    <3>1. u \in Nat /\ t \in Nat
      BY <2>3, <2>4
    <3>2. /\ u < t => Catalogue!UpTo(u) + 1 <= Catalogue!UpTo(t)
          /\ t < u => Catalogue!UpTo(t) + 1 <= Catalogue!UpTo(u)
      BY <2>3, <2>4, <3>1, PlacesGrow DEF Catalogue!UpTo
    <3>3. Catalogue!UpTo(u) \in Nat /\ Catalogue!UpTo(t) = Catalogue!UpTo(u)
      BY <2>3, <2>4, <2>5, <3>1, Places DEF Catalogue!UpTo
    <3> QED BY <3>1, <3>2, <3>3
  <2>6. Catalogue!RowAt(listRegistry, n) = t
    BY <2>3, <2>5 DEF Catalogue!RowAt, Catalogue!UpTo
  <2>7. Catalogue!IdAt(n) = t
    BY <2>3, <2>6 DEF Catalogue!IdAt
  <2> QED BY <2>7 DEF Catalogue!Resolves, t, n
<1> QED BY <1>1, <1>2, <1>3, ListingAlways, PTL DEF PathsSpec
-----------------------------------------------------------------------------
(* --- the rebuild ------------------------------------------------------------- *)

(* The database of an older version is a part of this composition that no  *)
(* other part touches.                                                     *)
LEMMA PathsRebuild == PathsSpec => RebuildSpec
<1>1. PathsInit => RebuildInit
  BY DEF PathsInit
<1>2. [PathsNext]_pathVars => [RebuildNext]_allVars
  BY DEF PathsNext, MoveRebuild, MoveUploads, MoveSpeeds, MoveStreams, MoveRealtime,
         MoveCatalogue, pathVars
<1> QED BY <1>1, <1>2, PTL DEF PathsSpec, RebuildSpec

(* Once the rebuild is recorded as done no track hides a peak: the         *)
(* property of the run, on PostgreSQL and up to the exceptions that        *)
(* NoneBetween and RunsRecorded name (rebuildMarkerZoomAggregates).        *)
THEOREM DoneIsShown ==
    ASSUME Engine = "pgx"
    PROVE  PathsSpec /\ NoneBetween /\ RunsRecorded => []DoneShowsPeaks
BY PathsRebuild, RebuildShowsPeaks, PTL
=================================================================================
