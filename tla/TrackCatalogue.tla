----------------------------- MODULE TrackCatalogue -----------------------------
(***************************************************************************)
(* The numbered catalogue of tracks (pkg/database/tracks.go): what is      *)
(* listed comes from the markers, but the numbers come from the registry,  *)
(* the table tracks.  An import enters its track in the registry before it *)
(* stores markers.  A database of an older version has markers and an      *)
(* empty registry, which backfillTracksTable fills once, in the background *)
(* after every start until it has recorded a state, while the listeners    *)
(* are up and imports run.                                                 *)
(*                                                                         *)
(* Listings and tracks (pkg/api/handlers.go) and the pages of the archive  *)
(* generator are read in several statements without a transaction.  They   *)
(* change no table, so one reader stands for any number of them.           *)
(***************************************************************************)
EXTENDS Integers, FiniteSetsExt, SequencesExt

CONSTANTS
    Tracks,     \* track IDs, as integers in the order of ORDER BY
    Legacy,     \* the tracks an older version stored
    Dated,      \* the tracks with markers in the year or month asked for
    PageSize,   \* tracks of a page of the generator: 256 in the source
    MaxFaults   \* bound on failures and crashes

Assumption ==
    /\ Tracks \subseteq Nat \ {0} /\ IsFiniteSet(Tracks) /\ Legacy \subseteq Tracks /\ Dated \subseteq Tracks
    /\ PageSize \in Nat \ {0} /\ MaxFaults \in Nat

VARIABLES
    stored,     \* the tracks that have markers
    registry,   \* the rows of the table tracks
    status,     \* the state of tracks_backfill in maintenance_state, with its reason
    backfill,   \* where backfillTracksTable is
    reader,     \* what is read: "nothing", a listing ("all", "year"), the "archive", a "track"
    at,         \* the next statement of the reader
    rows,       \* the page it has just read
    listed,     \* the summaries so far: track and number
    since,      \* history: the tables when a listing or an archive began
    faults

tables == <<stored, registry>>
readerVars == <<reader, at, rows, listed, since>>
vars == <<tables, status, backfill, readerVars, faults>>

Fault == faults < MaxFaults /\ faults' = faults + 1

NoTables == [stored |-> {}, registry |-> {}]

(* How many of the tracks are not after t, and the one at position n. *)
PlaceIn(tracks, t) == Cardinality({u \in tracks : u <= t})
RowAt(tracks, n) == CHOOSE t \in tracks : PlaceIn(tracks, t) = n

(* CountTrackIDsUpTo, and the row at 1-based position n of the registry; 0 *)
(* when there is none.                                                     *)
UpTo(t) == PlaceIn(registry, t)
IdAt(n) == IF \E r \in registry : UpTo(r) = n THEN RowAt(registry, n) ELSE 0
-----------------------------------------------------------------------------
Init ==
    /\ stored = Legacy /\ registry = {}
    /\ status = "none" /\ backfill = "starting"
    /\ reader = "nothing" /\ at = "idle"
    /\ rows = <<>> /\ listed = <<>>
    /\ since = NoTables
    /\ faults = 0

(* --- imports -------------------------------------------------------------- *)

(* EnsureTrackPresence; also for a track of the older version that a file  *)
(* is recognised to belong to.                                             *)
Register(t) ==
    /\ registry' = registry \cup {t}
    /\ UNCHANGED <<stored, status, backfill, readerVars, faults>>

Store(t) ==
    /\ t \in registry
    /\ stored' = stored \cup {t}
    /\ UNCHANGED <<registry, status, backfill, readerVars, faults>>

(* --- backfillTracksTable -------------------------------------------------- *)

Backfill(next) ==
    /\ backfill' = next
    /\ UNCHANGED <<stored, readerVars>>

(* A recorded state of any kind ends it; one that cannot be read does not. *)
ReadState ==
    /\ backfill = "starting"
    /\ \/ Backfill(IF status = "none" THEN "checking" ELSE "over") /\ UNCHANGED faults
       \/ Backfill("checking") /\ Fault
    /\ UNCHANGED <<registry, status>>

CheckRegistry ==
    /\ backfill = "checking"
    /\ Backfill(IF registry = {} THEN "checking markers" ELSE "populated")
    /\ UNCHANGED <<registry, status, faults>>

(* Faulty variant: an empty registry is enough to skip. *)
SkipEmpty ==
    /\ backfill = "checking markers"
    /\ Backfill("skipped")
    /\ UNCHANGED <<registry, status, faults>>

CheckMarkers ==
    /\ backfill = "checking markers"
    /\ Backfill(IF stored = {} THEN "skipped" ELSE "syncing")
    /\ UNCHANGED <<registry, status, faults>>

(* The check fails: nothing is recorded. *)
CheckFails ==
    /\ backfill \in {"checking", "checking markers"}
    /\ Backfill("over")
    /\ Fault
    /\ UNCHANGED <<registry, status>>

(* INSERT ... SELECT DISTINCT ... WHERE NOT EXISTS, one statement. *)
Sync ==
    /\ backfill = "syncing"
    /\ registry' = registry \cup stored
    /\ Backfill("synced")
    /\ UNCHANGED <<status, faults>>

(* It fails, or its five seconds are over; the statement of a caller that  *)
(* gave up may still be carried out.                                       *)
SyncFails ==
    /\ backfill = "syncing"
    /\ registry' \in {registry, registry \cup stored}
    /\ Backfill("failed")
    /\ Fault
    /\ UNCHANGED status

(* setMaintenanceState, whose failure is only logged.  "populated" and     *)
(* "synced" are the two reasons given for the state "done".                *)
Record ==
    /\ backfill \in {"populated", "skipped", "synced", "failed"}
    /\ Backfill("over")
    /\ \/ status' = backfill /\ UNCHANGED faults
       \/ UNCHANGED status /\ Fault
    /\ UNCHANGED registry

Crash ==
    /\ backfill' = "starting"
    /\ reader' = "nothing" /\ at' = "idle" /\ rows' = <<>> /\ listed' = <<>>
    /\ since' = NoTables
    /\ Fault
    /\ UNCHANGED <<tables, status>>

(* --- listings and archives ------------------------------------------------ *)

Reader(next) ==
    /\ at' = next
    /\ UNCHANGED <<tables, status, backfill, reader, since>>

Begin ==
    /\ at \in {"idle", "ended"}
    /\ reader' \in {"all", "year", "archive"}
    /\ at' = "querying" /\ rows' = <<>> /\ listed' = <<>>
    /\ since' = [stored |-> stored, registry |-> registry]
    /\ UNCHANGED <<tables, status, backfill, faults>>

After == IF listed = <<>> THEN 0 ELSE Last(listed).track

(* What streamTrackSummaries selects; only the generator sets a limit. *)
Selected ==
    LET due == {t \in stored : t > After /\ (reader = "year" => t \in Dated)}
        all == Cardinality(due)
        limit == IF reader = "archive" /\ PageSize < all THEN PageSize ELSE all
    IN  [n \in 1..limit |-> RowAt(due, n)]

(* The GROUP BY over the markers; without rows no number is needed. *)
Query ==
    /\ at = "querying"
    /\ rows' = Selected
    /\ Reader(IF Selected = <<>> THEN "ended" ELSE "numbering")
    /\ UNCHANGED <<listed, faults>>

(* Faulty variant: the first row's own place is taken off on every page. *)
BaseBefore == Max({UpTo(IF listed = <<>> THEN Head(rows) ELSE After) - 1, 0})

(* The number before the first of the page. *)
Base == IF listed = <<>> THEN Max({UpTo(Head(rows)) - 1, 0}) ELSE UpTo(After)

Numbered == [i \in DOMAIN rows |-> [track |-> rows[i], index |-> Base + i]]

(* Faulty variant: the generator stops after a page that is full. *)
MoreIfShort == reader = "archive" /\ Len(rows) < PageSize

(* Does the generator ask for another page? *)
More == reader = "archive" /\ Len(rows) = PageSize

(* CountTrackIDsUpTo once per page; the numbers are counted up from it. *)
Number ==
    /\ at = "numbering"
    /\ listed' = listed \o Numbered
    /\ Reader(IF More THEN "querying" ELSE "ended")
    /\ UNCHANGED <<rows, faults>>

Ask(page, next) ==
    /\ at \in {"idle", "ended"}
    /\ reader' = "track" /\ rows' = page /\ at' = next /\ listed' = <<>>
    /\ since' = NoTables
    /\ UNCHANGED <<tables, status, backfill, faults>>

AskTrack(t) == Ask(<<t>>, "fetching")

(* handleTrackDataByIndex; not found without a row at that position. *)
AskNumber(n) == IF IdAt(n) = 0 THEN Ask(<<>>, "ended") ELSE Ask(<<IdAt(n)>>, "fetching")

(* GetTrackSummary; not found without markers. *)
Fetch ==
    /\ at = "fetching"
    /\ Reader(IF Head(rows) \in stored THEN "describing" ELSE "ended")
    /\ UNCHANGED <<rows, listed, faults>>

(* The number and the markers of the track. *)
Describe ==
    /\ at = "describing"
    /\ listed' = <<[track |-> Head(rows), index |-> UpTo(Head(rows))]>>
    /\ Reader("ended")
    /\ UNCHANGED <<rows, faults>>

(* A statement fails, or the context of the reader ends. *)
ReadFails ==
    /\ at \in {"querying", "numbering", "fetching", "describing"}
    /\ listed' = <<>> /\ rows' = <<>>
    /\ Reader("idle")
    /\ Fault

Startup == ReadState \/ CheckRegistry \/ CheckMarkers \/ CheckFails \/ Sync \/ SyncFails \/ Record

Next ==
    \/ \E t \in Tracks : Register(t) \/ Store(t) \/ AskTrack(t)
    \/ \E n \in 1..Cardinality(Tracks) : AskNumber(n)
    \/ Startup \/ Crash
    \/ Begin \/ Query \/ Number \/ Fetch \/ Describe \/ ReadFails

Spec == Init /\ [][Next]_vars
-----------------------------------------------------------------------------
States == {"populated", "skipped", "synced", "failed"}

TypeOK ==
    /\ stored \subseteq Tracks /\ registry \subseteq Tracks
    /\ status \in States \cup {"none"}
    /\ backfill \in States \cup {"starting", "checking", "checking markers", "syncing", "over"}
    /\ reader \in {"nothing", "all", "year", "archive", "track"}
    /\ at \in {"idle", "querying", "numbering", "fetching", "describing", "ended"}
    /\ faults \in 0..MaxFaults

Complete == stored \subseteq registry

(* A registry that was recorded as synced, or as needing nothing, lists    *)
(* every track that has markers from then on, whatever imports do beside   *)
(* the backfill and wherever it is broken off.                             *)
BackfillHonest == status \in {"synced", "skipped"} => Complete

(* What the comment on backfillTracksTable promises of any end that is     *)
(* recorded as done: the registry holds the tracks of the markers.         *)
DoneMeansComplete == status \in {"synced", "populated"} => Complete

Resolves(s) == IdAt(s.index) = s.track

(* The tables stood still while they were read, and agree. *)
Calm == registry = stored /\ since = [stored |-> stored, registry |-> registry]

(* The same of the listing of a year or a month, whose summaries the API   *)
(* describes as the numbered ones of the whole list.                       *)
YearResolves ==
    Calm /\ at = "ended" /\ reader = "year" => \A i \in DOMAIN listed : Resolves(listed[i])

(* Over a complete registry no two tracks of an archive get one number,    *)
(* and numbers rise with the tracks, although imports shift them between   *)
(* the pages.                                                              *)
NumbersRise ==
    since.stored \subseteq since.registry =>
        \A i \in 2..Len(listed) : listed[i-1].index < listed[i].index

(* An archive has every track once that had markers when it began. *)
ArchiveWhole ==
    /\ \A i \in 2..Len(listed) : listed[i-1].track < listed[i].track
    /\ at = "ended" /\ reader = "archive" =>
          since.stored \subseteq {listed[i].track : i \in DOMAIN listed}
=============================================================================
