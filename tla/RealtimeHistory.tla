---------------------------- MODULE RealtimeHistory ----------------------------
(***************************************************************************)
(* Live devices from the upstream feed to permanent tracks: the poller of  *)
(* pkg/safecast-realtime/fetcher.go (Start) and the promotion of silent    *)
(* devices in pkg/database/database.go (PromoteStaleRealtime).             *)
(*                                                                         *)
(* The feed serves the newest reading of every device, however old.  Each  *)
(* poll stores what it serves and then starts a promotion in a goroutine   *)
(* of its own, so promotions overlap.  A promotion is several jobs: one    *)
(* lists the silent devices, and for each device one reads its history     *)
(* and another inserts it as markers and deletes the device's live rows.   *)
(*                                                                         *)
(* A reading is its number in the device's own order; a mobile device      *)
(* reports each one from a new place.  The markers' unique key then is the *)
(* device and the number.  The engines with that key differ in two ways,   *)
(* which are the constants Transactional and Replacing.                    *)
(***************************************************************************)
EXTENDS Integers, FiniteSets

CONSTANTS
    Devices,
    Mobile,         \* the devices that change their place
    Runs,           \* promotions that may be under way at once
    Transactional,  \* the move is a transaction (pgx)
    Replacing,      \* a reading served again replaces its row (duckdb)
    Nobody,         \* no device
    MaxReadings,    \* bound: readings a device ever reports
    MaxCrashes      \* bound: restarts of the process

Assumption ==
    /\ IsFiniteSet(Devices) /\ Mobile \subseteq Devices /\ Nobody \notin Devices
    /\ {Transactional, Replacing} \subseteq BOOLEAN
    /\ {MaxReadings, MaxCrashes} \subseteq Nat

VARIABLES
    served,     \* served[d]: the reading the feed serves, 0 for none
    live,       \* live[d]: the device's rows of realtime_measurements
    recent,     \* recent[d]: a row of it was fetched within the last day
    markers,    \* markers[d]: its readings in the markers table
    poller,     \* "waiting" for the ticker, "fetching" or "storing"
    batch,      \* the readings of this poll still to be stored
    todo,       \* todo[p]: devices the promotion has yet to visit
    held,       \* held[p]: the device and rows it is about to move
    gathering,  \* the promotions that have not listed the devices yet
    crashes

feedVars == <<served, recent>>
pollVars == <<poller, batch>>
runVars == <<todo, held, gathering>>
vars == <<served, live, recent, markers, poller, batch, todo, held, gathering, crashes>>

Nothing == [device |-> Nobody, rows |-> {}]

(* moved(ms) *)
Moved(d, rows) == d \in Mobile /\ Cardinality(rows) > 1

Idle(p) == p \notin gathering /\ todo[p] = {} /\ held[p] = Nothing
-----------------------------------------------------------------------------
Init ==
    /\ served = [d \in Devices |-> 0]
    /\ live = [d \in Devices |-> {}]
    /\ recent = [d \in Devices |-> FALSE]
    /\ markers = [d \in Devices |-> {}]
    /\ poller = "fetching"
    /\ batch = {}
    /\ todo = [p \in Runs |-> {}]
    /\ held = [p \in Runs |-> Nothing]
    /\ gathering = {}
    /\ crashes = 0

(* --- the world ----------------------------------------------------------- *)

Report(d) ==
    /\ served[d] < MaxReadings
    /\ served' = [served EXCEPT ![d] = @ + 1]
    /\ UNCHANGED <<live, recent, markers, pollVars, runVars, crashes>>

(* A day passes in which no row of the device is written. *)
Age(d) ==
    /\ recent[d]
    /\ recent' = [recent EXCEPT ![d] = FALSE]
    /\ UNCHANGED <<served, live, markers, pollVars, runVars, crashes>>

(* --- the poller ---------------------------------------------------------- *)

Poll(state, readings) ==
    /\ poller' = state
    /\ batch' = readings
    /\ UNCHANGED <<served, markers, crashes>>

Tick ==
    /\ poller = "waiting"
    /\ Poll("fetching", {})
    /\ UNCHANGED <<live, recent, runVars>>

Fetch ==
    /\ poller = "fetching"
    /\ Poll("storing", {<<d, served[d]>> : d \in {e \in Devices : served[e] > 0}})
    /\ UNCHANGED <<live, recent, runVars>>

FetchFails ==
    /\ poller = "fetching"
    /\ Poll("waiting", {})
    /\ UNCHANGED <<live, recent, runVars>>

(* InsertRealtimeMeasurement of one reading: a new row, a row written      *)
(* again, or ON CONFLICT DO NOTHING.                                       *)
Insert(d, n) ==
    /\ <<d, n>> \in batch
    /\ Poll("storing", batch \ {<<d, n>>})
    /\ live' = [live EXCEPT ![d] = @ \cup {n}]
    /\ recent' = [recent EXCEPT ![d] = @ \/ Replacing \/ n \notin live[d]]
    /\ UNCHANGED runVars

(* The writer counts the error and goes on with the next reading. *)
InsertFails(d, n) ==
    /\ <<d, n>> \in batch
    /\ Poll("storing", batch \ {<<d, n>>})
    /\ UNCHANGED <<live, recent, runVars>>

(* The batch is stored: `go db.PromoteStaleRealtime`. *)
Launch(p) ==
    /\ poller = "storing" /\ batch = {}
    /\ Idle(p)
    /\ gathering' = gathering \cup {p}
    /\ Poll("waiting", {})
    /\ UNCHANGED <<live, recent, todo, held>>

(* --- a promotion --------------------------------------------------------- *)

Gather(p) ==
    /\ p \in gathering
    /\ gathering' = gathering \ {p}
    /\ todo' = [todo EXCEPT ![p] = {d \in Devices : live[d] # {} /\ ~recent[d]}]
    /\ UNCHANGED <<feedVars, live, markers, pollVars, held, crashes>>

(* fetchRealtimeByDevice; a device that stayed in place is passed over. *)
FetchRows(p, d) ==
    /\ held[p] = Nothing /\ d \in todo[p]
    /\ todo' = [todo EXCEPT ![p] = @ \ {d}]
    /\ held' = [held EXCEPT ![p] = IF Moved(d, live[d])
                                   THEN [device |-> d, rows |-> live[d]] ELSE @]
    /\ UNCHANGED <<feedVars, live, markers, pollVars, gathering, crashes>>

(* The move job: every fetched row becomes a marker, then every live row   *)
(* of the device is deleted.                                               *)
Move(p) ==
    /\ held[p] # Nothing
    /\ LET d == held[p].device IN
       /\ held[p].rows \cap markers[d] = {}
       /\ markers' = [markers EXCEPT ![d] = @ \cup held[p].rows]
       /\ live' = [live EXCEPT ![d] = {}]
    /\ held' = [held EXCEPT ![p] = Nothing]
    /\ UNCHANGED <<feedVars, pollVars, todo, gathering, crashes>>

(* The promotion ends with an error. *)
Abort(p) ==
    /\ todo' = [todo EXCEPT ![p] = {}]
    /\ held' = [held EXCEPT ![p] = Nothing]
    /\ gathering' = gathering \ {p}
    /\ UNCHANGED <<feedVars, live, pollVars, crashes>>

(* Faulty variant: the rows are deleted before the markers are written. *)
MoveFailsAfterDelete(p) ==
    /\ held[p] # Nothing
    /\ LET d == held[p].device IN
       \E written \in SUBSET (held[p].rows \ markers[d]) :
          markers' = [markers EXCEPT ![d] = @ \cup written]
    /\ live' = [live EXCEPT ![held[p].device] = {}]
    /\ todo' = [todo EXCEPT ![p] = {}]
    /\ held' = [held EXCEPT ![p] = Nothing]
    /\ gathering' = gathering \ {p}
    /\ UNCHANGED <<feedVars, pollVars, crashes>>

(* A statement of the move fails, at the latest the insert that meets the  *)
(* unique key; without a transaction the markers written so far remain.    *)
MoveFails(p) ==
    /\ held[p] # Nothing
    /\ LET d == held[p].device IN
       \E written \in SUBSET (held[p].rows \ markers[d]) :
          /\ Transactional => written = {}
          /\ markers' = [markers EXCEPT ![d] = @ \cup written]
    /\ Abort(p)

(* Listing the devices or reading a history fails. *)
ReadFails(p) ==
    /\ ~Idle(p) /\ held[p] = Nothing
    /\ Abort(p)
    /\ UNCHANGED markers

(* --- the process dies and starts again, possibly in the middle of a move - *)

Crash ==
    /\ crashes < MaxCrashes
    /\ crashes' = crashes + 1
    /\ poller' = "fetching" /\ batch' = {}
    /\ todo' = [p \in Runs |-> {}]
    /\ held' = [p \in Runs |-> Nothing]
    /\ gathering' = {}
    /\ UNCHANGED <<feedVars, live>>
    /\ \/ UNCHANGED markers
       \/ /\ ~Transactional
          /\ \E p \in Runs : \E written \in SUBSET held[p].rows :
                /\ held[p] # Nothing
                /\ written \cap markers[held[p].device] = {}
                /\ markers' = [markers EXCEPT ![held[p].device] = @ \cup written]

Promotion(p) ==
    \/ Gather(p) \/ Move(p) \/ MoveFails(p) \/ ReadFails(p)
    \/ \E d \in Devices : FetchRows(p, d)

Next ==
    \/ \E d \in Devices : Report(d) \/ Age(d)
    \/ Tick \/ Fetch \/ FetchFails
    \/ \E d \in Devices, n \in 1..MaxReadings : Insert(d, n) \/ InsertFails(d, n)
    \/ \E p \in Runs : Launch(p) \/ Promotion(p)
    \/ Crash

Spec == Init /\ [][Next]_vars
-----------------------------------------------------------------------------
Readings == 1..MaxReadings

TypeOK ==
    /\ served \in [Devices -> 0..MaxReadings]
    /\ live \in [Devices -> SUBSET Readings]
    /\ recent \in [Devices -> BOOLEAN]
    /\ markers \in [Devices -> SUBSET Readings]
    /\ poller \in {"waiting", "fetching", "storing"}
    /\ batch \subseteq Devices \X Readings
    /\ todo \in [Runs -> SUBSET Devices]
    /\ held \in [Runs -> [device : Devices, rows : SUBSET Readings] \cup {Nothing}]
    /\ gathering \subseteq Runs
    /\ crashes \in 0..MaxCrashes

(* A live row disappears only by becoming a marker, or because it was      *)
(* written after a promotion had read the history of its device.           *)
NothingVanishes ==
    [][\A d \in Devices : \A n \in live[d] \ live'[d] :
          \/ n \in markers'[d]
          \/ \E p \in Runs : held[p].device = d /\ n \notin held[p].rows]_vars
=============================================================================
