---------------------------- MODULE TrackInfoCache ----------------------------
(***************************************************************************)
(* The cache of "how many tracks, and which is the last": the goroutine of *)
(* pkg/api/trackinfo_cache.go together with the two queries it refreshes   *)
(* from (pkg/database/tracks.go) and the imports that change their tables. *)
(*                                                                         *)
(* The loop owns the snapshot, one refresh goroutine at a time and one     *)
(* timer.  Until the first snapshot exists it attends to one request at a  *)
(* time and to nothing else.  Time is abstract: a fresh snapshot may       *)
(* expire at any moment, and the timer set for the ttl does not fire       *)
(* before the snapshot has expired.                                        *)
(***************************************************************************)
EXTENDS Integers, FiniteSets

CONSTANTS
    Clients,    \* callers of Get
    Ids,        \* track identifiers, as integers in the order of ORDER BY
    NoClient    \* "attending to nobody"

Assumption == Ids \subseteq Nat \ {0} /\ IsFiniteSet(Ids) /\ NoClient \notin Clients

VARIABLES
    stored,     \* the tracks that have markers (what CountTracks counts)
    registered, \* the rows of the tracks registry (what the index reads)
    snapshot,   \* the last accepted numbers
    fresh,      \* the snapshot is younger than the ttl
    refreshing, \* the loop's flag
    load,       \* the refresh goroutine and its result channel
    timer,      \* what the loop's timer is set for
    loop,       \* "selecting", "attending" or "stopped"
    attending,  \* whose request the loop waits with for the first snapshot
    quit,       \* Close was called
    phase,      \* phase[c]: where the caller of Get stands
    ended,      \* ended[c]: its context is done
    answer      \* answer[c]: its reply channel

dataVars == <<stored, registered>>
clientVars == <<phase, ended>>
vars == <<stored, registered, snapshot, fresh, refreshing, load, timer, loop,
          attending, quit, phase, ended, answer>>

None == 0
NoSnapshot == [ready |-> FALSE, total |-> 0, latest |-> None]
NoLoad == [at |-> "none", prev |-> NoSnapshot, got |-> NoSnapshot, failed |-> FALSE]
Unanswered == [kind |-> "none", total |-> 0, latest |-> None]
Found(s) == [kind |-> "data", total |-> s.total, latest |-> s.latest]
Failure == [kind |-> "error", total |-> 0, latest |-> None]

(* The row at 1-based position n of the registry, None when there is none. *)
IdAt(n) == IF n > Cardinality(registered) THEN None
           ELSE CHOOSE i \in registered :
                    Cardinality({j \in registered : j <= i}) = n

(* startRefresh(snapshot) *)
StartedLoad == [NoLoad EXCEPT !.at = "counting", !.prev = snapshot]
-----------------------------------------------------------------------------
Init ==
    /\ stored = {} /\ registered = {}
    /\ snapshot = NoSnapshot
    /\ fresh = FALSE
    /\ refreshing = TRUE
    /\ load = [NoLoad EXCEPT !.at = "counting"]
    /\ timer = "off"
    /\ loop = "selecting"
    /\ attending = NoClient
    /\ quit = FALSE
    /\ phase = [c \in Clients |-> "idle"]
    /\ ended = [c \in Clients |-> FALSE]
    /\ answer = [c \in Clients |-> Unanswered]

(* --- imports: the registry row first, the markers later or never -------- *)

Register(i) ==
    /\ i \notin registered
    /\ registered' = registered \cup {i}
    /\ UNCHANGED <<stored, snapshot, fresh, refreshing, load, timer, loop,
                   attending, quit, clientVars, answer>>

StoreMarkers(i) ==
    /\ i \in registered \ stored
    /\ stored' = stored \cup {i}
    /\ UNCHANGED <<registered, snapshot, fresh, refreshing, load, timer, loop,
                   attending, quit, clientVars, answer>>

(* --- the refresh goroutine: two queries, no transaction around them ----- *)

LoadStep(next) ==
    /\ load' = next
    /\ UNCHANGED <<dataVars, snapshot, fresh, refreshing, timer, loop,
                   attending, quit, clientVars, answer>>

CountTracks ==
    /\ load.at = "counting"
    /\ LET n == Cardinality(stored) IN
       LoadStep([load EXCEPT !.at = IF n = 0 THEN "done" ELSE "indexing",
                             !.got = [ready |-> TRUE, total |-> n, latest |-> None]])

GetTrackIDByIndex ==
    /\ load.at = "indexing"
    /\ LoadStep([load EXCEPT !.at = "done", !.got.latest = IdAt(load.got.total)])

(* A query fails or the load's timeout passes: the previous snapshot goes  *)
(* back with the error.                                                    *)
LoadFails ==
    /\ load.at \in {"counting", "indexing"}
    /\ LoadStep([load EXCEPT !.at = "done", !.got = load.prev, !.failed = TRUE])

(* --- the loop ------------------------------------------------------------ *)

(* Faulty variant: a failed first load leaves the timer alone. *)
AbsorbUnarmed ==
    /\ load.at = "done" /\ refreshing
    /\ refreshing' = FALSE
    /\ load' = NoLoad
    /\ IF load.failed /\ ~load.got.ready
       THEN UNCHANGED <<snapshot, fresh, timer>>
       ELSE snapshot' = load.got /\ fresh' = TRUE /\ timer' = "ttl"

(* Faulty variant: a failed refresh empties the cache. *)
AbsorbEmptying ==
    /\ load.at = "done" /\ refreshing
    /\ refreshing' = FALSE
    /\ load' = NoLoad
    /\ IF load.failed
       THEN snapshot' = NoSnapshot /\ fresh' = FALSE /\ timer' = "retry"
       ELSE snapshot' = load.got /\ fresh' = TRUE /\ timer' = "ttl"

(* The loop receives the refresh outcome. *)
Absorb ==
    /\ load.at = "done" /\ refreshing
    /\ refreshing' = FALSE
    /\ load' = NoLoad
    /\ IF load.failed /\ ~load.got.ready
       THEN timer' = "retry" /\ UNCHANGED <<snapshot, fresh>>
       ELSE /\ snapshot' = load.got
            /\ fresh' = IF load.failed THEN fresh ELSE TRUE
            /\ timer' = "ttl"

AbsorbIdle ==
    /\ loop = "selecting"
    /\ Absorb
    /\ UNCHANGED <<dataVars, loop, attending, quit, clientVars, answer>>

TriggerRefresh ==
    /\ refreshing' = TRUE
    /\ load' = IF refreshing THEN load ELSE StartedLoad

TimerFires ==
    /\ loop = "selecting"
    /\ timer = "retry" \/ (timer = "ttl" /\ ~fresh)
    /\ timer' = "off"
    /\ TriggerRefresh
    /\ UNCHANGED <<dataVars, snapshot, fresh, loop, attending, quit,
                   clientVars, answer>>

(* A request meets a snapshot: it is served whatever its age. *)
AnswerCached(c) ==
    /\ loop = "selecting"
    /\ phase[c] = "sending"
    /\ snapshot.ready
    /\ IF fresh THEN UNCHANGED <<refreshing, load>> ELSE TriggerRefresh
    /\ phase' = [phase EXCEPT ![c] = "waiting"]
    /\ answer' = [answer EXCEPT ![c] = Found(snapshot)]
    /\ UNCHANGED <<dataVars, snapshot, fresh, timer, loop, attending, quit, ended>>

Attend(c) ==
    /\ loop = "selecting"
    /\ phase[c] = "sending"
    /\ ~snapshot.ready
    /\ TriggerRefresh
    /\ phase' = [phase EXCEPT ![c] = "waiting"]
    /\ loop' = "attending"
    /\ attending' = c
    /\ UNCHANGED <<dataVars, snapshot, fresh, timer, quit, ended, answer>>

Attended(reply) ==
    /\ loop = "attending"
    /\ loop' = "selecting"
    /\ attending' = NoClient
    /\ answer' = [answer EXCEPT ![attending] = reply]
    /\ UNCHANGED <<dataVars, quit, clientVars>>

AttendOutcome ==
    /\ Absorb
    /\ Attended(IF load.failed /\ ~load.got.ready THEN Failure ELSE Found(load.got))

AttendOver ==
    /\ loop = "attending"
    /\ quit \/ ended[attending]
    /\ Attended(Failure)
    /\ UNCHANGED <<snapshot, fresh, refreshing, load, timer>>

Stop ==
    /\ loop = "selecting"
    /\ quit
    /\ loop' = "stopped"
    /\ timer' = "off"
    /\ UNCHANGED <<dataVars, snapshot, fresh, refreshing, load, attending, quit,
                   clientVars, answer>>

(* --- Get, Close and the clock -------------------------------------------- *)

Client(c, p) ==
    /\ phase' = [phase EXCEPT ![c] = p]
    /\ UNCHANGED <<dataVars, snapshot, fresh, refreshing, load, timer, loop,
                   attending, quit>>

Ask(c) == phase[c] = "idle" /\ Client(c, "sending") /\ UNCHANGED <<ended, answer>>

(* Get returns: with the reply, or because the context ended or the cache  *)
(* stopped; the three are branches of one select.                          *)
Return(c) ==
    /\ phase[c] \in {"sending", "waiting"}
    /\ \/ ended[c]
       \/ quit
       \/ answer[c] # Unanswered
    /\ Client(c, "returned")
    /\ UNCHANGED <<ended, answer>>

(* The caller asks again with a new request. *)
AskAgain(c) ==
    /\ phase[c] = "returned"
    /\ attending # c
    /\ Client(c, "idle")
    /\ ended' = [ended EXCEPT ![c] = FALSE]
    /\ answer' = [answer EXCEPT ![c] = Unanswered]

EndContext(c) ==
    /\ phase[c] \in {"sending", "waiting"} /\ ~ended[c]
    /\ ended' = [ended EXCEPT ![c] = TRUE]
    /\ UNCHANGED <<dataVars, snapshot, fresh, refreshing, load, timer, loop,
                   attending, quit, phase, answer>>

Close ==
    /\ ~quit
    /\ quit' = TRUE
    /\ UNCHANGED <<dataVars, snapshot, fresh, refreshing, load, timer, loop,
                   attending, clientVars, answer>>

Expire ==
    /\ fresh
    /\ fresh' = FALSE
    /\ UNCHANGED <<dataVars, snapshot, refreshing, load, timer, loop,
                   attending, quit, clientVars, answer>>

LoopStep ==
    \/ AbsorbIdle \/ TimerFires \/ AttendOutcome \/ AttendOver \/ Stop

Next ==
    \/ \E i \in Ids : Register(i) \/ StoreMarkers(i)
    \/ CountTracks \/ GetTrackIDByIndex \/ LoadFails
    \/ LoopStep
    \/ \E c \in Clients :
          \/ Ask(c) \/ Return(c) \/ AskAgain(c) \/ EndContext(c)
          \/ AnswerCached(c) \/ Attend(c)
    \/ Close \/ Expire

Spec == Init /\ [][Next]_vars
-----------------------------------------------------------------------------
Snapshot == [ready : BOOLEAN, total : 0..Cardinality(Ids), latest : Ids \cup {None}]

TypeOK ==
    /\ stored \subseteq registered /\ registered \subseteq Ids
    /\ snapshot \in Snapshot
    /\ fresh \in BOOLEAN /\ refreshing \in BOOLEAN /\ quit \in BOOLEAN
    /\ load \in [at : {"none", "counting", "indexing", "done"}, prev : Snapshot,
                 got : Snapshot, failed : BOOLEAN]
    /\ timer \in {"off", "retry", "ttl"}
    /\ loop \in {"selecting", "attending", "stopped"}
    /\ attending \in Clients \cup {NoClient}
    /\ phase \in [Clients -> {"idle", "sending", "waiting", "returned"}]
    /\ ended \in [Clients -> BOOLEAN]
    /\ answer \in [Clients -> [kind : {"none", "data", "error"},
                               total : 0..Cardinality(Ids), latest : Ids \cup {None}]]

(* The cache cannot fall asleep: until it is stopped a refresh is under    *)
(* way or the timer is set, whichever way the last refresh ended and       *)
(* whether a request or the timer had asked for it.                        *)
RefreshNeverStops == loop # "stopped" => refreshing \/ timer # "off"

(* Stale-but-useful: no failed refresh takes away what could be served,    *)
(* and an older count never replaces a newer one.                          *)
SnapshotOnlyImproves ==
    [][snapshot.ready => snapshot'.ready /\ snapshot'.total >= snapshot.total]_vars
=============================================================================
