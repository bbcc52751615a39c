--------------------------- MODULE ArchiveGenerator ---------------------------
(***************************************************************************)
(* The JSON archive of pkg/jsonarchive/generator.go: a coordinator that    *)
(* owns the current result and the refresh timer, a builder that writes    *)
(* the archive, the callers of Fetch, and the directory with the archive   *)
(* and its temporary files.  Signals to build go through a channel of      *)
(* capacity one and are dropped when it is full; results come back through *)
(* another one of capacity one.                                            *)
(*                                                                         *)
(* The refresh interval is positive, as every cadence of frequency.go is.  *)
(* The age of the archive is one bit; the timer set from its modification  *)
(* time does not fire before the archive is due.                           *)
(***************************************************************************)
EXTENDS Integers, FiniteSets

CONSTANTS
    Callers,    \* of Fetch
    NoCaller,   \* the coordinator waits for nobody
    MaxCrashes  \* bound: restarts of the process

Assumption == NoCaller \notin Callers /\ MaxCrashes \in Nat

VARIABLES
    archive,    \* the file at destPath: "none" or "complete"
    due,        \* the newest archive is older than the refresh interval
    temps,      \* number of json-*.tgz files
    requested,  \* buildRequests holds a signal
    builder,    \* "idle", "building", "removed" (between Remove and Rename), "reporting", "gone"
    outcome,    \* the result the builder is about to report
    result,     \* buildResults
    current,    \* the coordinator's current result
    timer,      \* "off", "aligned" (to the modification time) or "plain"
    coord,      \* "selecting", "waiting" or "stopped"
    serving,    \* whom the coordinator waits with
    stopping,   \* the context of Start is done
    phase,      \* phase[c]: where the caller of Fetch stands
    ended,      \* ended[c]: its context is done
    answer,     \* answer[c]: its response channel
    crashes

diskVars == <<archive, due, temps>>
buildVars == <<builder, outcome>>
callVars == <<phase, ended, answer>>
vars == <<archive, due, temps, requested, builder, outcome, result, current, timer,
          coord, serving, stopping, phase, ended, answer, crashes>>

(* A result: none yet, an archive, or an error. *)
Results == {"none", "ok", "error"}

(* What Start does with the directory it finds. *)
Started ==
    /\ temps' = 0
    /\ requested' = (archive = "none" \/ due)
    /\ builder' = "idle" /\ outcome' = "none" /\ result' = "none"
    /\ current' = IF archive = "none" THEN "none" ELSE "ok"
    /\ timer' = IF archive = "none" \/ due THEN "plain" ELSE "aligned"
    /\ coord' = "selecting" /\ serving' = NoCaller
    /\ phase' = [c \in Callers |-> "idle"]
    /\ ended' = [c \in Callers |-> FALSE]
    /\ answer' = [c \in Callers |-> "none"]
    /\ UNCHANGED <<archive, due, stopping>>
-----------------------------------------------------------------------------
Init ==
    /\ archive \in {"none", "complete"}
    /\ due \in {FALSE, archive = "complete"}
    /\ temps = 0
    /\ requested = (archive = "none" \/ due)
    /\ builder = "idle" /\ outcome = "none" /\ result = "none"
    /\ current = IF archive = "none" THEN "none" ELSE "ok"
    /\ timer = IF archive = "none" \/ due THEN "plain" ELSE "aligned"
    /\ coord = "selecting" /\ serving = NoCaller
    /\ stopping = FALSE
    /\ phase = [c \in Callers |-> "idle"]
    /\ ended = [c \in Callers |-> FALSE]
    /\ answer = [c \in Callers |-> "none"]
    /\ crashes = 0

(* --- the builder ---------------------------------------------------------- *)

Builder(state) ==
    /\ builder' = state
    /\ UNCHANGED <<current, timer, coord, serving, stopping, callVars, crashes>>

(* buildArchive up to the temporary file. *)
BuildStarts ==
    /\ builder = "idle" /\ requested
    /\ requested' = FALSE
    /\ temps' = temps + 1
    /\ Builder("building")
    /\ UNCHANGED <<archive, due, outcome, result>>

Built(end) ==
    /\ temps' = temps - 1
    /\ outcome' = end
    /\ Builder("reporting")
    /\ UNCHANGED <<requested, result>>

(* A failed query, write or close, no tracks, or a context that is done:   *)
(* cleanup removes the temporary file.                                     *)
BuildFails ==
    /\ builder = "building"
    /\ Built("error")
    /\ UNCHANGED <<archive, due>>

(* os.Rename replaces the archive in one step; the file is then examined,  *)
(* which may fail.                                                         *)
Replace ==
    /\ builder = "building"
    /\ archive' = "complete" /\ due' = FALSE
    /\ \E end \in {"ok", "error"} : Built(end)

(* os.Rename fails: replaceFile removes the archive and tries again. *)
RemoveOld ==
    /\ builder = "building"
    /\ archive' = "none"
    /\ Builder("removed")
    /\ UNCHANGED <<due, temps, requested, outcome, result>>

(* Faulty variant: the error of the second rename is dropped. *)
RenameUnchecked ==
    /\ builder = "removed"
    /\ \/ archive' = "complete" /\ due' = FALSE
       \/ UNCHANGED <<archive, due>>
    /\ Built("ok")

RenameAgain ==
    /\ builder = "removed"
    /\ \/ archive' = "complete" /\ due' = FALSE /\ \E end \in {"ok", "error"} : Built(end)
       \/ UNCHANGED <<archive, due>> /\ Built("error")

Report ==
    /\ builder = "reporting" /\ result = "none"
    /\ result' = outcome
    /\ outcome' = "none"
    /\ Builder("idle")
    /\ UNCHANGED <<diskVars, requested>>

BuilderStops ==
    /\ stopping /\ builder \in {"idle", "reporting"}
    /\ outcome' = "none"
    /\ Builder("gone")
    /\ UNCHANGED <<diskVars, requested, result>>

(* --- the coordinator ------------------------------------------------------ *)

Take ==
    /\ result # "none"
    /\ current' = result
    /\ result' = "none"
    /\ timer' = IF result = "ok" THEN "aligned" ELSE "plain"

Receive ==
    /\ coord = "selecting"
    /\ Take
    /\ UNCHANGED <<diskVars, requested, buildVars, coord, serving, stopping, callVars, crashes>>

(* Faulty variant: the timer runs out and asks for nothing. *)
TimerIgnored ==
    /\ coord = "selecting"
    /\ timer = "plain" \/ (timer = "aligned" /\ due)
    /\ timer' = "off"
    /\ UNCHANGED <<diskVars, requested, buildVars, result, current, coord, serving,
                   stopping, callVars, crashes>>

TimerFires ==
    /\ coord = "selecting"
    /\ timer = "plain" \/ (timer = "aligned" /\ due)
    /\ requested' = TRUE
    /\ timer' = "off"
    /\ UNCHANGED <<diskVars, buildVars, result, current, coord, serving, stopping,
                   callVars, crashes>>

Accept(c) ==
    /\ coord = "selecting"
    /\ phase[c] = "sending"
    /\ phase' = [phase EXCEPT ![c] = "waiting"]
    /\ UNCHANGED <<diskVars, buildVars, result, current, timer, stopping, ended, crashes>>

(* The archive is at hand: it is served, and rebuilt when it is due. *)
Serve(c) ==
    /\ Accept(c)
    /\ current = "ok"
    /\ requested' = (requested \/ due)
    /\ answer' = [answer EXCEPT ![c] = "ok"]
    /\ UNCHANGED <<coord, serving>>

(* Nothing or an error is at hand: the coordinator waits for a build. *)
Await(c) ==
    /\ Accept(c)
    /\ current # "ok"
    /\ requested' = TRUE
    /\ coord' = "waiting" /\ serving' = c
    /\ UNCHANGED answer

AwaitOver ==
    /\ coord = "waiting"
    /\ Take
    /\ answer' = [answer EXCEPT ![serving] = result]
    /\ coord' = "selecting" /\ serving' = NoCaller
    /\ UNCHANGED <<diskVars, requested, buildVars, stopping, phase, ended, crashes>>

CoordStops ==
    /\ stopping /\ coord # "stopped"
    /\ coord' = "stopped" /\ serving' = NoCaller
    /\ timer' = "off"
    /\ answer' = IF coord = "waiting" THEN [answer EXCEPT ![serving] = "error"] ELSE answer
    /\ UNCHANGED <<diskVars, requested, buildVars, result, current, stopping,
                   phase, ended, crashes>>

(* --- Fetch ----------------------------------------------------------------- *)

Caller(c, p) ==
    /\ phase' = [phase EXCEPT ![c] = p]
    /\ UNCHANGED <<diskVars, requested, buildVars, result, current, timer, coord,
                   serving, stopping, crashes>>

Fetch(c) == phase[c] = "idle" /\ Caller(c, "sending") /\ UNCHANGED <<ended, answer>>

Return(c) ==
    /\ phase[c] \in {"sending", "waiting"}
    /\ ended[c] \/ coord = "stopped" \/ answer[c] # "none"
    /\ Caller(c, "returned")
    /\ UNCHANGED <<ended, answer>>

FetchAgain(c) ==
    /\ phase[c] = "returned" /\ serving # c
    /\ Caller(c, "idle")
    /\ ended' = [ended EXCEPT ![c] = FALSE]
    /\ answer' = [answer EXCEPT ![c] = "none"]

EndContext(c) ==
    /\ phase[c] \in {"sending", "waiting"} /\ ~ended[c]
    /\ ended' = [ended EXCEPT ![c] = TRUE]
    /\ UNCHANGED <<diskVars, requested, buildVars, result, current, timer, coord,
                   serving, stopping, phase, answer, crashes>>

(* --- time, shutdown, crash -------------------------------------------------- *)

Expire ==
    /\ ~due
    /\ due' = TRUE
    /\ UNCHANGED <<archive, temps, requested, buildVars, result, current, timer, coord,
                   serving, stopping, callVars, crashes>>

Shutdown ==
    /\ ~stopping
    /\ stopping' = TRUE
    /\ UNCHANGED <<diskVars, requested, buildVars, result, current, timer, coord,
                   serving, callVars, crashes>>

(* The process dies, possibly in the middle of a build, and starts again. *)
Crash ==
    /\ ~stopping
    /\ crashes < MaxCrashes
    /\ crashes' = crashes + 1
    /\ Started

Coordinate ==
    \/ Receive \/ TimerFires \/ AwaitOver \/ CoordStops
    \/ \E c \in Callers : Serve(c) \/ Await(c)

Build == BuildFails \/ Replace \/ RemoveOld \/ RenameAgain

Next ==
    \/ BuildStarts \/ Build \/ Report \/ BuilderStops
    \/ Coordinate
    \/ \E c \in Callers : Fetch(c) \/ Return(c) \/ FetchAgain(c) \/ EndContext(c)
    \/ Expire \/ Shutdown \/ Crash

Spec == Init /\ [][Next]_vars

(* Both goroutines run, time passes, a build ends and does not fail for    *)
(* ever; the coordinator's select picks among ready branches at random.    *)
Fairness ==
    /\ WF_vars(BuildStarts) /\ WF_vars(Build) /\ SF_vars(Replace) /\ WF_vars(Report)
    /\ SF_vars(Receive) /\ SF_vars(TimerFires) /\ WF_vars(AwaitOver) /\ SF_vars(CoordStops)
    /\ \A c \in Callers : WF_vars(Return(c)) /\ SF_vars(Serve(c) \/ Await(c))
-----------------------------------------------------------------------------
TypeOK ==
    /\ archive \in {"none", "complete"} /\ due \in BOOLEAN /\ temps \in 0..1
    /\ requested \in BOOLEAN
    /\ builder \in {"idle", "building", "removed", "reporting", "gone"}
    /\ outcome \in Results /\ result \in Results /\ current \in Results
    /\ timer \in {"off", "aligned", "plain"}
    /\ coord \in {"selecting", "waiting", "stopped"}
    /\ serving \in Callers \cup {NoCaller}
    /\ stopping \in BOOLEAN
    /\ phase \in [Callers -> {"idle", "sending", "waiting", "returned"}]
    /\ ended \in [Callers -> BOOLEAN]
    /\ answer \in [Callers -> Results]
    /\ crashes \in 0..MaxCrashes
    /\ (coord = "waiting") = (serving # NoCaller)
    /\ (builder = "reporting") = (outcome # "none")

(* A caller told that the archive is ready finds it, unless the fallback   *)
(* of replaceFile has just taken it away.                                  *)
ReadyMeansThere ==
    current = "ok" => \/ archive = "complete" \/ stopping
                     \/ builder = "removed" \/ "error" \in {outcome, result}

(* An archive that is missing or due is replaced in the end. *)
EventuallyFresh ==
    (archive = "none" \/ due) ~> (stopping \/ (archive = "complete" /\ ~due))
=============================================================================
