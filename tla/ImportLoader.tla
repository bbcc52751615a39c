----------------------------- MODULE ImportLoader -----------------------------
(***************************************************************************)
(* The loaders that copy tracks from AtomFast and from the Safecast API    *)
(* (atomfastLoader and safecastAPILoader in chicha-isotope-map.go): one    *)
(* goroutine pages through the provider's list, newest first, and asks a   *)
(* worker to store what import_history does not know.  With an empty       *)
(* history the loader walks the whole list; later it polls and stops at    *)
(* the first few tracks it has already seen.                               *)
(*                                                                         *)
(* The provider's list is published, published - 1, ..., 1: a new track    *)
(* goes to the front and shifts the pages.  A fault is a failed request or *)
(* statement, or a crash of the process; the tables survive.               *)
(***************************************************************************)
EXTENDS Integers, Sequences, FiniteSetsExt

CONSTANTS
    Provider,       \* "AtomFast" or "Safecast"
    MaxSources,     \* bound on the tracks the provider publishes
    PageSize,       \* 20 in the source
    SeenLimit,      \* alreadySeenLimit: 5 in the source
    MaxFaults,      \* bound on the faults
    Broken,         \* the tracks whose payload cannot be imported
    PublishWhile    \* the phases in which the provider publishes

Assumption ==
    /\ Provider \in {"AtomFast", "Safecast"}
    /\ {MaxSources, PageSize, SeenLimit} \subseteq Nat \ {0}
    /\ MaxFaults \in Nat
    /\ Broken \subseteq 1..MaxSources
    /\ PublishWhile \subseteq {"boot", "initial", "refresh", "idle"}

Sources == 1..MaxSources

VARIABLES
    published,  \* how many tracks the provider lists
    history,    \* history[s]: the status in import_history, "none" without a row
    stored,     \* sources whose markers are in the database
    labelled,   \* sources whose device name and user are in the database
    phase,      \* where run() is
    page,       \* the page fetched last, 0 before the first one
    queue,      \* what is left of that page
    seen,       \* alreadySeen
    fresh,      \* newCount
    source,     \* the track the worker imports, 0 when it waits
    step,       \* index in Order of the worker's next step
    faults

vars == <<published, history, stored, labelled, phase, page, queue, seen, fresh,
          source, step, faults>>
tables == <<history, stored, labelled>>

(* Faulty variant: the history is written first. *)
OrderHistoryFirst == <<"history", "markers", "metadata">>

(* The steps of storeTrack and of storeImport. *)
Order == IF Provider = "AtomFast" THEN <<"markers", "history", "metadata">>
                                  ELSE <<"markers", "metadata", "history">>

(* Page p of the provider's list as it is now. *)
Page(p) ==
    LET first == published - (p - 1) * PageSize
        size == Min({PageSize, Max({first, 0})})
    IN  [i \in 1..size |-> first - i + 1]

Known(s) == history[s] # "none"

(* Faulty variant: the next walk goes on after the page of the last one. *)
EnterKeepingPage(ph) ==
    /\ phase' = ph
    /\ seen' = 0 /\ fresh' = 0 /\ queue' = <<>>
    /\ UNCHANGED page

(* A walk over the list starts, in phase ph. *)
Enter(ph) ==
    /\ phase' = ph
    /\ page' = 0 /\ seen' = 0 /\ fresh' = 0 /\ queue' = <<>>

(* The walk ends: Safecast refreshes right after its backfill. *)
Finish == Enter(IF phase = "initial" /\ Provider = "Safecast" THEN "refresh" ELSE "idle")

WorkerWaits == source' = 0 /\ step' = 0

Fault == faults < MaxFaults /\ faults' = faults + 1
-----------------------------------------------------------------------------
Init ==
    /\ published \in 0..MaxSources
    /\ history = [s \in Sources |-> "none"]
    /\ stored = {} /\ labelled = {}
    /\ phase = "boot" /\ page = 0 /\ queue = <<>> /\ seen = 0 /\ fresh = 0
    /\ source = 0 /\ step = 0
    /\ faults = 0

(* runInitial and needsBackfill: the whole list only without any history.  *)
(* A history that cannot be read counts as one.                            *)
Boot ==
    /\ phase = "boot"
    /\ LET later == IF Provider = "Safecast" THEN "refresh" ELSE "idle" IN
          \/ /\ Enter(IF \E s \in Sources : Known(s) THEN later ELSE "initial")
             /\ UNCHANGED faults
          \/ Enter(later) /\ Fault
    /\ UNCHANGED <<published, tables, source, step>>

(* The ticker. *)
Tick ==
    /\ phase = "idle"
    /\ Enter("refresh")
    /\ UNCHANGED <<published, tables, source, step, faults>>

Walking == phase \in {"initial", "refresh"} /\ queue = <<>> /\ source = 0

(* A refresh goes on only after a page with something new on it. *)
Exhausted == phase = "refresh" /\ page > 0 /\ fresh = 0

FetchPage ==
    /\ Walking /\ ~Exhausted
    /\ IF Page(page + 1) = <<>>
       THEN Finish
       ELSE /\ queue' = Page(page + 1)
            /\ page' = page + 1
            /\ fresh' = 0
            /\ UNCHANGED <<phase, seen>>
    /\ UNCHANGED <<published, tables, source, step, faults>>

PageFails ==
    /\ Walking /\ ~Exhausted
    /\ Finish
    /\ Fault
    /\ UNCHANGED <<published, tables, source, step>>

NothingNew ==
    /\ Walking /\ Exhausted
    /\ Enter("idle")
    /\ UNCHANGED <<published, tables, source, step, faults>>

(* processTrackIfNew, processImportIfNew: a track with history is skipped, *)
(* and a refresh stops at the SeenLimit-th of them.                        *)
Skip ==
    /\ source = 0 /\ queue # <<>> /\ Known(Head(queue))
    /\ IF phase = "refresh" /\ seen + 1 >= SeenLimit
       THEN Enter("idle")
       ELSE /\ queue' = Tail(queue)
            /\ seen' = IF phase = "refresh" THEN seen + 1 ELSE seen
            /\ UNCHANGED <<phase, page, fresh>>
    /\ UNCHANGED <<published, tables, source, step, faults>>

(* Faulty variant: only the tracks of the first page are looked up. *)
RequestUnchecked ==
    /\ source = 0 /\ queue # <<>> /\ (Known(Head(queue)) => page > 1)
    /\ source' = Head(queue) /\ step' = 1
    /\ queue' = Tail(queue)
    /\ UNCHANGED <<published, tables, phase, page, seen, fresh, faults>>

Request ==
    /\ source = 0 /\ queue # <<>> /\ ~Known(Head(queue))
    /\ source' = Head(queue) /\ step' = 1
    /\ queue' = Tail(queue)
    /\ UNCHANGED <<published, tables, phase, page, seen, fresh, faults>>

LookupFails ==
    /\ source = 0 /\ queue # <<>>
    /\ queue' = Tail(queue)
    /\ Fault
    /\ UNCHANGED <<published, tables, phase, page, seen, fresh, source, step>>

(* The worker cannot import the payload: Safecast records that. *)
Reject ==
    /\ step = 1 /\ source \in Broken
    /\ history' = IF Provider = "Safecast"
                  THEN [history EXCEPT ![source] = "skipped"] ELSE history
    /\ WorkerWaits
    /\ UNCHANGED <<published, stored, labelled, phase, page, queue, seen, fresh, faults>>

(* One step of the worker; EnsureImportHistory keeps an existing row. *)
Work ==
    /\ step > 0 /\ (step = 1 => source \notin Broken)
    /\ stored' = IF Order[step] = "markers" THEN stored \cup {source} ELSE stored
    /\ labelled' = IF Order[step] = "metadata" THEN labelled \cup {source} ELSE labelled
    /\ history' = IF Order[step] = "history" /\ ~Known(source)
                  THEN [history EXCEPT ![source] = "imported"] ELSE history
    /\ IF step = Len(Order) THEN WorkerWaits /\ fresh' = fresh + 1
                            ELSE step' = step + 1 /\ UNCHANGED <<source, fresh>>
    /\ UNCHANGED <<published, phase, page, queue, seen, faults>>

(* A step fails: the walk skips the track. *)
WorkFails ==
    /\ step > 0
    /\ WorkerWaits
    /\ Fault
    /\ UNCHANGED <<published, tables, phase, page, queue, seen, fresh>>

Crash ==
    /\ phase # "boot"
    /\ Enter("boot")
    /\ WorkerWaits
    /\ Fault
    /\ UNCHANGED <<published, tables>>

Publish ==
    /\ published < MaxSources
    /\ phase \in PublishWhile
    /\ published' = published + 1
    /\ UNCHANGED <<tables, phase, page, queue, seen, fresh, source, step, faults>>

Next ==
    \/ Boot \/ Tick \/ FetchPage \/ PageFails \/ NothingNew
    \/ Skip \/ Request \/ LookupFails
    \/ Reject \/ Work \/ WorkFails
    \/ Crash \/ Publish

Spec == Init /\ [][Next]_vars

(* The loader's goroutine and its worker run on and the ticker fires.      *)
(* Faults and new tracks are not owed to anybody.                          *)
Progress == Boot \/ Tick \/ FetchPage \/ NothingNew \/ Skip \/ Request \/ Reject \/ Work
-----------------------------------------------------------------------------
TypeOK ==
    /\ published \in 0..MaxSources
    /\ history \in [Sources -> {"none", "imported", "skipped"}]
    /\ stored \subseteq Sources /\ labelled \subseteq Sources
    /\ phase \in {"boot", "initial", "refresh", "idle"}
    /\ page \in 0..MaxSources
    /\ queue \in Seq(1..published) /\ Len(queue) <= PageSize
    /\ seen \in 0..Max({SeenLimit - 1, 0}) /\ fresh \in 0..PageSize
    /\ source \in 0..published /\ step \in 0..3 /\ (source = 0 <=> step = 0)
    /\ faults \in 0..MaxFaults

(* What import_history says is so, after any failure or crash: an imported *)
(* track has its markers, a skipped one could not be imported.             *)
HistoryHonest ==
    \A s \in Sources :
        /\ history[s] = "imported" => s \in stored
        /\ history[s] = "skipped" => s \in Broken

(* A track with history is not fetched again, although new tracks shift    *)
(* the pages while the loader walks them, and its row does not change.     *)
ImportedOnce ==
    [][\A s \in Sources : Known(s) => history'[s] = history[s] /\ (source' = s => source = s)]_vars

(* The newest track gets in whatever failed before it. *)
NewestImported ==
    <>[](published > 0 /\ published \notin Broken => history[published] = "imported")
=============================================================================
