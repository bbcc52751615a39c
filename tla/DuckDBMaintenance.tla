--------------------------- MODULE DuckDBMaintenance ---------------------------
(***************************************************************************)
(* The housekeeping of a DuckDB file after an archive was imported:        *)
(* queueDuckDBMaintenanceAfterImport in chicha-isotope-map.go and the      *)
(* queue and worker of duckDBMaintenance in pkg/database/database.go.      *)
(*                                                                         *)
(* An import asks for a pass with a context of 30 seconds, which it        *)
(* cancels as soon as the request is in the queue; another goroutine waits *)
(* for the answer and logs it.  A pass runs as an archive job of the       *)
(* serialized pipeline, here one step that takes its time.                 *)
(***************************************************************************)
EXTENDS Integers, Sequences

CONSTANTS
    Imports,    \* archive imports that end, one request each
    QueueSize   \* 4 in the source

Assumption == QueueSize \in Nat \ {0}

VARIABLES
    jobs,       \* the queue
    caller,     \* caller[i]: the import in queueDuckDBMaintenanceAfterImport
    ended,      \* ended[i]: the context of the request is done
    worker,     \* <<i>> while the pass for i runs, <<>> between passes
    done,       \* done[i]: what was sent on the request's channel
    logged      \* the requests whose answer was logged

vars == <<jobs, caller, ended, worker, done, logged>>

Init ==
    /\ jobs = <<>> /\ worker = <<>>
    /\ caller = [i \in Imports |-> "importing"]
    /\ ended = [i \in Imports |-> FALSE]
    /\ done = [i \in Imports |-> "nothing"]
    /\ logged = {}

(* The archive is stored; enqueue starts to look for room in the queue. *)
Schedule(i) ==
    /\ caller[i] = "importing"
    /\ caller' = [caller EXCEPT ![i] = "offering"]
    /\ UNCHANGED <<jobs, ended, worker, done, logged>>

Enqueue(i) ==
    /\ caller[i] = "offering"
    /\ Len(jobs) < QueueSize
    /\ jobs' = Append(jobs, i)
    /\ caller' = [caller EXCEPT ![i] = "queued"]
    /\ UNCHANGED <<ended, worker, done, logged>>

(* The 30 seconds are over. *)
Timeout(i) ==
    /\ caller[i] = "offering" /\ ~ended[i]
    /\ ended' = [ended EXCEPT ![i] = TRUE]
    /\ UNCHANGED <<jobs, caller, worker, done, logged>>

(* Faulty variant: the request is given up without a word. *)
GiveUpSilently(i) ==
    /\ caller[i] = "offering" /\ ended[i]
    /\ caller' = [caller EXCEPT ![i] = "gave up"]
    /\ UNCHANGED <<jobs, ended, worker, done, logged>>

GiveUp(i) ==
    /\ caller[i] = "offering" /\ ended[i]
    /\ done' = [done EXCEPT ![i] = "cancelled"]
    /\ caller' = [caller EXCEPT ![i] = "gave up"]
    /\ UNCHANGED <<jobs, ended, worker, logged>>

(* queueDuckDBMaintenanceAfterImport returns, and cancels on its way out. *)
Return(i) ==
    /\ caller[i] = "queued"
    /\ caller' = [caller EXCEPT ![i] = "returned"]
    /\ ended' = [ended EXCEPT ![i] = TRUE]
    /\ UNCHANGED <<jobs, worker, done, logged>>

Drop ==
    /\ worker = <<>> /\ jobs # <<>>
    /\ ended[Head(jobs)]
    /\ jobs' = Tail(jobs)
    /\ done' = [done EXCEPT ![Head(jobs)] = "cancelled"]
    /\ UNCHANGED <<caller, ended, worker, logged>>

Begin ==
    /\ worker = <<>> /\ jobs # <<>>
    /\ ~ended[Head(jobs)]
    /\ jobs' = Tail(jobs)
    /\ worker' = <<Head(jobs)>>
    /\ UNCHANGED <<caller, ended, done, logged>>

(* The pass ends, well or not; queueFriendlyContext gave it 90 minutes of  *)
(* its own, apart from the 30 seconds of the request.                      *)
Finish ==
    /\ worker # <<>>
    /\ \E outcome \in {"finished", "failed"} : done' = [done EXCEPT ![Head(worker)] = outcome]
    /\ worker' = <<>>
    /\ UNCHANGED <<jobs, caller, ended, logged>>

Log(i) ==
    /\ done[i] # "nothing" /\ i \notin logged
    /\ caller[i] \in {"gave up", "returned"}
    /\ logged' = logged \cup {i}
    /\ UNCHANGED <<jobs, caller, ended, worker, done>>

Step ==
    \/ Drop \/ Begin \/ Finish
    \/ \E i \in Imports : Enqueue(i) \/ Timeout(i) \/ GiveUp(i) \/ Return(i) \/ Log(i)

Next == Step \/ \E i \in Imports : Schedule(i)

Spec == Init /\ [][Next]_vars

(* enqueue spins until there is room or the time is up, so the clock is    *)
(* enough; the worker and the goroutine that logs go on.                   *)
Fairness ==
    /\ WF_vars(Drop \/ Begin) /\ WF_vars(Finish)
    /\ \A i \in Imports : WF_vars(Enqueue(i) \/ GiveUp(i) \/ Return(i))
                          /\ WF_vars(Timeout(i)) /\ WF_vars(Log(i))
-----------------------------------------------------------------------------
TypeOK ==
    /\ jobs \in Seq(Imports) /\ Len(jobs) <= QueueSize
    /\ caller \in [Imports -> {"importing", "offering", "queued", "gave up", "returned"}]
    /\ ended \in [Imports -> BOOLEAN]
    /\ worker = <<>> \/ \E i \in Imports : worker = <<i>>
    /\ done \in [Imports -> {"nothing", "cancelled", "finished", "failed"}]
    /\ logged \subseteq Imports

(* Whatever the queue, the clock and the worker do, each request gets an   *)
(* answer, so that no goroutine waits for good.                            *)
EveryRequestLogged ==
    \A i \in Imports : (caller[i] = "offering") ~> (i \in logged)
=============================================================================
