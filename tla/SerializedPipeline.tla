-------------------------- MODULE SerializedPipeline --------------------------
(***************************************************************************)
(* The queue in front of the single-writer engines (DuckDB, SQLite, Chai): *)
(* pkg/database/database.go, type serializedPipeline.  Every database      *)
(* access of those engines is a job on one of five buffered channels (the  *)
(* lanes); one worker goroutine takes a job, runs it on the shared         *)
(* connection and posts the result on the job's own channel.  The caller   *)
(* waits for the result or for its context, whichever it notices first.    *)
(*                                                                         *)
(* A member of Calls is one activation of withSerializedConnectionFor.     *)
(* Its identity is used again (NewCall) once the caller has returned and   *)
(* no channel holds its job, so that the load never ends.                  *)
(***************************************************************************)
EXTENDS Naturals, Sequences

CONSTANTS
    Calls,      \* callers of withSerializedConnectionFor
    KindOf,     \* KindOf[c]: the workloadKind the caller asks for
    Mortal,     \* the calls whose context may end (cancelled or timed out)
    NLanes,     \* how many lanes there are
    Order,      \* Order[p]: the lane probed at turn p (a permutation)
    Capacity,   \* Capacity[l]: buffer size of lane l
    General,    \* the lane of callers of an unknown kind
    NoCall      \* "the worker holds no job"

Lanes == 0..(NLanes - 1)

ASSUME CallsAssumption == NoCall \notin Calls /\ Mortal \subseteq Calls
ASSUME LanesAssumption ==
    /\ NLanes \in Nat \ {0}
    /\ General \in Lanes
    /\ Capacity \in [Lanes -> Nat \ {0}]
ASSUME OrderAssumption ==
    /\ Order \in [Lanes -> Lanes]
    /\ \A p, q \in Lanes : Order[p] = Order[q] => p = q
    /\ \A l \in Lanes : \E p \in Lanes : Order[p] = l

VARIABLES
    queue,      \* queue[l]: the jobs buffered in lane l, oldest first
    turn,       \* p.turn modulo len(p.order): the next lane to probe
    probes,     \* probes made by the current non-blocking sweep
    worker,     \* "seeking" a job, "checking" its context, "running" it
    job,        \* the job the worker holds
    phase,      \* phase[c]: where the caller stands
    ended,      \* ended[c]: the caller's context is done
    result,     \* result[c]: what the job's result channel holds or held
    outcome,    \* outcome[c]: what the caller returned
    effect,     \* effect[c]: the job's function has changed the database
    overtaken   \* history: jobs taken elsewhere while lane l was waiting

callVars == <<phase, ended, result, outcome, effect>>
laneVars == <<queue, turn, probes, overtaken>>
vars == <<queue, turn, probes, worker, job, phase, ended, result, outcome,
          effect, overtaken>>

Answers == {"ok", "err", "ctx"}
LaneOf(c) == IF KindOf[c] \in Lanes THEN KindOf[c] ELSE General

(* c's job sits in its lane. *)
Queued(c) == \E i \in 1..Len(queue[LaneOf(c)]) : queue[LaneOf(c)][i] = c
(* The pipeline still owns c's job. *)
Pending(c) == Queued(c) \/ job = c
-----------------------------------------------------------------------------
Init ==
    /\ queue = [l \in Lanes |-> <<>>]
    /\ turn = 0
    /\ probes = 0
    /\ worker = "seeking"
    /\ job = NoCall
    /\ phase = [c \in Calls |-> "calling"]
    /\ ended = [c \in Calls |-> FALSE]
    /\ result = [c \in Calls |-> "none"]
    /\ outcome = [c \in Calls |-> "none"]
    /\ effect = [c \in Calls |-> FALSE]
    /\ overtaken = [l \in Lanes |-> 0]

Enqueue(c) ==
    /\ phase[c] = "calling"
    /\ Len(queue[LaneOf(c)]) < Capacity[LaneOf(c)]
    /\ queue' = [queue EXCEPT ![LaneOf(c)] = Append(@, c)]
    /\ phase' = [phase EXCEPT ![c] = "waiting"]
    /\ UNCHANGED <<turn, probes, worker, job, ended, result, outcome, effect,
                   overtaken>>

RefuseEnqueue(c) ==
    /\ phase[c] = "calling"
    /\ ended[c]
    /\ phase' = [phase EXCEPT ![c] = "returned"]
    /\ outcome' = [outcome EXCEPT ![c] = "ctx"]
    /\ UNCHANGED <<laneVars, worker, job, ended, result, effect>>

(* The client goes away or the deadline passes. *)
EndContext(c) ==
    /\ c \in Mortal
    /\ ~ended[c]
    /\ phase[c] # "returned"
    /\ ended' = [ended EXCEPT ![c] = TRUE]
    /\ UNCHANGED <<laneVars, worker, job, phase, result, outcome, effect>>

ReturnResult(c) ==
    /\ phase[c] = "waiting"
    /\ result[c] # "none"
    /\ phase' = [phase EXCEPT ![c] = "returned"]
    /\ outcome' = [outcome EXCEPT ![c] = result[c]]
    /\ UNCHANGED <<laneVars, worker, job, ended, result, effect>>

(* The caller leaves its job behind: queued, running or even finished. *)
ReturnEnded(c) ==
    /\ phase[c] = "waiting"
    /\ ended[c]
    /\ phase' = [phase EXCEPT ![c] = "returned"]
    /\ outcome' = [outcome EXCEPT ![c] = "ctx"]
    /\ UNCHANGED <<laneVars, worker, job, ended, result, effect>>

NewCall(c) ==
    /\ phase[c] = "returned"
    /\ ~Pending(c)
    /\ phase' = [phase EXCEPT ![c] = "calling"]
    /\ ended' = [ended EXCEPT ![c] = FALSE]
    /\ result' = [result EXCEPT ![c] = "none"]
    /\ outcome' = [outcome EXCEPT ![c] = "none"]
    /\ effect' = [effect EXCEPT ![c] = FALSE]
    /\ UNCHANGED <<laneVars, worker, job>>
-----------------------------------------------------------------------------
(* Faulty variant: turn is used as an index without the modulo. *)
NextTurnUnwrapped == turn + 1

(***************************************************************************)
(* The worker.  getNextJob makes one non-blocking pass over the lanes,     *)
(* advancing turn with every probe; only a pass that found them all empty  *)
(* ends in the blocking select, which takes from any lane and leaves turn. *)
(***************************************************************************)
NextTurn == IF turn = NLanes - 1 THEN 0 ELSE turn + 1

(* Receive the oldest job of lane l; every other busy lane is overtaken. *)
Take(l) ==
    /\ queue[l] # <<>>
    /\ job' = Head(queue[l])
    /\ queue' = [queue EXCEPT ![l] = Tail(@)]
    /\ worker' = "checking"
    /\ probes' = 0
    /\ overtaken' = [k \in Lanes |-> IF k = l \/ queue[k] = <<>>
                                     THEN 0 ELSE overtaken[k] + 1]

(* Faulty variant: a lane that had work is probed first again. *)
ProbeHitStays ==
    /\ worker = "seeking"
    /\ probes < NLanes
    /\ Take(Order[turn])
    /\ UNCHANGED <<turn, callVars>>

ProbeHit ==
    /\ worker = "seeking"
    /\ probes < NLanes
    /\ Take(Order[turn])
    /\ turn' = NextTurn
    /\ UNCHANGED callVars

ProbeMiss ==
    /\ worker = "seeking"
    /\ probes < NLanes
    /\ queue[Order[turn]] = <<>>
    /\ turn' = NextTurn
    /\ probes' = probes + 1
    /\ UNCHANGED <<queue, worker, job, overtaken, callVars>>

(* Faulty variant: the blocking select waits on the first lane only. *)
BlockingReceiveFirst ==
    /\ worker = "seeking"
    /\ probes = NLanes
    /\ Take(Order[0])
    /\ UNCHANGED <<turn, callVars>>

BlockingReceive ==
    /\ worker = "seeking"
    /\ probes = NLanes
    /\ \E l \in Lanes : Take(l)
    /\ UNCHANGED <<turn, callVars>>

(* The worker answers on the buffered result channel and seeks again. *)
Reply(answer) ==
    /\ result' = [result EXCEPT ![job] = answer]
    /\ worker' = "seeking"
    /\ job' = NoCall
    /\ UNCHANGED <<laneVars, phase, ended, outcome>>

(* Faulty variant: a job whose context ended is dropped without an answer. *)
SkipEndedSilently ==
    /\ worker = "checking"
    /\ ended[job]
    /\ worker' = "seeking"
    /\ job' = NoCall
    /\ UNCHANGED <<laneVars, callVars>>

SkipEnded ==
    /\ worker = "checking"
    /\ ended[job]
    /\ Reply("ctx")
    /\ UNCHANGED effect

Start ==
    /\ worker = "checking"
    /\ ~ended[job]
    /\ worker' = "running"
    /\ UNCHANGED <<laneVars, job, callVars>>

(* Faulty variant: the error of the function is dropped. *)
FinishSwallowing ==
    /\ worker = "running"
    /\ Reply("ok")
    /\ \E e \in BOOLEAN : effect' = [effect EXCEPT ![job] = e]

(* Faulty variant: a job whose function failed goes back to its lane. *)
FinishRetrying ==
    /\ worker = "running"
    /\ Len(queue[LaneOf(job)]) < Capacity[LaneOf(job)]
    /\ queue' = [queue EXCEPT ![LaneOf(job)] = Append(@, job)]
    /\ worker' = "seeking"
    /\ job' = NoCall
    /\ UNCHANGED <<turn, probes, overtaken, callVars>>

(* A function that fails may have written before it failed: jobs that do   *)
(* not open a transaction leave what they had executed.                    *)
Finish ==
    /\ worker = "running"
    /\ \/ Reply("ok") /\ effect' = [effect EXCEPT ![job] = TRUE]
       \/ Reply("err") /\ \E e \in BOOLEAN : effect' = [effect EXCEPT ![job] = e]

WorkerStep ==
    \/ ProbeHit \/ ProbeMiss \/ BlockingReceive
    \/ SkipEnded \/ Start \/ Finish

CallerStep(c) ==
    \/ Enqueue(c) \/ RefuseEnqueue(c) \/ EndContext(c)
    \/ ReturnResult(c) \/ ReturnEnded(c) \/ NewCall(c)

Next == WorkerStep \/ \E c \in Calls : CallerStep(c)

Spec == Init /\ [][Next]_vars

(* The Go scheduler runs a goroutine that can run; a job's function ends   *)
(* (the statements it issues are bounded by its context).  Nothing is      *)
(* assumed of clients: no call need be made, no context need end.          *)
Fairness ==
    /\ WF_vars(WorkerStep)
    /\ \A c \in Calls : WF_vars(ReturnResult(c) \/ ReturnEnded(c))

FairSpec == Spec /\ Fairness
-----------------------------------------------------------------------------
TypeOK ==
    /\ queue \in [Lanes -> Seq(Calls)]
    /\ turn \in Lanes
    /\ probes \in 0..NLanes
    /\ worker \in {"seeking", "checking", "running"}
    /\ job \in Calls \cup {NoCall}
    /\ phase \in [Calls -> {"calling", "waiting", "returned"}]
    /\ ended \in [Calls -> BOOLEAN]
    /\ result \in [Calls -> Answers \cup {"none"}]
    /\ outcome \in [Calls -> Answers \cup {"none"}]
    /\ effect \in [Calls -> BOOLEAN]
    /\ overtaken \in [Lanes -> Nat]

(* No call is lost and none is answered twice: while a caller waits, its   *)
(* job is in its lane, in the worker's hands, or answered, and only one of *)
(* the three; so the one-place result channel never blocks the worker.     *)
NoLostCall ==
    /\ \A c \in Calls : phase[c] = "waiting" => (Pending(c) \/ result[c] # "none")
    /\ \A c \in Calls : Pending(c) => result[c] = "none"
    /\ job # NoCall => ~Queued(job)

(* Fair rotation ("one busy feed cannot monopolize the single-writer       *)
(* engines"): while a lane has work waiting, the worker takes at most      *)
(* NLanes jobs from other lanes before it takes one of this lane: one      *)
(* through the blocking select that raced with the arrival, then at most   *)
(* one per other lane.                                                     *)
BoundedOvertaking == \A l \in Lanes : overtaken[l] <= NLanes

(* A caller is told nil only for a function that ran to its end, and told  *)
(* of a failure of the function only when it ran; a caller told its        *)
(* context error really has an ended context.                              *)
TruthfulOutcome ==
    \A c \in Calls :
        /\ outcome[c] = "ok" => effect[c] /\ result[c] = "ok"
        /\ outcome[c] = "err" => result[c] = "err"
        /\ outcome[c] = "ctx" => ended[c]

(* A job whose caller has already given up is never started: whoever       *)
(* starts running still has its caller waiting for the result.             *)
AbandonedNeverStarts ==
    [][(worker = "checking" /\ worker' = "running") => phase[job] = "waiting"]_vars

(* Under any load every job that got a place in a lane is answered in the  *)
(* end: a saturated lane cannot starve another.                            *)
EveryWaiterReturns ==
    \A c \in Calls : (phase[c] = "waiting") ~> (phase[c] = "returned")
-----------------------------------------------------------------------------
(* The pipeline seen from outside: one function at a time, each at most    *)
(* once, and none whose caller was refused.                                *)
Status(c) ==
    IF worker = "running" /\ job = c THEN "active"
    ELSE IF Pending(c) THEN "accepted"
    ELSE IF result[c] \in {"ok", "err"} THEN "settled"
    ELSE IF result[c] = "ctx" \/ phase[c] = "returned" THEN "refused"
    ELSE "asked"

Executor == INSTANCE SerialExecutor
    WITH status <- [c \in Calls |-> Status(c)], told <- outcome

ImplementsExecutor == Executor!Spec
=============================================================================
